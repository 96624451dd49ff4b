------------------------------- MODULE Registry -------------------------------
(***************************************************************************)
(* internal/wecom/registry.go: where to answer a chat, kept in memory and  *)
(* in wecom-chatid.json so that it outlives the process.                   *)
(*                                                                         *)
(* Register snapshots the map under the lock, and writes the file after it *)
(* has let go: truncate <path>.tmp, write the snapshot, rename.  Each is a *)
(* step of its own, since OnMessage runs in a goroutine per message and    *)
(* all of them use the same <path>.tmp.  A file is what its name refers to *)
(* plus what a caller still holds open: writing goes to the file that was  *)
(* opened, whatever its name is by then.                                   *)
(*                                                                         *)
(* A file's text is abstracted to the snapshot it parses as (NotJSON when  *)
(* it does not) and its size, counted in entries: entries are taken to be  *)
(* equally long.  The code ignores the disk's errors and goes on.          *)
(***************************************************************************)
EXTENDS Naturals, FiniteSets

CONSTANTS Callers,   \* goroutines that may be in Register at once
          ChatIds,
          Targets,
          NoTarget,  \* the map has no entry
          NotJSON,   \* a file that OpenRegistry cannot unmarshal
          Files,     \* files (inodes) the directory may hold
          NoFile     \* the name does not exist

ASSUME RegistryAssumption ==
    /\ NoTarget \notin Targets
    /\ NoFile \notin Files
    /\ IsFiniteSet(ChatIds)
    /\ NotJSON \notin [ChatIds -> Targets \cup {NoTarget}]

VARIABLES
    up,       \* the process is running
    m,        \* Registry.m
    call,     \* each caller's place in Register, its snapshot, its open file
    tmp,      \* the file named <path>.tmp
    disk,     \* the file named <path>
    file,     \* what each file holds
    returned, \* history: by chat, the target of the last Register to return;
              \* when one repairs the file, what it put there
    overlap,  \* history: a Register has begun while another was under way
    diskError \* history: the disk has refused a write or a rename, and no
              \* Register has repaired the file since

vars == <<up, m, call, tmp, disk, file, returned, overlap, diskError>>

Snapshots == [ChatIds -> Targets \cup {NoTarget}]
NoEntries == [c \in ChatIds |-> NoTarget]
Size(s) == Cardinality({c \in ChatIds : s[c] # NoTarget})

Truncated == [text |-> NotJSON, size |-> 0]
Idle == [at |-> "idle", chat |-> NoTarget, snap |-> NoEntries, fd |-> NoFile]
\* No Register is under way; those that a death has ended are not either.
Quiet == \A w \in Callers : call[w].at = "idle"

InUse == {tmp, disk} \cup {call[w].fd : w \in Callers}

-----------------------------------------------------------------------------
\* Register.

\* Under mu: r.m[chatID] = t, and the snapshot.
Update(w, c, t) ==
    /\ up
    /\ call[w].at = "idle"
    /\ m' = [m EXCEPT ![c] = t]
    /\ call' = [call EXCEPT ![w] = [at |-> "open", chat |-> c, snap |-> m', fd |-> NoFile]]
    /\ overlap' = (overlap \/ ~Quiet)
    /\ UNCHANGED <<up, tmp, disk, file, returned, diskError>>

\* Mutant: no temporary file; the text is written into <path> itself.
OpenTmpInPlace(w) ==
    /\ call[w].at = "open"
    /\ \E f \in IF disk # NoFile THEN {disk} ELSE Files \ InUse :
          /\ disk' = f
          /\ file' = [file EXCEPT ![f] = Truncated]
          /\ call' = [call EXCEPT ![w].at = "write", ![w].fd = f]
    /\ UNCHANGED <<up, m, tmp, returned, overlap, diskError>>

\* os.WriteFile opens the file with O_CREATE and O_TRUNC ...
OpenTmp(w) ==
    /\ call[w].at = "open"
    /\ \E f \in IF tmp # NoFile THEN {tmp} ELSE Files \ InUse :
          /\ tmp' = f
          /\ file' = [file EXCEPT ![f] = Truncated]
          /\ call' = [call EXCEPT ![w].at = "write", ![w].fd = f]
    /\ UNCHANGED <<up, m, disk, returned, overlap, diskError>>

\* ... and writes from its beginning: a longer text that another caller
\* has put there sticks out at the end.
Overwritten(old, s) ==
    IF old.size > Size(s) THEN [text |-> NotJSON, size |-> old.size]
                          ELSE [text |-> s, size |-> Size(s)]

WriteTmp(w) ==
    /\ call[w].at = "write"
    /\ file' = [file EXCEPT ![call[w].fd] = Overwritten(@, call[w].snap)]
    /\ call' = [call EXCEPT ![w].at = "rename", ![w].fd = NoFile]
    /\ UNCHANGED <<up, m, tmp, disk, returned, overlap, diskError>>

\* The disk opens no file, or takes the first n entries of the text only;
\* Register goes on to rename what there is.
Cut(old, n) ==
    IF n = 0 THEN old
    ELSE [text |-> NotJSON, size |-> IF n > old.size THEN n ELSE old.size]

WriteFails(w) ==
    /\ \/ call[w].at = "open" /\ UNCHANGED file
       \/ /\ call[w].at = "write"
          /\ \E n \in 0 .. Size(call[w].snap) :
                file' = [file EXCEPT ![call[w].fd] = Cut(@, n)]
    /\ call' = [call EXCEPT ![w].at = "cut", ![w].fd = NoFile]
    /\ diskError' = TRUE
    /\ UNCHANGED <<up, m, tmp, disk, returned, overlap>>

\* The rename is the last thing Register does, and counts as its return.  It
\* fails when another caller has renamed the file, or the disk refuses.
\* The text is the whole map: it repairs what the disk had refused before.
Repairs(w) == diskError /\ ~overlap /\ call[w].at = "rename"

Rename(w) ==
    /\ call[w].at \in {"rename", "cut"}
    /\ LET puts == [returned EXCEPT ![call[w].chat] = call[w].snap[call[w].chat]]
       IN  \/ /\ tmp # NoFile
              /\ disk' = tmp /\ tmp' = NoFile
              /\ returned' = IF Repairs(w) THEN call[w].snap ELSE puts
              /\ diskError' = (diskError /\ ~Repairs(w))
           \/ /\ diskError' = (diskError \/ tmp # NoFile)
              /\ returned' = puts
              /\ UNCHANGED <<disk, tmp>>
    /\ call' = [call EXCEPT ![w] = Idle]
    /\ UNCHANGED <<up, m, file, overlap>>

-----------------------------------------------------------------------------
\* The process.

\* It dies: what is in memory and who holds which file is gone.
Die ==
    /\ up
    /\ up' = FALSE
    /\ m' = NoEntries
    /\ call' = [w \in Callers |-> Idle]
    /\ UNCHANGED <<tmp, disk, file, returned, overlap, diskError>>

\* The entries a start would find; a file that does not parse ends it.
Readable == disk # NoFile => file[disk].text # NotJSON
OnDisk == IF disk = NoFile THEN NoEntries ELSE file[disk].text

\* Mutant: a start does not read the file.
OpenRegistryEmpty ==
    /\ ~up
    /\ up' = TRUE
    /\ m' = NoEntries
    /\ UNCHANGED <<call, tmp, disk, file, returned, overlap, diskError>>

\* Mutant: a start ignores that the file does not parse.
OpenRegistryUnchecked ==
    /\ ~up
    /\ up' = TRUE
    /\ m' = OnDisk
    /\ UNCHANGED <<call, tmp, disk, file, returned, overlap, diskError>>

OpenRegistry ==
    /\ ~up
    /\ Readable
    /\ up' = TRUE
    /\ m' = OnDisk
    /\ UNCHANGED <<call, tmp, disk, file, returned, overlap, diskError>>

-----------------------------------------------------------------------------
Init ==
    /\ up = FALSE
    /\ m = NoEntries
    /\ call = [w \in Callers |-> Idle]
    /\ tmp = NoFile /\ disk = NoFile
    /\ file = [f \in Files |-> Truncated]
    /\ returned = NoEntries
    /\ overlap = FALSE
    /\ diskError = FALSE

Next ==
    \/ \E w \in Callers :
          \/ \E c \in ChatIds, t \in Targets : Update(w, c, t)
          \/ OpenTmp(w) \/ WriteTmp(w) \/ WriteFails(w) \/ Rename(w)
    \/ Die \/ OpenRegistry

Spec == Init /\ [][Next]_vars

-----------------------------------------------------------------------------
\* Properties.

TypeOK ==
    /\ up \in BOOLEAN
    /\ m \in Snapshots
    /\ call \in [Callers -> [at : {"idle", "open", "write", "rename", "cut"},
                             chat : ChatIds \cup {NoTarget},
                             snap : Snapshots, fd : Files \cup {NoFile}]]
    /\ tmp \in Files \cup {NoFile} /\ disk \in Files \cup {NoFile}
    /\ file \in [Files -> [text : Snapshots \cup {NotJSON}, size : Nat]]
    /\ returned \in Snapshots
    /\ overlap \in BOOLEAN /\ diskError \in BOOLEAN

\* As long as Registers come one at a time, a start finds exactly the
\* targets whose Register had returned, wherever the process dies.  When the
\* disk refuses a write or a rename, this is so again from the next Register
\* that it takes (registry.go:1, registry_test.go:23-36).
Persisted == overlap \/ diskError \/ OnDisk = returned

\* So long, too, the file parses and the bridge starts again
\* (registry.go:44-46, main.go:63-65).
StaysReadable == overlap \/ diskError \/ Readable

\* Even when Registers overlap, a running process answers every chat that
\* the file knows: Lookup never knows less than the next process would.  Not
\* after a disk error: the temporary file that an earlier process left may be
\* renamed when it could not be opened.
Knows(s) == \A c \in ChatIds : s[c] # NoTarget => m[c] # NoTarget
DiskBehindMemory == diskError \/ (up /\ Readable => Knows(OnDisk))

\* When the process runs and every Register it began has returned, the file
\* parses, so that the bridge will start again (registry.go:44-46,
\* main.go:63-65): the disk has refused nothing.
ReadableWhenReturned == up /\ Quiet /\ ~diskError => Readable

-----------------------------------------------------------------------------
\* The inductive invariant behind Persisted: without an overlap at most one
\* call is under way, and its place says what the temporary file holds.

Settled == /\ tmp # NoFile => tmp # disk
           /\ ~diskError => /\ Readable
                            /\ OnDisk = returned
                            /\ Quiet /\ up => m = returned

Alone == \A v, w \in Callers : call[v].at # "idle" /\ call[w].at # "idle" => v = w

Resting(w) == call[w].at = "idle" => call[w] = Idle

InCall(w) == call[w].at # "idle" =>
    /\ up
    /\ call[w].chat \in ChatIds
    /\ call[w].snap = m
    /\ call[w].at = "cut" => diskError
    /\ ~diskError => m = [returned EXCEPT ![call[w].chat] = m[call[w].chat]]

HasTmp(w) ==
    /\ call[w].at = "write" => /\ call[w].fd = tmp
                               /\ tmp # NoFile
                               /\ file[tmp] = Truncated
    /\ call[w].at = "rename" => /\ tmp # NoFile
                                /\ file[tmp].text = m

Calls == Alone /\ \A w \in Callers : Resting(w) /\ InCall(w) /\ HasTmp(w)

\* The invariant behind DiskBehindMemory, which overlaps do not disturb: the
\* map knows every snapshot under way, and what it may be renamed from.
Parsed(f) == f # NoFile /\ file[f].text # NotJSON
Ahead ==
    /\ up /\ Parsed(disk) => Knows(file[disk].text)
    /\ \A w \in Callers : call[w].at # "idle" => up /\ Knows(call[w].snap)
    /\ (\E w \in Callers : call[w].at \in {"write", "rename", "cut"}) /\ Parsed(tmp)
          => Knows(file[tmp].text)

IInv == /\ TypeOK
        /\ overlap \/ (Settled /\ Calls)
        /\ diskError \/ Ahead
=============================================================================
