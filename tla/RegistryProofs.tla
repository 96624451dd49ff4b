---------------------------- MODULE RegistryProofs ----------------------------
(***************************************************************************)
(* For any callers, chats and targets: as long as Registers have not       *)
(* overlapped, what a start reads back is exactly what the Registers that  *)
(* returned had put, wherever the process dies, and after a disk error it  *)
(* is so again from the next Register that the disk takes; and however     *)
(* they overlap, the map knows every chat that the file knows.             *)
(***************************************************************************)
EXTENDS Registry, FiniteSetTheorems, TLAPS

\* The size of a snapshot is a number.
LEMMA SizeIsNat == ASSUME NEW s PROVE Size(s) \in Nat
<1>1. {c \in ChatIds : s[c] # NoTarget} \subseteq ChatIds
  OBVIOUS
<1>2. IsFiniteSet({c \in ChatIds : s[c] # NoTarget})
  BY <1>1, RegistryAssumption, FS_Subset
<1> QED BY <1>2, FS_CardinalityType DEF Size

\* Writing into a truncated file leaves the snapshot.
LEMMA WrittenIsSnapshot ==
    ASSUME NEW s PROVE Overwritten(Truncated, s) = [text |-> s, size |-> Size(s)]
<1>1. Truncated.size = 0
  BY DEF Truncated
<1>2. ~(0 > Size(s))
  BY SizeIsNat
<1> QED BY <1>1, <1>2 DEF Overwritten

\* Snapshots are readable.
LEMMA SnapshotsAreJSON == NotJSON \notin Snapshots /\ NoEntries \in Snapshots
  BY RegistryAssumption DEF Snapshots, NoEntries

-----------------------------------------------------------------------------
\* Types: for calls that overlap as well.

Texts == [text : Snapshots \cup {NotJSON}, size : Nat]
CallType == [at : {"idle", "open", "write", "rename", "cut"}, chat : ChatIds \cup {NoTarget},
             snap : Snapshots, fd : Files \cup {NoFile}]

LEMMA IdleType == Idle \in CallType
  BY SnapshotsAreJSON DEF Idle, CallType

LEMMA Types == TypeOK <=> /\ up \in BOOLEAN
                          /\ m \in Snapshots
                          /\ call \in [Callers -> CallType]
                          /\ tmp \in Files \cup {NoFile} /\ disk \in Files \cup {NoFile}
                          /\ file \in [Files -> Texts]
                          /\ returned \in Snapshots
                          /\ overlap \in BOOLEAN /\ diskError \in BOOLEAN
  BY DEF TypeOK, CallType, Texts

LEMMA TypesNext == TypeOK' <=> /\ up' \in BOOLEAN
                               /\ m' \in Snapshots
                               /\ call' \in [Callers -> CallType]
                               /\ tmp' \in Files \cup {NoFile}
                               /\ disk' \in Files \cup {NoFile}
                               /\ file' \in [Files -> Texts]
                               /\ returned' \in Snapshots
                               /\ overlap' \in BOOLEAN /\ diskError' \in BOOLEAN
  BY DEF TypeOK, CallType, Texts

LEMMA TypePreserved == ASSUME TypeOK, [Next]_vars PROVE TypeOK'
<1> USE Types, TypesNext
<1>1. ASSUME NEW w \in Callers, NEW c \in ChatIds, NEW t \in Targets, Update(w, c, t)
      PROVE  TypeOK'
  <2>1. m' \in Snapshots
    BY <1>1 DEF Update, Snapshots
  <2>2. [at |-> "open", chat |-> c, snap |-> m', fd |-> NoFile] \in CallType
    BY <2>1 DEF CallType
  <2>3. overlap' \in BOOLEAN
    BY <1>1, Zenon DEF Update
  <2> QED BY <1>1, <2>1, <2>2, <2>3 DEF Update
<1>2. ASSUME NEW w \in Callers, OpenTmp(w) PROVE TypeOK'
  <2>1. PICK f \in Files : /\ tmp' = f
                           /\ file' = [file EXCEPT ![f] = Truncated]
                           /\ call' = [call EXCEPT ![w].at = "write", ![w].fd = f]
    BY <1>2 DEF OpenTmp
  <2>2. Truncated \in Texts
    BY DEF Truncated, Texts
  <2>3. [call[w] EXCEPT !.at = "write", !.fd = f] \in CallType
    BY DEF CallType
  <2>4. call' = [call EXCEPT ![w] = [call[w] EXCEPT !.at = "write", !.fd = f]]
    BY <2>1
  <2>5. call' \in [Callers -> CallType] /\ file' \in [Files -> Texts]
    BY <2>1, <2>2, <2>3, <2>4
  <2> QED BY <1>2, <2>1, <2>5 DEF OpenTmp
<1>3. ASSUME NEW w \in Callers, WriteTmp(w) PROVE TypeOK'
  <2>1. call[w].snap \in Snapshots
    BY DEF CallType
  <2>2. \A old \in Texts : Overwritten(old, call[w].snap) \in Texts
    BY <2>1, SizeIsNat DEF Overwritten, Texts
  <2>3. file' \in [Files -> Texts]
    BY <1>3, <2>2 DEF WriteTmp
  <2>4. [call[w] EXCEPT !.at = "rename", !.fd = NoFile] \in CallType
    BY DEF CallType
  <2>5. call' = [call EXCEPT ![w] = [call[w] EXCEPT !.at = "rename", !.fd = NoFile]]
    BY <1>3 DEF WriteTmp
  <2>6. call' \in [Callers -> CallType]
    BY <2>4, <2>5
  <2> QED BY <1>3, <2>3, <2>6 DEF WriteTmp
<1>4. ASSUME NEW w \in Callers, Rename(w) PROVE TypeOK'
  <2>1. call[w].snap \in Snapshots
    BY DEF CallType
  <2>2. [returned EXCEPT ![call[w].chat] = call[w].snap[call[w].chat]] \in Snapshots
    BY <2>1 DEF Snapshots
  <2>3. returned' \in Snapshots
    BY <1>4, <2>1, <2>2 DEF Rename
  <2>4. diskError' \in BOOLEAN
    BY <1>4 DEF Rename
  <2>5. call' \in [Callers -> CallType]
    BY <1>4, IdleType DEF Rename
  <2>6. tmp' \in Files \cup {NoFile} /\ disk' \in Files \cup {NoFile}
    BY <1>4 DEF Rename
  <2> QED BY <1>4, <2>3, <2>4, <2>5, <2>6 DEF Rename
<1>5. ASSUME Die PROVE TypeOK'
  BY <1>5, IdleType, SnapshotsAreJSON DEF Die
<1>6. ASSUME OpenRegistry PROVE TypeOK'
  <2>1. m' \in Snapshots
    BY <1>6, SnapshotsAreJSON DEF OpenRegistry, Readable, OnDisk, Texts
  <2> QED BY <1>6, <2>1 DEF OpenRegistry
<1>7. ASSUME NEW w \in Callers, WriteFails(w) PROVE TypeOK'
  <2>1. \A old \in Texts, n \in Nat : Cut(old, n) \in Texts
    BY DEF Cut, Texts
  <2>2. 0 .. Size(call[w].snap) \subseteq Nat
    BY SizeIsNat
  <2>3. file' \in [Files -> Texts]
    BY <1>7, <2>1, <2>2 DEF WriteFails
  <2>4. [call[w] EXCEPT !.at = "cut", !.fd = NoFile] \in CallType
    BY DEF CallType
  <2>5. call' = [call EXCEPT ![w] = [call[w] EXCEPT !.at = "cut", !.fd = NoFile]]
    BY <1>7 DEF WriteFails
  <2>6. call' \in [Callers -> CallType]
    BY <2>4, <2>5
  <2> QED BY <1>7, <2>3, <2>6 DEF WriteFails
<1>8. ASSUME UNCHANGED vars PROVE TypeOK'
  BY <1>8 DEF vars
<1> QED BY <1>1, <1>2, <1>3, <1>4, <1>5, <1>6, <1>7, <1>8 DEF Next

-----------------------------------------------------------------------------
\* Calls that have not overlapped.

\* One call is under way, and every other caller is idle.
LEMMA OneCall ==
    ASSUME NEW w \in Callers,
           \A v \in Callers \ {w} : call'[v] = Idle,
           InCall(w)', HasTmp(w)', Resting(w)'
    PROVE  Calls'
<1>1. Idle.at = "idle"
  BY DEF Idle
<1>2. \A v \in Callers \ {w} : Resting(v)' /\ InCall(v)' /\ HasTmp(v)'
  BY <1>1 DEF Resting, InCall, HasTmp
<1> QED BY <1>1, <1>2 DEF Calls, Alone

\* None is.
LEMMA NoCall == ASSUME \A v \in Callers : call'[v] = Idle PROVE Calls'
  BY DEF Calls, Alone, Resting, InCall, HasTmp, Idle

\* While a call is under way the others are idle.
LEMMA OthersIdle ==
    ASSUME Calls, NEW w \in Callers, call[w].at # "idle"
    PROVE  \A v \in Callers \ {w} : call[v] = Idle
  BY DEF Calls, Alone, Resting

LEMMA Initially == Init => IInv
<1> SUFFICES ASSUME Init PROVE IInv
  OBVIOUS
<1> USE DEF Init
<1>1. Truncated \in Texts
  BY DEF Truncated, Texts
<1>2. TypeOK
  BY <1>1, IdleType, SnapshotsAreJSON, Types
<1>3. Settled
  BY DEF Settled, Readable, OnDisk
<1>4. Calls
  BY DEF Calls, Alone, Resting, InCall, HasTmp, Idle
<1>5. Ahead
  BY DEF Ahead, Parsed, Idle
<1> QED BY <1>2, <1>3, <1>4, <1>5 DEF IInv

\* A step that does not overlap another call keeps the file settled, but for
\* what the disk refuses, and the call in its place.
LEMMA SerialStep ==
    ASSUME TypeOK, Settled, Calls, [Next]_vars, ~overlap'
    PROVE  Settled' /\ Calls'
<1> USE Types
<1>1. ASSUME NEW w \in Callers, NEW c \in ChatIds, NEW t \in Targets, Update(w, c, t)
      PROVE  Settled' /\ Calls'
  <2> USE <1>1 DEF Update
  <2>1. Quiet
    OBVIOUS
  <2>2. \A v \in Callers : call[v] = Idle
    BY <2>1 DEF Quiet, Calls, Resting
  <2>3. ~diskError => m = returned
    BY <2>1 DEF Settled
  <2>4. call'[w] = [at |-> "open", chat |-> c, snap |-> m', fd |-> NoFile]
    OBVIOUS
  <2>5. call'[w].at = "open" /\ call'[w].chat = c /\ call'[w].snap = m'
    BY <2>4
  <2>6. \A v \in Callers \ {w} : call'[v] = Idle
    BY <2>2
  <2>7. ~diskError => m' = [returned EXCEPT ![c] = m'[c]]
    BY <2>3 DEF Snapshots
  <2>8. InCall(w)' /\ HasTmp(w)' /\ Resting(w)'
    <3>1. up' /\ returned' = returned
      OBVIOUS
    <3> QED BY <2>5, <2>7, <3>1 DEF InCall, HasTmp, Resting
  <2>9. Settled'
    BY <2>5 DEF Settled, Readable, OnDisk, Quiet
  <2> QED BY <2>6, <2>8, <2>9, OneCall
<1>2. ASSUME NEW w \in Callers, OpenTmp(w) PROVE Settled' /\ Calls'
  <2> USE <1>2 DEF OpenTmp
  <2>1. PICK f \in Files :
           /\ f = tmp \/ f \notin InUse
           /\ tmp' = f
           /\ file' = [file EXCEPT ![f] = Truncated]
           /\ call' = [call EXCEPT ![w].at = "write", ![w].fd = f]
    OBVIOUS
  <2>2. f # disk
    BY <2>1, RegistryAssumption DEF InUse, Settled
  <2>3. call'[w] = [call[w] EXCEPT !.at = "write", !.fd = f] /\ call[w] \in CallType
    BY <2>1
  <2>4. /\ call'[w].at = "write" /\ call'[w].fd = f
        /\ call'[w].chat = call[w].chat /\ call'[w].snap = call[w].snap
    <3> HIDE <1>2 DEF OpenTmp
    <3> QED BY <2>3 DEF CallType
  <2>5. file'[f] = Truncated /\ tmp' # NoFile
    BY <2>1, RegistryAssumption
  <2>6. disk # NoFile => file'[disk] = file[disk]
    BY <2>1, <2>2
  <2>7. Settled'
    BY <2>1, <2>2, <2>4, <2>6 DEF Settled, Readable, OnDisk, Quiet
  <2>8. InCall(w)' /\ HasTmp(w)' /\ Resting(w)'
    <3>1. InCall(w)
      BY DEF Calls
    <3> QED BY <2>1, <2>4, <2>5, <3>1 DEF InCall, HasTmp, Resting
  <2>9. \A v \in Callers \ {w} : call'[v] = Idle
    BY <2>1, OthersIdle
  <2> QED BY <2>7, <2>8, <2>9, OneCall
<1>3. ASSUME NEW w \in Callers, WriteTmp(w) PROVE Settled' /\ Calls'
  <2> USE <1>3 DEF WriteTmp
  <2>1. InCall(w) /\ HasTmp(w)
    BY DEF Calls
  <2>2. /\ call[w].fd = tmp /\ tmp # NoFile /\ tmp \in Files /\ tmp # disk
        /\ call[w].snap = m /\ file[tmp] = Truncated
    BY <2>1 DEF HasTmp, InCall, Settled
  <2>3. file' = [file EXCEPT ![tmp] = [text |-> m, size |-> Size(m)]]
    BY <2>2, WrittenIsSnapshot
  <2>4. tmp' = tmp /\ m' = m /\ file'[tmp].text = m
    BY <2>2, <2>3
  <2>5. call'[w] = [call[w] EXCEPT !.at = "rename", !.fd = NoFile] /\ call[w] \in CallType
    OBVIOUS
  <2>6. /\ call'[w].at = "rename"
        /\ call'[w].chat = call[w].chat /\ call'[w].snap = call[w].snap
    <3> HIDE <1>3 DEF WriteTmp
    <3> QED BY <2>5 DEF CallType
  <2>7. disk # NoFile => file'[disk] = file[disk]
    BY <2>2, <2>3
  <2>8. Settled'
    BY <2>6, <2>7 DEF Settled, Readable, OnDisk, Quiet
  <2>9. InCall(w)' /\ HasTmp(w)' /\ Resting(w)'
    BY <2>1, <2>2, <2>4, <2>6 DEF InCall, HasTmp, Resting
  <2>10. \A v \in Callers \ {w} : call'[v] = Idle
    BY OthersIdle
  <2> QED BY <2>8, <2>9, <2>10, OneCall
<1>4. ASSUME NEW w \in Callers, Rename(w) PROVE Settled' /\ Calls'
  <2> DEFINE puts == [returned EXCEPT ![call[w].chat] = call[w].snap[call[w].chat]]
  <2>1. InCall(w) /\ HasTmp(w)
    BY DEF Calls
  <2>2. /\ call[w].at \in {"rename", "cut"} /\ overlap' = overlap /\ up' = up /\ m' = m
        /\ file' = file /\ call' = [call EXCEPT ![w] = Idle]
    BY <1>4 DEF Rename
  <2>3. call[w].snap = m
    BY <2>1, <2>2 DEF InCall
  <2>4. ~diskError => call[w].at = "rename" /\ puts = m
    BY <2>1, <2>2, <2>3 DEF InCall
  <2>5. call[w].at = "rename" => tmp # NoFile /\ file[tmp].text = m
    BY <2>1 DEF HasTmp
  <2>6. \/ /\ tmp # NoFile /\ disk' = tmp /\ tmp' = NoFile
           /\ returned' = IF Repairs(w) THEN call[w].snap ELSE puts
           /\ diskError' = (diskError /\ ~Repairs(w))
        \/ /\ diskError' = (diskError \/ tmp # NoFile) /\ disk' = disk /\ tmp' = tmp
    BY <1>4 DEF Rename
  <2> HIDE DEF puts
  <2>7. ASSUME ~diskError'
        PROVE  /\ disk' = tmp /\ tmp # NoFile
               /\ call[w].at = "rename"
               /\ returned' = m
    BY <2>3, <2>4, <2>5, <2>6, <2>7 DEF Repairs
  <2>8. ~diskError' => Readable' /\ OnDisk' = returned' /\ returned' = m'
    BY <2>2, <2>5, <2>7, SnapshotsAreJSON DEF Readable, OnDisk
  <2>9. tmp' # NoFile => tmp' # disk'
    BY <2>6 DEF Settled
  <2>10. Settled'
    BY <2>8, <2>9 DEF Settled
  <2>11. \A v \in Callers : call'[v] = Idle
    BY <2>2, OthersIdle
  <2> QED BY <2>10, <2>11, NoCall
<1>5. ASSUME Die PROVE Settled' /\ Calls'
  <2>1. Settled'
    BY <1>5 DEF Die, Settled, Readable, OnDisk
  <2>2. \A v \in Callers : call'[v] = Idle
    BY <1>5 DEF Die
  <2> QED BY <2>1, <2>2, NoCall
<1>6. ASSUME OpenRegistry PROVE Settled' /\ Calls'
  <2>1. \A v \in Callers : call[v] = Idle
    BY <1>6 DEF OpenRegistry, Calls, InCall, Resting
  <2>2. Settled'
    BY <1>6 DEF OpenRegistry, Settled, Readable, OnDisk
  <2> QED BY <1>6, <2>1, <2>2, NoCall DEF OpenRegistry
<1>7. ASSUME NEW w \in Callers, WriteFails(w) PROVE Settled' /\ Calls'
  <2> USE <1>7 DEF WriteFails
  <2>1. /\ call[w].at # "idle" /\ diskError' /\ up' = up /\ m' = m
        /\ tmp' = tmp /\ disk' = disk
    OBVIOUS
  <2>2. call'[w] = [call[w] EXCEPT !.at = "cut", !.fd = NoFile] /\ call[w] \in CallType
    OBVIOUS
  <2>3. /\ call'[w].at = "cut"
        /\ call'[w].chat = call[w].chat /\ call'[w].snap = call[w].snap
    <3> HIDE <1>7 DEF WriteFails
    <3> QED BY <2>2 DEF CallType
  <2>4. InCall(w)
    BY DEF Calls
  <2>5. \A v \in Callers \ {w} : call'[v] = Idle
    BY OthersIdle
  <2> HIDE <1>7 DEF WriteFails
  <2>6. InCall(w)' /\ HasTmp(w)' /\ Resting(w)'
    BY <2>1, <2>3, <2>4 DEF InCall, HasTmp, Resting
  <2>7. Settled'
    BY <2>1 DEF Settled
  <2> QED BY <2>5, <2>6, <2>7, OneCall
<1>8. ASSUME UNCHANGED vars PROVE Settled' /\ Calls'
  BY <1>8 DEF vars, Settled, Readable, OnDisk, Quiet, Calls, Alone, Resting, InCall, HasTmp
<1> QED BY <1>1, <1>2, <1>3, <1>4, <1>5, <1>6, <1>7, <1>8 DEF Next

\* Once Registers have overlapped they have.
LEMMA OverlapStays == ASSUME TypeOK, [Next]_vars, overlap PROVE overlap'
  BY DEF Next, vars, Update, OpenTmp, WriteTmp, WriteFails, Rename, Die, OpenRegistry

\* Only a Register that repairs the file ends a disk error.
LEMMA ErrorStays ==
    ASSUME TypeOK, [Next]_vars, diskError, ~diskError'
    PROVE  \E w \in Callers : Rename(w) /\ Repairs(w)
  BY DEF Next, vars, Update, OpenTmp, WriteTmp, WriteFails, Rename, Die, OpenRegistry

-----------------------------------------------------------------------------
\* Calls that may have overlapped.

\* A target that is put is one: the map forgets nothing.
LEMMA StillKnows ==
    ASSUME TypeOK, NEW c \in ChatIds, NEW t \in Targets, m' = [m EXCEPT ![c] = t],
           NEW s, Knows(s)
    PROVE  \A d \in ChatIds : s[d] # NoTarget => m'[d] # NoTarget
  BY RegistryAssumption DEF Knows, TypeOK, Snapshots

\* What a write leaves in a file does not parse, or is the snapshot.
LEMMA WrittenParses ==
    ASSUME NEW old, NEW s, Overwritten(old, s).text # NotJSON
    PROVE  Overwritten(old, s).text = s
  BY DEF Overwritten

LEMMA AheadStep == ASSUME TypeOK, Ahead, [Next]_vars, ~diskError' PROVE Ahead'
<1> USE Types
<1>1. ASSUME NEW w \in Callers, NEW c \in ChatIds, NEW t \in Targets, Update(w, c, t)
      PROVE  Ahead'
  <2>1. /\ up' = up /\ disk' = disk /\ tmp' = tmp /\ file' = file /\ up
        /\ m' = [m EXCEPT ![c] = t]
        /\ call' = [call EXCEPT ![w] = [at |-> "open", chat |-> c, snap |-> m',
                                        fd |-> NoFile]]
    BY <1>1 DEF Update
  <2>2. \A s : Knows(s) => Knows(s)'
    BY <2>1, StillKnows DEF Knows
  <2>3. up' /\ Parsed(disk)' => Knows(file[disk].text)'
    BY <2>1, <2>2 DEF Ahead, Parsed, Knows
  <2>4. ASSUME NEW v \in Callers, call'[v].at # "idle"
        PROVE  up' /\ Knows(call[v].snap)'
    <3>1. CASE v = w
      <4>1. call'[w].snap = m'
        BY <2>1
      <4> QED BY <3>1, <2>1, <4>1 DEF Knows
    <3>2. CASE v # w
      <4>1. call'[v] = call[v]
        BY <3>2, <2>1
      <4> QED BY <4>1, <2>1, <2>2, <2>4 DEF Ahead, Knows
    <3> QED BY <3>1, <3>2
  <2>5. ASSUME NEW v \in Callers, call'[v].at \in {"write", "rename", "cut"}, Parsed(tmp)'
        PROVE  Knows(file[tmp].text)'
    <3>1. call'[w].at = "open"
      BY <2>1
    <3>2. call'[v] = call[v]
      BY <3>1, <2>1, <2>5
    <3> QED BY <3>2, <2>1, <2>2, <2>5 DEF Ahead, Parsed, Knows
  <2> QED BY <2>3, <2>4, <2>5 DEF Ahead
<1>2. ASSUME NEW w \in Callers, OpenTmp(w) PROVE Ahead'
  <2>1. PICK f \in Files : /\ tmp' = f
                           /\ file' = [file EXCEPT ![f] = Truncated]
                           /\ call' = [call EXCEPT ![w].at = "write", ![w].fd = f]
    BY <1>2 DEF OpenTmp
  <2>2. up' = up /\ m' = m /\ disk' = disk /\ call[w].at = "open"
    BY <1>2 DEF OpenTmp
  <2>3. ~Parsed(tmp)' /\ file'[f].text = NotJSON
    BY <2>1 DEF Parsed, Truncated
  <2>4. Parsed(disk)' => Parsed(disk) /\ file'[disk] = file[disk]
    BY <2>1, <2>2, <2>3 DEF Parsed
  <2>5. \A v \in Callers :
           call'[v].snap = call[v].snap /\ (call'[v].at # "idle" => call[v].at # "idle")
    BY <2>1, <2>2 DEF CallType
  <2> QED BY <2>2, <2>3, <2>4, <2>5 DEF Ahead, Knows
<1>3. ASSUME NEW w \in Callers, WriteTmp(w) PROVE Ahead'
  <2>1. /\ up' = up /\ m' = m /\ disk' = disk /\ tmp' = tmp /\ call[w].at = "write"
        /\ file' = [file EXCEPT ![call[w].fd] = Overwritten(@, call[w].snap)]
        /\ call' = [call EXCEPT ![w].at = "rename", ![w].fd = NoFile]
    BY <1>3 DEF WriteTmp
  <2>2. Knows(call[w].snap) /\ up
    BY <2>1 DEF Ahead
  <2>3. ASSUME NEW f \in Files, file'[f].text # NotJSON
        PROVE  file'[f] = file[f] \/ file'[f].text = call[w].snap
    BY <2>1, <2>3, WrittenParses
  <2>4. up' /\ Parsed(disk)' => Knows(file[disk].text)'
    BY <2>1, <2>2, <2>3 DEF Ahead, Parsed, Knows
  <2>5. Parsed(tmp)' => Knows(file[tmp].text)'
    BY <2>1, <2>2, <2>3 DEF Ahead, Parsed, Knows
  <2>6. \A v \in Callers :
           call'[v].snap = call[v].snap /\ (call'[v].at # "idle" => call[v].at # "idle")
    BY <2>1 DEF CallType
  <2> QED BY <2>1, <2>4, <2>5, <2>6 DEF Ahead, Knows
<1>4. ASSUME NEW w \in Callers, Rename(w) PROVE Ahead'
  <2>1. /\ up' = up /\ m' = m /\ file' = file /\ call[w].at \in {"rename", "cut"}
        /\ tmp' \in {tmp, NoFile} /\ disk' \in {tmp, disk}
        /\ call' = [call EXCEPT ![w] = Idle]
    BY <1>4 DEF Rename
  <2>2. up' /\ Parsed(disk)' => Knows(file[disk].text)'
    BY <2>1 DEF Ahead, Parsed, Knows
  <2>3. \A v \in Callers : call'[v].at # "idle" => call'[v] = call[v]
    BY <2>1 DEF Idle
  <2>4. Parsed(tmp)' => tmp' = tmp
    BY <2>1 DEF Parsed
  <2> QED BY <2>1, <2>2, <2>3, <2>4 DEF Ahead, Parsed, Knows
<1>5. ASSUME Die PROVE Ahead'
  BY <1>5 DEF Die, Ahead, Idle
<1>6. ASSUME OpenRegistry PROVE Ahead'
  <2>1. \A v \in Callers : call'[v].at = "idle"
    BY <1>6 DEF OpenRegistry, Ahead
  <2> QED BY <1>6, <2>1 DEF OpenRegistry, OnDisk, Parsed, Ahead, Knows
<1>7. ASSUME NEW w \in Callers, WriteFails(w) PROVE FALSE
  BY <1>7 DEF WriteFails
<1>8. ASSUME UNCHANGED vars PROVE Ahead'
  BY <1>8 DEF vars, Ahead, Parsed, Knows
<1> QED BY <1>1, <1>2, <1>3, <1>4, <1>5, <1>6, <1>7, <1>8 DEF Next

\* A Register that repairs the file leaves the map in it, and no other is
\* under way.
LEMMA AheadAgain ==
    ASSUME TypeOK, Calls, NEW w \in Callers, Rename(w), Repairs(w), ~diskError'
    PROVE  Ahead'
<1>1. /\ call[w].at = "rename" /\ disk' = tmp /\ tmp' = NoFile /\ file' = file /\ m' = m
      /\ call' = [call EXCEPT ![w] = Idle]
  BY DEF Rename, Repairs
<1>2. file[tmp].text = m
  BY <1>1 DEF Calls, HasTmp
<1>3. \A v \in Callers : call'[v] = Idle
  BY <1>1, OthersIdle, Types
<1> QED BY <1>1, <1>2, <1>3 DEF Ahead, Parsed, Knows, Idle

LEMMA Preserved == IInv /\ [Next]_vars => IInv'
<1> SUFFICES ASSUME IInv, [Next]_vars PROVE IInv'
  OBVIOUS
<1>1. TypeOK'
  BY TypePreserved DEF IInv
<1>2. ASSUME ~overlap' PROVE Settled' /\ Calls'
  BY <1>2, OverlapStays, SerialStep DEF IInv
<1>3. ASSUME ~diskError' PROVE Ahead'
  <2>1. CASE diskError
    <3>1. PICK w \in Callers : Rename(w) /\ Repairs(w)
      BY <1>3, <2>1, ErrorStays DEF IInv
    <3>2. Calls
      BY <3>1 DEF Repairs, IInv
    <3> QED BY <1>3, <3>1, <3>2, AheadAgain DEF IInv
  <2>2. CASE ~diskError
    BY <1>3, <2>2, AheadStep DEF IInv
  <2> QED BY <2>1, <2>2
<1> QED BY <1>1, <1>2, <1>3 DEF IInv

-----------------------------------------------------------------------------
\* The inductive invariant of the registry and its file.
THEOREM Invariance == Spec => []IInv
  BY Initially, Preserved, PTL DEF Spec

\* Every variable keeps its type, when Registers overlap as well.
THEOREM TypeCorrect == Spec => []TypeOK
<1>1. IInv => TypeOK
  BY DEF IInv
<1> QED BY Invariance, <1>1, PTL

\* OpenRegistry after any death finds exactly what the Registers that
\* returned had put, as long as they came one at a time and from the next
\* Register on that follows a disk error (registry.go:32-58).
THEOREM RegistersPersist == Spec => []Persisted
<1>1. IInv => Persisted
  BY DEF IInv, Settled, Persisted
<1> QED BY Invariance, <1>1, PTL

\* So long, too, the file that main needs to start parses
\* (registry.go:44-46).
THEOREM FileStaysReadable == Spec => []StaysReadable
<1>1. IInv => StaysReadable
  BY DEF IInv, Settled, StaysReadable
<1> QED BY Invariance, <1>1, PTL

\* However Registers overlap, Lookup knows every chat the next process would
\* read from the file, unless the disk has failed (registry.go:50-58).
THEOREM MemoryKnowsFile == Spec => []DiskBehindMemory
<1>1. IInv => DiskBehindMemory
  BY DEF IInv, Ahead, DiskBehindMemory, Readable, Parsed, OnDisk, Knows, NoEntries
<1> QED BY Invariance, <1>1, PTL
=============================================================================
