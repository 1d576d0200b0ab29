------------------------- MODULE ClaudeSwitchProofs -------------------------
(***************************************************************************)
(* What holds of ClaudeSwitch for every set of accounts and any number of  *)
(* switches, listings, faults and crashes.                                 *)
(***************************************************************************)
EXTENDS ClaudeSwitch, TLAPS

(* A command past its snapshot has a backup.                               *)
Backed == {"note", "credentials", "identity", "verify", "commit", "restore"}
TypeInv == TypeOK /\ (op.pc \in Backed => op.backup # 0)

(* An image a power loss may leave: with no journal its pair is whole;     *)
(* with one, its backup is whole and accounts for every document.  A tool  *)
(* that runs beside a journal spoils the pairs, and what it writes then is *)
(* all that no backup accounts for.                                        *)
Sound(image, taken, spoilt, stray) ==
  IF image.journal = 0
  THEN spoilt \/ Whole(image.live)
  ELSE /\ spoilt \/ Whole(taken[image.journal])
       /\ \A f \in File : image.live[f].stamp \in
            {0, 1, taken[image.journal][f].stamp} \cup stray
AllSound == \A image \in survivors : Sound(image, backups, beside, strays)

(* The tool runs only where no command writes but a recovery, and unless   *)
(* it has run beside a journal, what it has read is still what the file    *)
(* says of its owner.                                                      *)
ToolQuiet ==
  /\ tool => \/ op.pc \in {"idle", "journal", "check"}
             \/ op.pc = "restore" /\ op.why = "recover"
  /\ tool /\ disk.journal # 0 => beside
  /\ cache # NoCache =>
       /\ tool
       /\ \/ beside
          \/ Exists(disk.live[cache.file]) /\ disk.live[cache.file].of = cache.of

(* Where a command stands, and what is on disk then.                       *)
Phase ==
  /\ op.pc \in {"check", "load", "capture", "note"} => disk.journal = 0
  /\ op.pc \in {"credentials", "identity", "verify", "commit", "restore"}
       => disk.journal = op.backup
  /\ op.pc \in {"check", "load", "capture", "note",
                "credentials", "identity", "verify", "commit"}
       => op.target # Nobody
  /\ op.pc = "restore" /\ op.why = "abort" => op.target # Nobody
  /\ op.pc = "idle" => op = Idle
  /\ op.pc = "capture" => op.stamp = disk.live["identity"].stamp
  /\ op.pc = "note" => disk.live = backups[op.backup]
  /\ op.pc \in {"note", "credentials", "identity", "verify"}
       => op.stamp = backups[op.backup]["identity"].stamp
  /\ op.pc \in {"verify", "commit"} => survivors = {disk}
  /\ op.pc = "commit" => OwnersOf(disk.live) = <<op.target, op.target>>
  /\ op.pc = "restore" =>
       beside \/ \A f \in File \ op.todo : disk.live[f] = backups[op.backup][f]

IInv == TypeInv /\ AllSound /\ ToolQuiet /\ Phase

-----------------------------------------------------------------------------
(***************************************************************************)
(* Types.                                                                  *)
(***************************************************************************)
StoreOK ==
  /\ backups \in Seq([File -> Document])
  /\ disk \in Disk /\ survivors \in SUBSET Disk /\ disk \in survivors
  /\ \A image \in survivors : image.journal \in 0..Len(backups)
OpOK ==
  /\ op \in [pc : Pc, target : Account \cup {Nobody}, backup : 0..Len(backups),
             stamp : Nat, todo : SUBSET File, why : {"recover", "abort"}]
  /\ answer \in {"none", "ok", "error"}
VendorOK ==
  /\ tool \in BOOLEAN
  /\ cache \in {NoCache} \cup [file : File, of : Account \cup {Nobody}]
  /\ stamp \in Nat /\ crashes \in Nat

HistoryOK == beside \in BOOLEAN /\ strays \in SUBSET Nat

LEMMA TypeParts == TypeOK <=> StoreOK /\ OpOK /\ VendorOK /\ HistoryOK
BY DEF TypeOK, StoreOK, OpOK, VendorOK, HistoryOK

(* Replacing one document changes that document only.                      *)
LEMMA PutImage ==
  ASSUME disk \in Disk, NEW f \in File, NEW document \in Document
  PROVE  /\ Put(f, document) \in Disk
         /\ Put(f, document).journal = disk.journal
         /\ Put(f, document).live[f] = document
         /\ \A g \in File : g # f => Put(f, document).live[g] = disk.live[g]
BY DEF Put, Disk

LEMMA NotedImage ==
  ASSUME disk \in Disk, NEW n \in Nat
  PROVE  /\ Noted(n) \in Disk
         /\ Noted(n).journal = n
         /\ Noted(n).live = disk.live
BY DEF Noted, Disk

(* Writing an image whose journal names a backup keeps the store typed.    *)
LEMMA WriteType ==
  ASSUME StoreOK, NEW image \in Disk, image.journal \in 0..Len(backups),
         \/ Synced(image) \/ Unsynced(image) \/ Botched(image)
         \/ disk' = disk /\ survivors' = survivors \cup {image},
         UNCHANGED backups
  PROVE  StoreOK'
BY DEF StoreOK, Synced, Unsynced, Botched

(* The documents a switch and a restore write.                             *)
LEMMA Written ==
  ASSUME StoreOK, OpOK
  PROVE  /\ NextCredentials \in Disk /\ NextCredentials.journal = disk.journal
         /\ NextIdentity \in Disk /\ NextIdentity.journal = disk.journal
         /\ op.backup # 0 => \A f \in File :
              Former(f) \in Disk /\ Former(f).journal = disk.journal
<1>1. Stored(op.target) \in Document /\ [of |-> op.target, stamp |-> op.stamp] \in Document
  BY DEF OpOK, Stored, Document
<1>2. ASSUME op.backup # 0, NEW f \in File PROVE backups[op.backup][f] \in Document
  BY <1>2 DEF StoreOK, OpOK
<1>3. "credentials" \in File /\ "identity" \in File /\ disk \in Disk
  BY DEF File, StoreOK
<1> QED
  BY <1>1, <1>2, <1>3, PutImage DEF NextCredentials, NextIdentity, Former

(* A step that leaves the disk alone and ends, aborts or goes on.          *)
LEMMA AnswerType ==
  ASSUME TypeOK, NEW result \in {"ok", "error"}, Answers(result), UNCHANGED backups
  PROVE  OpOK' /\ op'.pc = "idle"
BY DEF TypeOK, Answers, OpOK, Idle, Pc

LEMMA GoType ==
  ASSUME TypeOK, NEW pc \in Pc, GoesTo(pc), UNCHANGED backups
  PROVE  OpOK' /\ op'.pc = pc /\ op'.backup = op.backup
BY DEF TypeOK, GoesTo, OpOK

LEMMA RestoringType ==
  ASSUME TypeOK, NEW why \in {"recover", "abort"}, NEW n \in 0..Len(backups), n # 0,
         Restoring(why, n), UNCHANGED backups
  PROVE  OpOK' /\ op'.backup # 0
BY DEF TypeOK, Restoring, OpOK, Pc

(* A command that has just begun, or has just recovered.                   *)
Fresh(pc, account) == [pc |-> pc, target |-> account, backup |-> 0, stamp |-> 0,
                       todo |-> {}, why |-> "recover"]

LEMMA FreshType ==
  ASSUME TypeOK, NEW pc \in Pc, NEW account \in Account \cup {Nobody},
         op' = Fresh(pc, account), answer' \in {"none", "ok", "error"},
         UNCHANGED backups
  PROVE  OpOK' /\ op'.pc = pc
<1>1. 0 \in 0..Len(backups')
  BY DEF TypeOK
<1> QED
  BY <1>1 DEF OpOK, Fresh

LEMMA RecoveredType ==
  ASSUME TypeOK, Recovered, UNCHANGED backups
  PROVE  OpOK' /\ op'.pc \in {"idle", "check"}
<1>1. CASE op.target = Nobody
  BY <1>1, AnswerType DEF Recovered
<1>2. CASE op.target # Nobody
  <2>1. op' = Fresh("check", op.target) /\ answer' = answer
    BY <1>2 DEF Recovered, Fresh, Idle
  <2> QED
    BY <2>1, FreshType DEF TypeOK, Pc
<1> QED
  BY <1>1, <1>2

(* The commands that write nothing.                                        *)
LEMMA QuietType ==
  ASSUME TypeInv,
         \/ \E a \in Account : StartSwitch(a)
         \/ StartList \/ NoJournal \/ FindJournal \/ Fails \/ CheckTool \/ Load
         \/ Verify \/ CommitFails
  PROVE  OpOK' /\ UNCHANGED <<store, vendor, crashes>>
         /\ (op'.pc \in Backed => op'.backup # 0)
<1> USE DEF TypeInv, Backed
<1>1. ASSUME NEW a \in Account, StartSwitch(a)
      PROVE  OpOK' /\ UNCHANGED <<store, vendor, crashes>> /\ op'.pc = "journal"
  <2>1. op' = Fresh("journal", a)
    BY <1>1 DEF StartSwitch, Fresh, Idle
  <2> QED
    BY <1>1, <2>1, FreshType DEF StartSwitch, Pc, store
<1>2. CASE StartList
  <2>1. /\ op' = Fresh("journal", Nobody)
        /\ UNCHANGED <<answer, store, vendor, crashes>> /\ UNCHANGED backups
    BY <1>2 DEF StartList, Fresh, Idle, store
  <2>2. answer' \in {"none", "ok", "error"} /\ "journal" \in Pc
    BY <2>1 DEF TypeOK, Pc
  <2> QED
    BY <2>1, <2>2, FreshType
<1>3. CASE NoJournal
  BY <1>3, RecoveredType DEF NoJournal, store
<1>4. CASE FindJournal
  <2>1. disk.journal \in 0..Len(backups) /\ disk.journal # 0
    BY <1>4 DEF FindJournal, TypeOK
  <2> QED
    BY <1>4, <2>1, RestoringType DEF FindJournal, store
<1>5. CASE Fails
  BY <1>5, AnswerType DEF Fails, store
<1>6. CASE CheckTool
  <2>1. UNCHANGED <<store, vendor, crashes>> /\ UNCHANGED backups
    BY <1>6 DEF CheckTool, store
  <2>2. CASE Answers("error")
    BY <2>1, <2>2, AnswerType
  <2>3. CASE GoesTo("load")
    BY <2>1, <2>3, GoType DEF Pc
  <2> QED
    BY <1>6, <2>2, <2>3 DEF CheckTool
<1>7. CASE Load
  <2>1. UNCHANGED <<store, vendor, crashes>> /\ UNCHANGED backups
    BY <1>7 DEF Load, store
  <2>2. CASE Answers("error")
    BY <2>1, <2>2, AnswerType
  <2>3. CASE ~Answers("error")
    <3>1. disk.live["identity"].stamp \in Nat
      BY DEF TypeOK, Disk, Document, File
    <3>2. op' = [op EXCEPT !.pc = "capture", !.stamp = disk.live["identity"].stamp]
          /\ UNCHANGED answer
      BY <1>7, <2>3 DEF Load
    <3> QED
      BY <2>1, <3>1, <3>2 DEF TypeOK, OpOK, Pc
  <2> QED
    BY <2>2, <2>3
<1>8. CASE Verify \/ CommitFails
  <2>1. /\ UNCHANGED <<store, vendor, crashes>> /\ UNCHANGED backups
        /\ op.backup \in 0..Len(backups) /\ op.backup # 0
    BY <1>8 DEF Verify, CommitFails, store, TypeOK
  <2>2. CASE Abort
    BY <2>1, <2>2, RestoringType DEF Abort
  <2>3. CASE GoesTo("commit")
    BY <2>1, <2>3, GoType DEF Pc
  <2> QED
    BY <1>8, <2>2, <2>3 DEF Verify, CommitFails
<1> QED
  BY <1>1, <1>2, <1>3, <1>4, <1>5, <1>6, <1>7, <1>8

(* The writes of a switch.                                                 *)
LEMMA SwitchType ==
  ASSUME TypeInv,
         WriteJournal \/ JournalFails \/ WriteCredentials \/ WriteIdentity
           \/ WriteFails \/ Commit
  PROVE  /\ StoreOK' /\ OpOK' /\ UNCHANGED <<backups, vendor, crashes>>
         /\ op'.pc \in Backed => op'.backup # 0
<1> USE DEF TypeInv, Backed
<1>1. StoreOK /\ OpOK /\ disk \in Disk /\ disk.journal \in 0..Len(backups)
  BY TypeParts DEF StoreOK
<1>2. op.backup \in 0..Len(backups) /\ op.backup \in Nat /\ 0 \in 0..Len(backups) /\ 0 \in Nat
  BY <1>1 DEF StoreOK, OpOK
<1>3. /\ Noted(op.backup) \in Disk /\ Noted(op.backup).journal \in 0..Len(backups)
      /\ Noted(0) \in Disk /\ Noted(0).journal \in 0..Len(backups)
  BY <1>1, <1>2, NotedImage
<1>4. /\ NextCredentials \in Disk /\ NextCredentials.journal \in 0..Len(backups)
      /\ NextIdentity \in Disk /\ NextIdentity.journal \in 0..Len(backups)
  BY <1>1, Written
<1>5. CASE WriteJournal
  <2>1. StoreOK'
    BY <1>1, <1>3, <1>5, WriteType DEF WriteJournal
  <2> QED
    BY <1>5, <2>1, GoType DEF WriteJournal, Pc
<1>6. CASE JournalFails
  <2>1. StoreOK'
    BY <1>1, <1>3, <1>6, WriteType DEF JournalFails
  <2> QED
    BY <1>6, <2>1, AnswerType DEF JournalFails
<1>7. CASE WriteCredentials
  <2>1. StoreOK'
    BY <1>1, <1>4, <1>7, WriteType DEF WriteCredentials
  <2> QED
    BY <1>7, <2>1, GoType DEF WriteCredentials, Pc
<1>8. CASE WriteIdentity
  <2>1. StoreOK'
    BY <1>1, <1>4, <1>8, WriteType DEF WriteIdentity
  <2> QED
    BY <1>8, <2>1, GoType DEF WriteIdentity, Pc
<1>9. CASE WriteFails
  <2>1. StoreOK'
    BY <1>1, <1>4, <1>9, WriteType DEF WriteFails
  <2>2. op.backup # 0
    BY <1>9 DEF WriteFails
  <2> QED
    BY <1>2, <1>9, <2>1, <2>2, RestoringType DEF WriteFails, Abort
<1>10. CASE Commit
  <2>1. StoreOK'
    BY <1>1, <1>3, <1>10, WriteType DEF Commit
  <2> QED
    BY <1>10, <2>1, AnswerType DEF Commit
<1> QED
  BY <1>5, <1>6, <1>7, <1>8, <1>9, <1>10

LEMMA RestoreType ==
  ASSUME TypeInv,
         (\E f \in File : RestoreFile(f)) \/ RestoreFails \/ ClearJournal
  PROVE  /\ StoreOK' /\ OpOK' /\ UNCHANGED <<backups, vendor, crashes>>
         /\ op'.pc \in Backed => op'.backup # 0
<1> USE DEF TypeInv, Backed
<1>1. /\ StoreOK /\ OpOK /\ disk \in Disk /\ disk.journal \in 0..Len(backups)
      /\ op.pc = "restore" /\ op.backup # 0
  BY TypeParts DEF StoreOK, RestoreFile, IsNext, RestoreFails, ClearJournal
<1>2. Noted(0) \in Disk /\ Noted(0).journal \in 0..Len(backups)
  BY <1>1, NotedImage DEF StoreOK
<1>3. ASSUME NEW f \in File
      PROVE  Former(f) \in Disk /\ Former(f).journal \in 0..Len(backups)
  BY <1>1, Written
<1>4. ASSUME NEW f \in File, RestoreFile(f)
      PROVE  /\ StoreOK' /\ OpOK' /\ UNCHANGED <<backups, vendor, crashes>>
             /\ op'.backup # 0
  <2>1. StoreOK'
    BY <1>1, <1>3, <1>4, WriteType DEF RestoreFile
  <2>2. OpOK' /\ op'.backup = op.backup
    BY <1>1, <1>4 DEF RestoreFile, OpOK
  <2> QED
    BY <1>1, <1>4, <2>1, <2>2 DEF RestoreFile
<1>5. CASE RestoreFails
  <2>1. StoreOK'
    <3>1. CASE UNCHANGED <<disk, survivors>>
      BY <1>1, <1>5, <3>1 DEF StoreOK, RestoreFails
    <3>2. ASSUME NEW f \in File, Unsynced(Former(f)) PROVE StoreOK'
      BY <1>1, <1>3, <1>5, <3>2, WriteType DEF RestoreFails
    <3> QED
      BY <1>5, <3>1, <3>2 DEF RestoreFails
  <2> QED
    BY <1>5, <2>1, AnswerType DEF RestoreFails
<1>6. CASE ClearJournal
  <2>1. StoreOK' /\ UNCHANGED <<backups, vendor, crashes>>
    BY <1>1, <1>2, <1>6, WriteType DEF ClearJournal
  <2>2. CASE Answers("error")
    BY <2>1, <2>2, AnswerType
  <2>3. CASE Recovered
    BY <2>1, <2>3, RecoveredType
  <2> QED
    BY <1>6, <2>1, <2>2, <2>3 DEF ClearJournal
<1> QED
  BY <1>4, <1>5, <1>6

(* A snapshot adds a backup and loses none.                                *)
LEMMA Appended ==
  ASSUME StoreOK, Snapshot
  PROVE  /\ disk.live \in [File -> Document]
         /\ Len(backups) \in Nat
         /\ Len(backups') = Len(backups) + 1
         /\ backups' \in Seq([File -> Document])
         /\ \A i \in 1..Len(backups) : backups'[i] = backups[i]
         /\ backups'[Len(backups) + 1] = disk.live
<1>1. disk.live \in [File -> Document]
  BY DEF StoreOK, Disk
<1>2. backups' = Append(backups, disk.live)
  BY DEF Snapshot
<1> QED
  BY <1>1, <1>2 DEF StoreOK

LEMMA SnapshotType ==
  ASSUME TypeInv, Snapshot
  PROVE  StoreOK' /\ OpOK' /\ UNCHANGED <<vendor, crashes>> /\ op'.backup # 0
<1>1. StoreOK /\ OpOK
  BY TypeParts DEF TypeInv
<1>2. StoreOK'
  BY <1>1, Appended DEF StoreOK, Snapshot
<1>3. PICK n \in Nat : n = Len(backups) + 1
  BY <1>1, Appended
<1>4. op' = [op EXCEPT !.pc = "note", !.backup = n] /\ answer' = answer
  BY <1>3 DEF Snapshot
<1>5. n \in 0..Len(backups') /\ n # 0
  BY <1>1, <1>3, Appended
<1> QED
  BY <1>1, <1>2, <1>4, <1>5 DEF OpOK, Pc, Snapshot

(* A tool that has just ended holds nothing.                               *)
LEMMA EndedType ==
  ASSUME tool' = FALSE, cache' = NoCache, stamp' \in Nat, crashes' \in Nat
  PROVE  VendorOK'
<1>1. cache' \in {NoCache} \cup [file : File, of : Account \cup {Nobody}]
  OBVIOUS
<1>2. tool' \in BOOLEAN
  OBVIOUS
<1> QED
  BY <1>1, <1>2 DEF VendorOK

(* The vendor's steps write well-typed documents.                          *)
LEMMA VendorType ==
  ASSUME TypeOK,
         ToolStarts \/ (\E f \in File : ToolReads(f)) \/ ToolWrites \/ ToolExits
  PROVE  StoreOK' /\ OpOK' /\ VendorOK' /\ UNCHANGED <<backups, op, answer, crashes>>
<1>1. StoreOK /\ OpOK /\ VendorOK
  BY TypeParts
<1>2. UNCHANGED <<backups, op, answer, crashes>>
  BY DEF ToolStarts, ToolReads, ToolWrites, ToolExits, store
<1>3. OpOK'
  BY <1>1, <1>2 DEF OpOK
<1>4. CASE ToolStarts
  BY <1>1, <1>2, <1>3, <1>4 DEF ToolStarts, store, StoreOK, VendorOK
<1>5. ASSUME NEW f \in File, ToolReads(f) PROVE StoreOK' /\ VendorOK'
  <2>1. disk.live[f].of \in Account \cup {Nobody}
    BY <1>1 DEF StoreOK, Disk, Document
  <2> QED
    BY <1>1, <1>2, <1>5, <2>1 DEF ToolReads, store, StoreOK, VendorOK
<1>6. CASE ToolWrites
  <2>1. PICK image : /\ image = Put(cache.file, [of |-> cache.of, stamp |-> stamp + 1])
                     /\ Synced(image) \/ Unsynced(image)
    BY <1>6 DEF ToolWrites
  <2>2. cache.file \in File /\ [of |-> cache.of, stamp |-> stamp + 1] \in Document
    BY <1>1, <1>6 DEF ToolWrites, VendorOK, Document
  <2>3. image \in Disk /\ image.journal \in 0..Len(backups)
    BY <1>1, <2>1, <2>2, PutImage DEF StoreOK
  <2> QED
    <3>1. StoreOK'
      BY <1>1, <1>2, <2>1, <2>3, WriteType
    <3>2. tool' \in BOOLEAN /\ stamp' \in Nat /\ crashes' \in Nat
      BY <1>1, <1>6 DEF ToolWrites, VendorOK
    <3>3. cache' \in {NoCache} \cup [file : File, of : Account \cup {Nobody}]
      BY <1>6 DEF ToolWrites
    <3> QED
      BY <1>2, <1>3, <3>1, <3>2, <3>3 DEF VendorOK
<1>7. CASE ToolExits
  <2>1. VendorOK'
    BY <1>1, <1>7, EndedType DEF ToolExits, VendorOK
  <2> QED
    BY <1>1, <1>2, <1>3, <1>7, <2>1 DEF ToolExits, store, StoreOK
<1> QED
  BY <1>2, <1>3, <1>4, <1>5, <1>6, <1>7

LEMMA CrashType ==
  ASSUME TypeOK, Crash \/ PowerFails
  PROVE  StoreOK' /\ OpOK' /\ VendorOK' /\ op'.pc = "idle" /\ UNCHANGED backups
<1>1. StoreOK /\ OpOK /\ VendorOK
  BY TypeParts
<1>2. UNCHANGED backups
  BY DEF Crash, PowerFails, store
<1>3. OpOK' /\ op'.pc = "idle"
  <2>1. op' = Fresh("idle", Nobody) /\ answer' = "none"
    BY DEF Crash, PowerFails, Dies, Idle, Fresh
  <2> QED
    BY <1>2, <2>1, FreshType DEF Pc
<1>4. StoreOK'
  BY <1>1, <1>2 DEF Crash, PowerFails, store, StoreOK
<1>5. crashes' \in Nat
  BY <1>1 DEF Crash, PowerFails, Dies, VendorOK
<1>6. VendorOK'
  <2>1. CASE Crash
    BY <1>1, <1>5, <2>1 DEF Crash, vendor, VendorOK
  <2>2. CASE PowerFails
    BY <1>1, <1>5, <2>2, EndedType DEF PowerFails, VendorOK
  <2> QED
    BY <2>1, <2>2
<1> QED
  BY <1>2, <1>3, <1>4, <1>6

LEMMA InitType == Init => TypeInv
<1> SUFFICES ASSUME Init PROVE TypeInv
  OBVIOUS
<1>1. disk \in Disk /\ disk.journal = 0
  <2>1. PICK a \in Account, credentials, settings, identity \in BOOLEAN :
          disk = [live |->
            [f \in File |->
               CASE f = "credentials" -> IF credentials THEN [of |-> a, stamp |-> 2] ELSE Missing
                 [] f = "settings" -> IF settings THEN [of |-> Nobody, stamp |-> 2] ELSE Missing
                 [] OTHER -> IF identity THEN [of |-> a, stamp |-> 2] ELSE Missing],
            journal |-> 0]
    BY DEF Init
  <2>2. PICK owned, settled, missing \in Document :
          /\ owned = [of |-> a, stamp |-> 2] /\ settled = [of |-> Nobody, stamp |-> 2]
          /\ missing = Missing
    BY DEF Missing, Document
  <2>3. PICK live : live =
            [f \in File |->
               CASE f = "credentials" -> IF credentials THEN owned ELSE missing
                 [] f = "settings" -> IF settings THEN settled ELSE missing
                 [] OTHER -> IF identity THEN owned ELSE missing]
    OBVIOUS
  <2>4. live \in [File -> Document]
    BY <2>2, <2>3 DEF File
  <2>5. disk = [live |-> live, journal |-> 0]
    BY <2>1, <2>2, <2>3
  <2> QED
    BY <2>4, <2>5 DEF Disk
<1>2. backups = <<>> /\ survivors = {disk} /\ op = Fresh("idle", Nobody)
  BY DEF Init, Idle, Fresh
<1>3. backups \in Seq([File -> Document]) /\ Len(backups) = 0
  BY <1>2
<1>4. StoreOK
  BY <1>1, <1>2, <1>3 DEF StoreOK
<1>5. OpOK
  BY <1>2, <1>3 DEF Init, OpOK, Fresh, Pc
<1>6. VendorOK
  BY DEF Init, VendorOK
<1>7. HistoryOK
  BY DEF Init, HistoryOK
<1> QED
  BY <1>2, <1>4, <1>5, <1>6, <1>7, TypeParts DEF TypeInv, Backed, Fresh

(* The history only grows, and only the tool writes it.                    *)
LEMMA HistoryStep ==
  ASSUME TypeOK, [Next]_vars
  PROVE  /\ HistoryOK' /\ (beside => beside') /\ strays \subseteq strays'
         /\ ~ToolStarts => beside' = beside
         /\ ~ToolWrites => strays' = strays
<1>1. HistoryOK /\ stamp + 1 \in Nat
  BY TypeParts DEF VendorOK
<1>2. CASE ToolStarts
  BY <1>1, <1>2 DEF ToolStarts, HistoryOK
<1>3. CASE ToolWrites
  BY <1>1, <1>3 DEF ToolWrites, HistoryOK
<1>4. CASE (\E f \in File : ToolReads(f)) \/ ToolExits \/ PowerFails
  BY <1>1, <1>4 DEF ToolReads, ToolExits, PowerFails, HistoryOK
<1>5. ASSUME UNCHANGED <<beside, strays>>
      PROVE  /\ HistoryOK' /\ (beside => beside') /\ strays \subseteq strays'
             /\ beside' = beside /\ strays' = strays
  BY <1>1, <1>5 DEF HistoryOK
<1>6. CASE \/ \E a \in Account : StartSwitch(a)
           \/ StartList \/ NoJournal \/ FindJournal \/ Fails \/ CheckTool \/ Load
           \/ Snapshot \/ WriteJournal \/ JournalFails \/ WriteCredentials
           \/ WriteIdentity \/ WriteFails
  <2>1. UNCHANGED vendor
    BY <1>6 DEF StartSwitch, StartList, NoJournal, FindJournal, Fails, CheckTool, Load,
       Snapshot, WriteJournal, JournalFails, WriteCredentials, WriteIdentity, WriteFails
  <2> QED
    BY <1>5, <2>1 DEF vendor
<1>7. CASE \/ Verify \/ Commit \/ CommitFails \/ (\E f \in File : RestoreFile(f))
           \/ RestoreFails \/ ClearJournal \/ Crash
  <2>1. UNCHANGED vendor
    BY <1>7 DEF Verify, Commit, CommitFails, RestoreFile, RestoreFails, ClearJournal, Crash
  <2> QED
    BY <1>5, <2>1 DEF vendor
<1>8. CASE UNCHANGED vars
  BY <1>5, <1>8 DEF vars
<1> QED
  BY <1>2, <1>3, <1>4, <1>5, <1>6, <1>7, <1>8 DEF Next, Step

LEMMA TypeStep == TypeInv /\ [Next]_vars => TypeInv'
<1> SUFFICES ASSUME TypeInv, [Next]_vars PROVE TypeInv'
  OBVIOUS
<1>1. TypeOK /\ StoreOK /\ OpOK /\ VendorOK
  BY TypeParts DEF TypeInv
<1>2. (StoreOK' /\ OpOK' /\ VendorOK') => TypeOK'
  <2>1. HistoryOK'
    BY <1>1, HistoryStep
  <2> QED
    BY <2>1 DEF TypeOK, StoreOK, OpOK, VendorOK, HistoryOK
<1>3. UNCHANGED <<vendor, crashes>> => VendorOK'
  BY <1>1 DEF vendor, VendorOK
<1>4. UNCHANGED store => StoreOK'
  BY <1>1 DEF store, StoreOK
<1>5. CASE \/ \E a \in Account : StartSwitch(a)
           \/ StartList \/ NoJournal \/ FindJournal \/ Fails \/ CheckTool \/ Load
           \/ Verify \/ CommitFails
  BY <1>2, <1>3, <1>4, <1>5, QuietType DEF TypeInv
<1>6. CASE Snapshot
  BY <1>2, <1>3, <1>6, SnapshotType DEF TypeInv
<1>7. CASE WriteJournal \/ JournalFails \/ WriteCredentials \/ WriteIdentity
             \/ WriteFails \/ Commit
  BY <1>2, <1>3, <1>7, SwitchType DEF TypeInv
<1>8. CASE (\E f \in File : RestoreFile(f)) \/ RestoreFails \/ ClearJournal
  BY <1>2, <1>3, <1>8, RestoreType DEF TypeInv
<1>9. CASE ToolStarts \/ (\E f \in File : ToolReads(f)) \/ ToolWrites \/ ToolExits
  BY <1>1, <1>2, <1>9, VendorType DEF TypeInv
<1>10. CASE Crash \/ PowerFails
  BY <1>1, <1>2, <1>10, CrashType DEF TypeInv, Backed
<1>11. CASE UNCHANGED vars
  BY <1>1, <1>11 DEF vars, TypeInv, TypeOK
<1> QED
  BY <1>5, <1>6, <1>7, <1>8, <1>9, <1>10, <1>11 DEF Next, Step

(* A command and a journal name only backups that exist, whatever fails    *)
(* and whatever a power loss leaves behind.                                *)
THEOREM TypeCorrect == Spec => []TypeOK
<1>1. TypeInv => TypeOK
  BY DEF TypeInv
<1> QED
  BY <1>1, InitType, TypeStep, PTL DEF Spec

-----------------------------------------------------------------------------
(***************************************************************************)
(* The invariant: the pairs are whole unless the tool has run beside a     *)
(* journal, and no backup lacks more than what it wrote there.             *)
(***************************************************************************)
(* A sound image stays sound, and whatever is written sound is.            *)
LEMMA SoundWrite ==
  ASSUME AllSound, NEW image, Sound(image, backups, beside, strays),
         \/ Synced(image) \/ Unsynced(image) \/ Botched(image)
         \/ disk' = disk /\ survivors' = survivors \cup {image},
         UNCHANGED <<backups, beside, strays>>
  PROVE  AllSound'
BY DEF AllSound, Synced, Unsynced, Botched

LEMMA Accounted ==
  ASSUME TypeInv, AllSound, Phase,
         op.pc \in {"credentials", "identity", "verify", "commit", "restore"}
  PROVE  /\ disk \in Disk /\ disk.journal = op.backup /\ op.backup # 0
         /\ beside \/ Whole(backups[op.backup])
         /\ \A f \in File :
              disk.live[f].stamp \in {0, 1, backups[op.backup][f].stamp} \cup strays
<1>1. disk \in survivors /\ disk \in Disk
  BY DEF TypeInv, TypeOK
<1>2. disk.journal = op.backup /\ op.backup # 0
  BY DEF Phase, TypeInv, Backed
<1> QED
  BY <1>1, <1>2 DEF AllSound, Sound

(* One document more that is the manager's, or the backup's.               *)
LEMMA SoundPut ==
  ASSUME TypeInv, AllSound, Phase,
         op.pc \in {"credentials", "identity", "verify", "commit", "restore"},
         NEW f \in File, NEW document \in Document,
         document.stamp \in {0, 1, backups[op.backup][f].stamp}
  PROVE  Sound(Put(f, document), backups, beside, strays)
<1>1. /\ disk \in Disk /\ disk.journal = op.backup /\ op.backup # 0
      /\ beside \/ Whole(backups[op.backup])
      /\ \A g \in File :
           disk.live[g].stamp \in {0, 1, backups[op.backup][g].stamp} \cup strays
  BY Accounted
<1>2. /\ Put(f, document).journal = disk.journal
      /\ Put(f, document).live[f] = document
      /\ \A g \in File : g # f => Put(f, document).live[g] = disk.live[g]
  BY <1>1, PutImage
<1> QED
  BY <1>1, <1>2 DEF Sound

LEMMA SoundWritten ==
  ASSUME TypeInv, AllSound, Phase
  PROVE  /\ op.pc = "credentials" => Sound(NextCredentials, backups, beside, strays)
         /\ op.pc = "identity" => Sound(NextIdentity, backups, beside, strays)
         /\ op.pc = "restore" => \A f \in File : Sound(Former(f), backups, beside, strays)
<1>1. StoreOK /\ OpOK /\ "credentials" \in File /\ "identity" \in File
  BY TypeParts DEF TypeInv, File
<1>2. CASE op.pc = "credentials"
  <2>1. Stored(op.target) \in Document /\ Stored(op.target).stamp = 1
    BY <1>1 DEF OpOK, Stored, Document
  <2> QED
    BY <1>1, <1>2, <2>1, SoundPut DEF NextCredentials
<1>3. CASE op.pc = "identity"
  <2>1. PICK document \in Document : document = [of |-> op.target, stamp |-> op.stamp]
    BY <1>1 DEF OpOK, Document
  <2>2. document.stamp = backups[op.backup]["identity"].stamp
    BY <1>3, <2>1 DEF Phase
  <2> QED
    BY <1>1, <1>3, <2>1, <2>2, SoundPut DEF NextIdentity
<1>4. CASE op.pc = "restore"
  <2>1. ASSUME NEW f \in File PROVE backups[op.backup][f] \in Document
    BY <1>1, <1>4 DEF StoreOK, OpOK, TypeInv, Backed
  <2> QED
    BY <1>4, <2>1, SoundPut DEF Former
<1> QED
  BY <1>2, <1>3, <1>4

(* The journal is written over the pair it backs up, and removed from a    *)
(* pair that is whole.                                                     *)
LEMMA SoundNoted ==
  ASSUME TypeInv, AllSound, Phase
  PROVE  /\ op.pc = "note" => Sound(Noted(op.backup), backups, beside, strays)
         /\ op.pc = "commit" => Sound(Noted(0), backups, beside, strays)
         /\ op.pc = "restore" /\ op.todo = {} => Sound(Noted(0), backups, beside, strays)
<1>1. /\ disk \in Disk /\ disk \in survivors /\ op.backup \in Nat
      /\ "credentials" \in File /\ "identity" \in File
  BY DEF TypeInv, TypeOK, File
<1>2. /\ Noted(op.backup).journal = op.backup /\ Noted(op.backup).live = disk.live
      /\ Noted(0).journal = 0 /\ Noted(0).live = disk.live
  BY <1>1, NotedImage
<1>3. CASE op.pc = "note"
  <2>1. op.backup # 0 /\ disk.journal = 0 /\ disk.live = backups[op.backup]
    BY <1>3 DEF TypeInv, Backed, Phase
  <2>2. beside \/ Whole(disk.live)
    BY <1>1, <2>1 DEF AllSound, Sound
  <2> QED
    BY <1>2, <1>3, <2>1, <2>2 DEF Sound
<1>4. CASE op.pc = "commit"
  <2>1. Whole(disk.live)
    BY <1>4 DEF Phase, OwnersOf, Whole
  <2> QED
    BY <1>2, <1>4, <2>1 DEF Sound
<1>5. CASE op.pc = "restore" /\ op.todo = {}
  <2>1. beside \/ Whole(backups[op.backup])
    BY <1>5, Accounted
  <2>2. beside \/ /\ disk.live["credentials"] = backups[op.backup]["credentials"]
                  /\ disk.live["identity"] = backups[op.backup]["identity"]
    BY <1>1, <1>5 DEF Phase
  <2>3. beside \/ Whole(disk.live)
    BY <2>1, <2>2 DEF Whole
  <2> QED
    BY <1>2, <1>5, <2>3 DEF Sound
<1> QED
  BY <1>3, <1>4, <1>5

(* The vendor writes back a document of the same owner, or beside a        *)
(* journal.                                                                *)
LEMMA SoundVendor ==
  ASSUME TypeInv, AllSound, ToolQuiet, ToolWrites
  PROVE  Sound(Put(cache.file, [of |-> cache.of, stamp |-> stamp + 1]),
               backups, beside, strays')
<1>1. /\ disk \in Disk /\ disk \in survivors /\ stamp \in Nat /\ cache # NoCache
      /\ cache.file \in File /\ cache.of \in Account \cup {Nobody}
  BY DEF TypeInv, TypeOK, ToolWrites
<1>2. PICK document \in Document : document = [of |-> cache.of, stamp |-> stamp + 1]
  <2>1. stamp + 1 \in Nat
    BY <1>1
  <2>2. [of |-> cache.of, stamp |-> stamp + 1] \in Document
    BY <1>1, <2>1 DEF Document
  <2> QED
    BY <2>2
<1>3. PICK image : image = Put(cache.file, document)
  OBVIOUS
<1>4. /\ image.journal = disk.journal /\ image.live[cache.file] = document
      /\ \A g \in File : g # cache.file => image.live[g] = disk.live[g]
  BY <1>1, <1>3, PutImage
<1>5. CASE disk.journal = 0
  <2>1. ASSUME ~beside PROVE Whole(image.live)
    <3>1. Exists(disk.live[cache.file]) /\ disk.live[cache.file].of = document.of
      BY <1>1, <1>2, <2>1 DEF ToolQuiet
    <3>2. Exists(document)
      BY <1>1, <1>2 DEF Exists
    <3>3. Whole(disk.live)
      BY <1>1, <1>5, <2>1 DEF AllSound, Sound
    <3>4. ASSUME NEW g \in File
          PROVE  /\ Exists(image.live[g]) <=> Exists(disk.live[g])
                 /\ image.live[g].of = disk.live[g].of
      <4>1. CASE g = cache.file
        BY <1>4, <3>1, <3>2, <4>1
      <4>2. CASE g # cache.file
        BY <1>4, <4>2
      <4> QED
        BY <4>1, <4>2
    <3> QED
      BY <3>3, <3>4 DEF Whole, File
  <2> QED
    BY <1>2, <1>3, <1>4, <1>5, <2>1 DEF Sound
<1>6. CASE disk.journal # 0
  <2>1. beside
    BY <1>1, <1>6 DEF ToolQuiet
  <2>2. strays' = strays \cup {document.stamp}
    BY <1>2, <1>6 DEF ToolWrites
  <2>3. \A g \in File :
          disk.live[g].stamp \in {0, 1, backups[disk.journal][g].stamp} \cup strays
    BY <1>1, <1>6 DEF AllSound, Sound
  <2>4. \A g \in File :
          image.live[g].stamp \in {0, 1, backups[disk.journal][g].stamp} \cup strays'
    BY <1>4, <2>2, <2>3
  <2> QED
    BY <1>2, <1>3, <1>4, <1>6, <2>1, <2>4 DEF Sound
<1> QED
  BY <1>5, <1>6

LEMMA SoundStep ==
  ASSUME IInv, [Next]_vars
  PROVE  AllSound'
<1> USE DEF IInv
<1>1. StoreOK /\ AllSound /\ TypeInv /\ Phase /\ ToolQuiet
  BY TypeParts DEF TypeInv
<1>0. (beside => beside') /\ strays \subseteq strays'
  BY <1>1, HistoryStep DEF TypeInv
<1>2. ASSUME UNCHANGED backups, survivors' \subseteq survivors PROVE AllSound'
  <2>1. ASSUME NEW image \in survivors
        PROVE  Sound(image, backups, beside', strays')
    <3>1. Sound(image, backups, beside, strays)
      BY <1>1 DEF AllSound
    <3> QED
      BY <1>0, <3>1 DEF Sound
  <2> QED
    BY <1>2, <2>1 DEF AllSound
<1>3. CASE \/ \E a \in Account : StartSwitch(a)
           \/ StartList \/ NoJournal \/ FindJournal \/ Fails \/ CheckTool \/ Load
           \/ Verify \/ CommitFails
  <2>1. UNCHANGED <<survivors, backups>>
    BY <1>1, <1>3, QuietType DEF store
  <2> QED
    BY <1>2, <2>1
<1>4. CASE Snapshot
  <2>1. survivors' = survivors
    BY <1>4 DEF Snapshot
  <2>2. ASSUME NEW image \in survivors PROVE Sound(image, backups', beside, strays)
    <3>1. /\ image.journal \in 0..Len(backups) /\ Len(backups) \in Nat
          /\ Sound(image, backups, beside, strays)
      BY <1>1, <1>4, Appended DEF StoreOK, AllSound
    <3>2. image.journal # 0 => backups'[image.journal] = backups[image.journal]
      BY <1>1, <1>4, <3>1, Appended
    <3> QED
      BY <3>1, <3>2 DEF Sound
  <2>3. UNCHANGED <<beside, strays>>
    BY <1>4 DEF Snapshot, vendor
  <2> QED
    BY <2>1, <2>2, <2>3 DEF AllSound
<1>5. CASE WriteJournal \/ JournalFails
  <2>1. Sound(Noted(op.backup), backups, beside, strays)
    BY <1>1, <1>5, SoundNoted DEF WriteJournal, JournalFails
  <2> QED
    BY <1>1, <1>5, <2>1, SoundWrite DEF WriteJournal, JournalFails, vendor
<1>6. CASE WriteCredentials \/ WriteIdentity \/ WriteFails
  <2>1. op.pc = "credentials" => Sound(NextCredentials, backups, beside, strays)
    BY <1>1, SoundWritten
  <2>2. op.pc = "identity" => Sound(NextIdentity, backups, beside, strays)
    BY <1>1, SoundWritten
  <2>3. UNCHANGED <<backups, beside, strays>>
    BY <1>6 DEF WriteCredentials, WriteIdentity, WriteFails, vendor
  <2>4. CASE op.pc = "credentials"
    BY <1>1, <1>6, <2>1, <2>3, <2>4, SoundWrite
       DEF WriteCredentials, WriteIdentity, WriteFails
  <2>5. CASE op.pc = "identity"
    BY <1>1, <1>6, <2>2, <2>3, <2>5, SoundWrite
       DEF WriteCredentials, WriteIdentity, WriteFails
  <2> QED
    BY <1>6, <2>4, <2>5 DEF WriteCredentials, WriteIdentity, WriteFails
<1>7. CASE Commit \/ ClearJournal
  <2>1. Sound(Noted(0), backups, beside, strays)
    BY <1>1, <1>7, SoundNoted DEF Commit, ClearJournal
  <2> QED
    BY <1>1, <1>7, <2>1, SoundWrite DEF Commit, ClearJournal, vendor
<1>8. ASSUME NEW f \in File, RestoreFile(f) PROVE AllSound'
  <2>1. Sound(Former(f), backups, beside, strays)
    BY <1>1, <1>8, SoundWritten DEF RestoreFile, IsNext
  <2> QED
    BY <1>1, <1>8, <2>1, SoundWrite DEF RestoreFile, vendor
<1>9. CASE RestoreFails
  <2>1. CASE UNCHANGED <<disk, survivors>>
    BY <1>2, <1>9, <2>1 DEF RestoreFails
  <2>2. ASSUME NEW f \in File, Unsynced(Former(f)) PROVE AllSound'
    <3>1. Sound(Former(f), backups, beside, strays)
      BY <1>1, <1>9, SoundWritten DEF RestoreFails
    <3> QED
      BY <1>1, <1>9, <2>2, <3>1, SoundWrite DEF RestoreFails, vendor
  <2> QED
    BY <1>9, <2>1, <2>2 DEF RestoreFails
<1>10. CASE ToolWrites
  <2>1. PICK image : /\ image = Put(cache.file, [of |-> cache.of, stamp |-> stamp + 1])
                     /\ Synced(image) \/ Unsynced(image)
    BY <1>10 DEF ToolWrites
  <2>2. Sound(image, backups, beside, strays')
    BY <1>1, <1>10, <2>1, SoundVendor
  <2>3. ASSUME NEW other \in survivors PROVE Sound(other, backups, beside, strays')
    <3>1. Sound(other, backups, beside, strays)
      BY <1>1 DEF AllSound
    <3> QED
      BY <1>0, <3>1 DEF Sound
  <2>4. \A other \in survivors' : other \in survivors \/ other = image
    BY <2>1 DEF Synced, Unsynced
  <2>5. UNCHANGED <<backups, beside>>
    BY <1>10 DEF ToolWrites
  <2> QED
    BY <2>2, <2>3, <2>4, <2>5 DEF AllSound
<1>11. CASE ToolStarts \/ (\E f \in File : ToolReads(f)) \/ ToolExits
  <2>1. UNCHANGED <<survivors, backups>>
    BY <1>11 DEF ToolStarts, ToolReads, ToolExits, store
  <2> QED
    BY <1>2, <2>1
<1>12. CASE Crash \/ PowerFails
  <2>1. UNCHANGED backups /\ survivors' \subseteq survivors
    BY <1>12 DEF Crash, PowerFails, store
  <2> QED
    BY <1>2, <2>1
<1>13. CASE UNCHANGED vars
  BY <1>2, <1>13 DEF vars
<1> QED
  BY <1>3, <1>4, <1>5, <1>6, <1>7, <1>8, <1>9, <1>10, <1>11, <1>12, <1>13 DEF Next, Step

LEMMA QuietStep ==
  ASSUME IInv, [Next]_vars
  PROVE  ToolQuiet'
<1> USE DEF IInv
<1>1. /\ TypeInv /\ ToolQuiet /\ Phase /\ disk \in Disk
      /\ tool \in BOOLEAN
  BY DEF TypeInv, TypeOK
<1>0. beside => beside'
  BY <1>1, HistoryStep DEF TypeInv
<1>2. ASSUME ~tool, UNCHANGED <<tool, cache>> PROVE ToolQuiet'
  <2>1. ~tool' /\ cache' = NoCache
    BY <1>1, <1>2 DEF ToolQuiet
  <2> QED
    BY <2>1 DEF ToolQuiet
<1>3. ASSUME UNCHANGED <<disk, tool, cache>>, op'.pc \in {"idle", "journal", "check"}
      PROVE  ToolQuiet'
  BY <1>0, <1>1, <1>3 DEF ToolQuiet
<1>4. ASSUME UNCHANGED vendor, op.pc \notin {"idle", "journal", "check", "restore"}
      PROVE  ToolQuiet'
  BY <1>1, <1>2, <1>4 DEF ToolQuiet, vendor
<1>5. CASE (\E a \in Account : StartSwitch(a)) \/ StartList
  <2>1. op'.pc = "journal" /\ UNCHANGED <<disk, tool, cache>>
    BY <1>5 DEF StartSwitch, StartList, Idle, store, vendor
  <2> QED
    BY <1>3, <2>1
<1>6. CASE NoJournal
  <2>1. op'.pc \in {"idle", "check"} /\ UNCHANGED <<disk, tool, cache>>
    BY <1>1, <1>6, RecoveredType DEF NoJournal, store, vendor, TypeInv
  <2> QED
    BY <1>3, <2>1
<1>7. CASE FindJournal
  <2>1. op'.pc = "restore" /\ op'.why = "recover" /\ UNCHANGED <<disk, tool, cache>>
    BY <1>1, <1>7 DEF FindJournal, Restoring, store, vendor, TypeInv, TypeOK
  <2> QED
    BY <1>0, <1>1, <2>1 DEF ToolQuiet
<1>8. CASE Fails
  <2>1. op'.pc = "idle" /\ UNCHANGED <<disk, tool, cache>>
    BY <1>8 DEF Fails, Answers, Idle, store, vendor
  <2> QED
    BY <1>3, <2>1
<1>9. CASE CheckTool
  <2>1. UNCHANGED <<disk, tool, cache>>
    BY <1>9 DEF CheckTool, store, vendor
  <2>2. CASE tool
    <3>1. op'.pc = "idle"
      BY <1>9, <2>2 DEF CheckTool, Answers, Idle
    <3> QED
      BY <1>3, <2>1, <3>1
  <2>3. CASE ~tool
    BY <1>2, <2>1, <2>3
  <2> QED
    BY <2>2, <2>3
<1>10. CASE Load \/ Snapshot \/ WriteJournal \/ JournalFails \/ WriteCredentials
            \/ WriteIdentity \/ WriteFails \/ Verify \/ Commit \/ CommitFails
  <2>1. UNCHANGED vendor /\ op.pc \notin {"idle", "journal", "check", "restore"}
    BY <1>10 DEF Load, Snapshot, WriteJournal, JournalFails, WriteCredentials,
       WriteIdentity, WriteFails, Verify, Commit, CommitFails
  <2> QED
    BY <1>4, <2>1
<1>11. CASE (\E f \in File : RestoreFile(f)) \/ RestoreFails \/ ClearJournal
  <2>1. UNCHANGED <<tool, cache>> /\ op.pc = "restore"
    BY <1>11 DEF RestoreFile, IsNext, RestoreFails, ClearJournal, vendor
  <2>2. tool => beside /\ op.why = "recover"
    BY <1>1, <2>1 DEF ToolQuiet, Phase, TypeInv, Backed
  <2>3. \/ op'.pc \in {"idle", "check"}
        \/ op'.pc = "restore" /\ op'.why = op.why
    <3>1. CASE \E f \in File : RestoreFile(f)
      BY <1>1, <2>1, <3>1 DEF RestoreFile, TypeInv, TypeOK
    <3>2. CASE RestoreFails
      BY <3>2 DEF RestoreFails, Answers, Idle
    <3>3. CASE ClearJournal
      BY <1>1, <3>3, AnswerType, RecoveredType DEF ClearJournal, TypeInv
    <3> QED
      BY <1>11, <3>1, <3>2, <3>3
  <2> QED
    BY <1>0, <1>1, <2>1, <2>2, <2>3 DEF ToolQuiet
<1>12. CASE ToolStarts
  <2>1. ~tool /\ op'.pc = "idle" /\ disk' = disk /\ cache' = cache
    BY <1>12 DEF ToolStarts, store
  <2>2. cache = NoCache
    BY <1>1, <2>1 DEF ToolQuiet
  <2>3. disk.journal # 0 => beside'
    BY <1>12 DEF ToolStarts
  <2> QED
    BY <2>1, <2>2, <2>3 DEF ToolQuiet
<1>13. ASSUME NEW f \in File, ToolReads(f) PROVE ToolQuiet'
  <2>1. /\ tool /\ tool' /\ UNCHANGED <<disk, op>>
        /\ cache'.file = f /\ cache'.of = disk.live[f].of /\ Exists(disk.live[f])
    BY <1>13 DEF ToolReads, store
  <2> QED
    BY <1>0, <1>1, <2>1 DEF ToolQuiet
<1>14. CASE ToolWrites
  <2>1. cache' = NoCache /\ UNCHANGED <<op, tool>>
    BY <1>14 DEF ToolWrites
  <2>2. disk'.journal = disk.journal
    BY <1>1, <1>14 DEF ToolWrites, Synced, Unsynced, Put, Disk
  <2> QED
    BY <1>0, <1>1, <2>1, <2>2 DEF ToolQuiet
<1>15. CASE ToolExits \/ PowerFails
  <2>1. ~tool' /\ cache' = NoCache
    BY <1>15 DEF ToolExits, PowerFails
  <2> QED
    BY <2>1 DEF ToolQuiet
<1>16. CASE Crash
  <2>1. op'.pc = "idle" /\ UNCHANGED <<disk, tool, cache>>
    BY <1>16 DEF Crash, Dies, Idle, store, vendor
  <2> QED
    BY <1>3, <2>1
<1>17. CASE UNCHANGED vars
  BY <1>1, <1>17 DEF vars, ToolQuiet
<1> QED
  BY <1>5, <1>6, <1>7, <1>8, <1>9, <1>10, <1>11, <1>12, <1>13, <1>14, <1>15, <1>16, <1>17
     DEF Next, Step

LEMMA PhaseBetween ==
  ASSUME \/ op' = Idle \/ op'.pc = "journal"
         \/ op'.pc = "check" /\ op'.target # Nobody /\ disk'.journal = 0
         \/ op'.pc = "load" /\ op'.target # Nobody /\ disk'.journal = 0
  PROVE  Phase'
BY DEF Phase, Idle

LEMMA PhaseRecovered ==
  ASSUME Recovered, disk'.journal = 0
  PROVE  Phase'
<1>1. CASE op.target = Nobody
  BY <1>1, PhaseBetween DEF Recovered, Answers
<1>2. CASE op.target # Nobody
  <2>1. op' = Fresh("check", op.target)
    BY <1>2 DEF Recovered, Fresh, Idle
  <2> QED
    BY <1>2, <2>1, PhaseBetween DEF Fresh
<1> QED
  BY <1>1, <1>2

LEMMA PhaseRestoring ==
  ASSUME OpOK, NEW why, NEW n, Restoring(why, n), disk'.journal = n,
         why = "abort" => op.target # Nobody
  PROVE  Phase'
<1>1. /\ op'.pc = "restore" /\ op'.why = why /\ op'.backup = n /\ op'.todo = File
      /\ op'.target = op.target
  BY DEF Restoring, OpOK
<1> QED
  BY <1>1 DEF Phase

(* The writes of a switch leave the journal alone.                         *)
LEMMA PhaseSwitch ==
  ASSUME IInv,
         \/ WriteJournal \/ JournalFails \/ WriteCredentials \/ WriteIdentity
         \/ WriteFails \/ Verify \/ Commit \/ CommitFails
  PROVE  Phase'
<1> USE DEF IInv
<1>1. /\ StoreOK /\ OpOK /\ disk \in Disk /\ op.backup \in Nat
      /\ Phase /\ TypeInv
  BY TypeParts DEF StoreOK, OpOK, TypeInv
<1>2. NextCredentials.journal = disk.journal /\ NextIdentity.journal = disk.journal
  BY <1>1, Written
<1>3. CASE WriteJournal
  <2>1. disk'.journal = op.backup
    BY <1>1, <1>3, NotedImage DEF WriteJournal, Synced
  <2>2. /\ op'.pc = "credentials" /\ op'.target = op.target /\ op'.backup = op.backup
        /\ op'.stamp = op.stamp /\ backups' = backups
    BY <1>1, <1>3 DEF WriteJournal, GoesTo, OpOK
  <2>3. op.target # Nobody /\ op.stamp = backups[op.backup]["identity"].stamp
    BY <1>1, <1>3 DEF WriteJournal, Phase
  <2> QED
    BY <2>1, <2>2, <2>3 DEF Phase
<1>4. CASE JournalFails \/ Commit
  BY <1>4, PhaseBetween DEF JournalFails, Commit, Answers
<1>5. CASE WriteCredentials
  <2>1. disk'.journal = disk.journal
    BY <1>2, <1>5 DEF WriteCredentials, Synced
  <2>2. /\ op'.pc = "identity" /\ op'.target = op.target /\ op'.backup = op.backup
        /\ op'.stamp = op.stamp /\ backups' = backups
    BY <1>1, <1>5 DEF WriteCredentials, GoesTo, OpOK
  <2>3. /\ op.target # Nobody /\ disk.journal = op.backup
        /\ op.stamp = backups[op.backup]["identity"].stamp
    BY <1>1, <1>5 DEF WriteCredentials, Phase
  <2> QED
    BY <2>1, <2>2, <2>3 DEF Phase
<1>6. CASE WriteIdentity
  <2>1. disk'.journal = disk.journal /\ survivors' = {disk'}
    BY <1>2, <1>6 DEF WriteIdentity, Synced
  <2>2. /\ op'.pc = "verify" /\ op'.target = op.target /\ op'.backup = op.backup
        /\ op'.stamp = op.stamp /\ backups' = backups
    BY <1>1, <1>6 DEF WriteIdentity, GoesTo, OpOK
  <2>3. /\ op.target # Nobody /\ disk.journal = op.backup
        /\ op.stamp = backups[op.backup]["identity"].stamp
    BY <1>1, <1>6 DEF WriteIdentity, Phase
  <2> QED
    BY <2>1, <2>2, <2>3 DEF Phase
<1>7. CASE WriteFails \/ CommitFails \/ (Verify /\ Abort)
  <2>1. disk'.journal = disk.journal
    BY <1>2, <1>7 DEF WriteFails, CommitFails, Verify, Botched, Unsynced, store
  <2>2. op.target # Nobody /\ disk.journal = op.backup
    BY <1>1, <1>7 DEF WriteFails, CommitFails, Verify, Phase
  <2>3. Restoring("abort", op.backup)
    BY <1>7 DEF WriteFails, CommitFails, Verify, Abort
  <2> QED
    BY <1>1, <2>1, <2>2, <2>3, PhaseRestoring
<1>8. CASE Verify /\ ~Abort
  <2>1. /\ op.pc = "verify" /\ GoesTo("commit")
        /\ disk = NextCredentials /\ disk = NextIdentity /\ UNCHANGED <<disk, survivors>>
    BY <1>8 DEF Verify, store
  <2>2. OwnersOf(disk.live) = <<op.target, op.target>>
    <3>1. Stored(op.target) \in Document
      BY <1>1 DEF OpOK, Stored, Document
    <3>2. PICK document \in Document : document = [of |-> op.target, stamp |-> op.stamp]
      BY <1>1 DEF OpOK, Document
    <3>3. NextCredentials.live["credentials"].of = op.target
      BY <1>1, <3>1, PutImage DEF NextCredentials, Stored, File
    <3>4. NextIdentity.live["identity"].of = op.target
      BY <1>1, <3>2, PutImage DEF NextIdentity, File
    <3> QED
      BY <2>1, <3>3, <3>4 DEF OwnersOf
  <2>3. op'.pc = "commit" /\ op'.target = op.target /\ op'.backup = op.backup
    BY <1>1, <2>1 DEF GoesTo, OpOK
  <2>4. op.target # Nobody /\ disk.journal = op.backup /\ survivors = {disk}
    BY <1>1, <2>1 DEF Phase
  <2> QED
    BY <2>1, <2>2, <2>3, <2>4 DEF Phase
<1> QED
  BY <1>3, <1>4, <1>5, <1>6, <1>7, <1>8

LEMMA PhaseRestore ==
  ASSUME IInv, (\E f \in File : RestoreFile(f)) \/ RestoreFails \/ ClearJournal
  PROVE  Phase'
<1> USE DEF IInv
<1>1. /\ StoreOK /\ OpOK /\ disk \in Disk /\ Phase /\ TypeInv
      /\ op.pc = "restore" /\ op.backup # 0 /\ disk.journal = op.backup
  BY TypeParts DEF StoreOK, TypeInv, Backed, Phase, RestoreFile, IsNext, RestoreFails, ClearJournal
<1>2. ASSUME NEW f \in File, RestoreFile(f) PROVE Phase'
  <2>1. backups[op.backup][f] \in Document
    BY <1>1 DEF StoreOK, OpOK
  <2>2. /\ disk'.journal = disk.journal
        /\ disk'.live[f] = backups[op.backup][f]
        /\ \A g \in File : g # f => disk'.live[g] = disk.live[g]
    <3>1. disk' = Former(f)
      BY <1>2 DEF RestoreFile, Synced, Unsynced
    <3> QED
      BY <1>1, <2>1, <3>1, PutImage DEF Former
  <2>3. /\ op'.pc = "restore" /\ op'.todo = op.todo \ {f} /\ op'.backup = op.backup
        /\ op'.target = op.target /\ op'.why = op.why /\ backups' = backups
    BY <1>1, <1>2 DEF RestoreFile, OpOK
  <2>4. beside \/ \A g \in File \ op.todo : disk.live[g] = backups[op.backup][g]
    BY <1>1 DEF Phase
  <2>5. beside' \/ \A g \in File \ op'.todo : disk'.live[g] = backups'[op'.backup][g]
    <3>1. beside' = beside
      BY <1>2 DEF RestoreFile, vendor
    <3> QED
      BY <2>2, <2>3, <2>4, <3>1
  <2>6. op.why = "abort" => op.target # Nobody
    BY <1>1 DEF Phase
  <2> QED
    BY <1>1, <2>2, <2>3, <2>5, <2>6 DEF Phase
<1>3. CASE RestoreFails
  BY <1>3, PhaseBetween DEF RestoreFails, Answers
<1>4. CASE ClearJournal
  <2>1. disk'.journal = 0
    BY <1>1, <1>4, NotedImage DEF ClearJournal, Unsynced
  <2> QED
    BY <1>4, <2>1, PhaseBetween, PhaseRecovered DEF ClearJournal, Answers
<1> QED
  BY <1>2, <1>3, <1>4

LEMMA PhaseStep ==
  ASSUME IInv, [Next]_vars
  PROVE  Phase'
<1> USE DEF IInv
<1>1. StoreOK /\ OpOK /\ VendorOK /\ Phase /\ TypeInv /\ ToolQuiet /\ disk \in Disk
  BY TypeParts DEF StoreOK, TypeInv
<1>2. ASSUME NEW a \in Account, StartSwitch(a) PROVE Phase'
  <2>1. op' = Fresh("journal", a)
    BY <1>2 DEF StartSwitch, Fresh, Idle
  <2> QED
    BY <2>1, PhaseBetween DEF Fresh
<1>3. CASE StartList
  <2>1. op' = Fresh("journal", Nobody)
    BY <1>3 DEF StartList, Fresh, Idle
  <2> QED
    BY <2>1, PhaseBetween DEF Fresh
<1>4. CASE NoJournal
  BY <1>4, PhaseRecovered DEF NoJournal, store
<1>5. CASE FindJournal
  BY <1>1, <1>5, PhaseRestoring DEF FindJournal, store
<1>6. CASE Fails \/ Crash \/ PowerFails
  BY <1>6, PhaseBetween DEF Fails, Crash, PowerFails, Answers, Dies
<1>7. CASE CheckTool
  <2>1. CASE Answers("error")
    BY <2>1, PhaseBetween DEF Answers
  <2>2. CASE GoesTo("load")
    <3>1. op'.pc = "load" /\ op'.target = op.target /\ disk' = disk
      BY <1>1, <1>7, <2>2 DEF CheckTool, GoesTo, OpOK, store
    <3>2. op.target # Nobody /\ disk.journal = 0
      BY <1>1, <1>7 DEF CheckTool, Phase
    <3> QED
      BY <3>1, <3>2, PhaseBetween
  <2> QED
    BY <1>7, <2>1, <2>2 DEF CheckTool
<1>8. CASE Load
  <2>1. CASE Answers("error")
    BY <2>1, PhaseBetween DEF Answers
  <2>2. CASE ~Answers("error")
    <3>1. /\ op'.pc = "capture" /\ op'.target = op.target /\ disk' = disk
          /\ op'.stamp = disk.live["identity"].stamp
      BY <1>1, <1>8, <2>2 DEF Load, OpOK, store
    <3>2. op.target # Nobody /\ disk.journal = 0
      BY <1>1, <1>8 DEF Load, Phase
    <3> QED
      BY <3>1, <3>2 DEF Phase
  <2> QED
    BY <2>1, <2>2
<1>9. CASE Snapshot
  <2>1. PICK n \in Nat : n = Len(backups) + 1
    BY <1>1, <1>9, Appended
  <2>2. backups'[n] = disk.live
    BY <1>1, <1>9, <2>1, Appended
  <2>3. /\ op'.pc = "note" /\ op'.target = op.target /\ op'.stamp = op.stamp
        /\ op'.backup = n /\ disk' = disk
    BY <1>1, <1>9, <2>1 DEF Snapshot, OpOK
  <2>4. op.target # Nobody /\ disk.journal = 0 /\ op.stamp = disk.live["identity"].stamp
    BY <1>1, <1>9 DEF Snapshot, Phase
  <2> QED
    BY <2>2, <2>3, <2>4 DEF Phase
<1>10. CASE \/ WriteJournal \/ JournalFails \/ WriteCredentials \/ WriteIdentity
            \/ WriteFails \/ Verify \/ Commit \/ CommitFails
  BY <1>10, PhaseSwitch
<1>11. CASE (\E f \in File : RestoreFile(f)) \/ RestoreFails \/ ClearJournal
  BY <1>11, PhaseRestore
<1>12. CASE ToolStarts \/ (\E f \in File : ToolReads(f)) \/ ToolExits
  <2>1. UNCHANGED <<disk, survivors, backups, op>>
    BY <1>12 DEF ToolStarts, ToolReads, ToolExits, store
  <2>2. beside => beside'
    BY <1>1, HistoryStep DEF TypeInv
  <2> QED
    BY <1>1, <2>1, <2>2 DEF Phase
<1>13. CASE ToolWrites
  <2>1. op.pc \in {"idle", "journal", "check", "restore"}
    BY <1>1, <1>13 DEF ToolWrites, ToolQuiet
  <2>2. disk'.journal = disk.journal /\ UNCHANGED <<op, backups, beside>>
    BY <1>1, <1>13 DEF ToolWrites, Synced, Unsynced, Put, Disk
  <2>3. op.pc = "restore" => beside
    BY <1>1, <1>13 DEF ToolWrites, ToolQuiet, Phase, TypeInv, Backed
  <2> QED
    BY <1>1, <2>1, <2>2, <2>3 DEF Phase
<1>14. CASE UNCHANGED vars
  BY <1>1, <1>14 DEF vars, Phase
<1> QED
  BY <1>2, <1>3, <1>4, <1>5, <1>6, <1>7, <1>8, <1>9, <1>10, <1>11, <1>12, <1>13, <1>14
     DEF Next, Step

LEMMA InitSafe == Init => IInv
<1> SUFFICES ASSUME Init PROVE IInv
  OBVIOUS
<1>1. TypeInv
  BY InitType
<1>2. AllSound
  <2>1. PICK a \in Account, credentials, settings, identity \in BOOLEAN :
          disk = [live |->
            [f \in File |->
               CASE f = "credentials" -> IF credentials THEN [of |-> a, stamp |-> 2] ELSE Missing
                 [] f = "settings" -> IF settings THEN [of |-> Nobody, stamp |-> 2] ELSE Missing
                 [] OTHER -> IF identity THEN [of |-> a, stamp |-> 2] ELSE Missing],
            journal |-> 0]
    BY DEF Init
  <2>2. /\ disk.live["credentials"] \in {Missing, [of |-> a, stamp |-> 2]}
        /\ disk.live["identity"] \in {Missing, [of |-> a, stamp |-> 2]}
        /\ disk.journal = 0
    BY <2>1 DEF File
  <2>3. Whole(disk.live)
    BY <2>2 DEF Whole, Exists, Missing
  <2> QED
    BY <2>2, <2>3 DEF Init, AllSound, Sound
<1>3. ToolQuiet
  BY DEF Init, ToolQuiet
<1>4. Phase
  BY DEF Init, Phase, Idle
<1> QED
  BY <1>1, <1>2, <1>3, <1>4 DEF IInv

THEOREM Invariant == Spec => []IInv
<1>1. IInv /\ [Next]_vars => IInv'
  <2> SUFFICES ASSUME IInv, [Next]_vars PROVE IInv'
    OBVIOUS
  <2>1. TypeInv'
    BY TypeStep DEF IInv
  <2>2. AllSound' /\ ToolQuiet' /\ Phase'
    BY SoundStep, QuietStep, PhaseStep
  <2> QED
    BY <2>1, <2>2 DEF IInv
<1> QED
  BY <1>1, InitSafe, PTL DEF Spec

(* Whatever is cut short by whatever: until somebody starts the vendor     *)
(* tool beside a journal, a pair of two accounts never stands without one, *)
(* and the journal names a whole pair.                                     *)
THEOREM JournalHeld == Spec => []HalfAppliedIsJournaled
<1>1. IInv => HalfAppliedIsJournaled
  <2> SUFFICES ASSUME IInv, ~beside, NEW image \in survivors
               PROVE  IF image.journal = 0 THEN Whole(image.live)
                      ELSE image.journal \in DOMAIN backups /\ Whole(backups[image.journal])
    BY DEF HalfAppliedIsJournaled, NeverHalfApplied
  <2>1. Sound(image, backups, beside, strays)
    BY DEF IInv, AllSound
  <2>2. /\ image.journal \in 0..Len(backups) /\ Len(backups) \in Nat
        /\ DOMAIN backups = 1..Len(backups)
    BY DEF IInv, TypeInv, TypeOK
  <2> QED
    BY <2>1, <2>2 DEF Sound
<1> QED
  BY <1>1, Invariant, PTL

(* What a manager's write finds: a journal, and a backup that accounts for *)
(* every file but for what was written beside it; no tool, unless it is a  *)
(* recovery.                                                               *)
Unattended == ~tool \/ (op.pc = "restore" /\ op.why = "recover")
Saved(f) == BackedUp(f) \/ disk.live[f].stamp \in strays

LEMMA ManagerAtWork ==
  ASSUME IInv, Next, NEW f \in File, ManagerWrites(f)
  PROVE  Unattended /\ Saved(f)
<1> USE DEF IInv
<1>1. /\ TypeInv /\ AllSound /\ ToolQuiet /\ Phase /\ disk \in Disk
      /\ StoreOK /\ OpOK /\ crashes \in Nat
  BY TypeParts DEF StoreOK, TypeInv, TypeOK
<1>2. op.pc \in {"credentials", "identity", "restore"} => Unattended /\ Saved(f)
  <2> SUFFICES ASSUME op.pc \in {"credentials", "identity", "restore"}
               PROVE  Unattended /\ Saved(f)
    OBVIOUS
  <2>1. Unattended
    BY <1>1 DEF ToolQuiet, Unattended
  <2>2. /\ op.backup # 0
        /\ disk.live[f].stamp \in {0, 1, backups[op.backup][f].stamp} \cup strays
    BY <1>1, Accounted
  <2>3. op.backup \in DOMAIN backups
    <3>1. op.backup \in 0..Len(backups) /\ DOMAIN backups = 1..Len(backups)
          /\ Len(backups) \in Nat
      BY <1>1 DEF StoreOK, OpOK
    <3> QED
      BY <2>2, <3>1
  <2> QED
    BY <2>1, <2>2, <2>3 DEF BackedUp, Saved
<1>3. disk'.live = disk.live => FALSE
  BY DEF ManagerWrites
<1>4. ASSUME NEW n \in Nat, disk' = Noted(n) PROVE FALSE
  BY <1>1, <1>3, <1>4, NotedImage
<1>5. CASE \/ \E a \in Account : StartSwitch(a)
           \/ StartList \/ NoJournal \/ FindJournal \/ Fails \/ CheckTool \/ Load
           \/ Verify \/ CommitFails
  BY <1>1, <1>3, <1>5, QuietType DEF store
<1>6. CASE Snapshot
  BY <1>3, <1>6 DEF Snapshot
<1>7. CASE WriteJournal \/ JournalFails \/ Commit \/ ClearJournal
  <2>1. op.backup \in Nat /\ 0 \in Nat
    BY <1>1 DEF OpOK
  <2>2. disk' = disk \/ disk' = Noted(op.backup) \/ disk' = Noted(0)
    BY <1>7 DEF WriteJournal, JournalFails, Commit, ClearJournal, Synced, Unsynced, Botched
  <2> QED
    BY <1>3, <1>4, <2>1, <2>2
<1>8. CASE WriteCredentials \/ WriteIdentity \/ WriteFails
  BY <1>2, <1>8 DEF WriteCredentials, WriteIdentity, WriteFails
<1>9. CASE (\E g \in File : RestoreFile(g)) \/ RestoreFails
  BY <1>2, <1>9 DEF RestoreFile, IsNext, RestoreFails
<1>10. CASE ToolStarts \/ (\E g \in File : ToolReads(g)) \/ ToolWrites \/ ToolExits
  BY <1>10 DEF ManagerWrites, ToolStarts, ToolReads, ToolWrites, ToolExits
<1>11. CASE Crash \/ PowerFails
  BY <1>1, <1>11 DEF ManagerWrites, Crash, PowerFails, Dies
<1> QED
  BY <1>5, <1>6, <1>7, <1>8, <1>9, <1>10, <1>11 DEF Next, Step

(* What the vendor has written is in a backup when the manager replaces    *)
(* it, however late a recovery comes and whatever runs beside it; only     *)
(* what was written while a journal existed is not.                        *)
THEOREM BackedUpHeld == Spec => ReplacedIsBackedUp
<1>1. IInv /\ [Next]_vars => [\A f \in File : ManagerWrites(f) =>
                               BackedUp(f) \/ disk.live[f].stamp \in strays]_vars
  BY ManagerAtWork DEF Saved
<1> QED
  BY <1>1, Invariant, PTL DEF Spec, ReplacedIsBackedUp

(* A switch and its abort replace no file of a running tool; what does is  *)
(* a recovery.                                                             *)
THEOREM NoWriteHeld == Spec => NoWriteUnderTool
<1>1. IInv /\ [Next]_vars => [\A f \in File : ManagerWrites(f) =>
                               ~tool \/ (op.pc = "restore" /\ op.why = "recover")]_vars
  BY ManagerAtWork DEF Unattended
<1> QED
  BY <1>1, Invariant, PTL DEF Spec, NoWriteUnderTool

-----------------------------------------------------------------------------
(***************************************************************************)
(* The switch implements its promise.                                      *)
(***************************************************************************)
InForce(image, taken) ==
  IF image.journal = 0 THEN OwnersOf(image.live) ELSE OwnersOf(taken[image.journal])

LEMMA Forces ==
  /\ \A image : Effective(image) = InForce(image, backups)
  /\ Effective(disk)' = InForce(disk', backups')
  /\ {Effective(image) : image \in survivors} = {InForce(image, backups) : image \in survivors}
  /\ {Effective(image) : image \in survivors}' = {InForce(image, backups') : image \in survivors'}
BY DEF Effective, InForce

LEMMA SettlesIf ==
  ASSUME TypeOK, TypeOK', InForce(disk', backups') = InForce(disk, backups),
         \A image \in survivors' :
            \/ image \in survivors /\ InForce(image, backups') = InForce(image, backups)
            \/ InForce(image, backups') = InForce(disk, backups)
  PROVE  Promise!Settles
<1>1. disk \in survivors /\ disk' \in survivors'
  BY DEF TypeOK
<1>2. {InForce(image, backups') : image \in survivors'}
        \subseteq {InForce(image, backups) : image \in survivors}
  BY <1>1
<1>3. InForce(disk, backups) \in {InForce(image, backups') : image \in survivors'}
  BY <1>1
<1> QED
  BY <1>2, <1>3, Forces DEF Promise!Settles

LEMMA StoreSettles ==
  ASSUME TypeOK, TypeOK', UNCHANGED store
  PROVE  Promise!Settles
<1>1. UNCHANGED <<disk, backups>> /\ survivors' = survivors
  BY DEF store
<1> QED
  BY <1>1, SettlesIf

LEMMA WriteSettles ==
  ASSUME TypeOK, TypeOK', UNCHANGED backups, NEW image,
         InForce(image, backups) = InForce(disk, backups),
         \/ Synced(image) \/ Unsynced(image) \/ Botched(image)
         \/ disk' = disk /\ survivors' = survivors \cup {image}
  PROVE  Promise!Settles
<1>1. \A other \in survivors' : other \in survivors \/ other = image
  BY DEF Synced, Unsynced, Botched, TypeOK
<1>2. disk' = disk \/ disk' = image
  BY DEF Synced, Unsynced, Botched
<1> QED
  BY <1>1, <1>2, SettlesIf

LEMMA StutterStep ==
  ASSUME Promise!Settles, op'.target = op.target, answer' = answer
  PROVE  [Promise!Next]_(Promise!promise)
BY DEF Promise!Settle, Promise!Next

LEMMA AnswerStep ==
  ASSUME Promise!Settles, Answers("error")
  PROVE  [Promise!Next]_(Promise!promise)
<1>1. op'.target = Nobody
  BY DEF Answers, Idle
<1>2. CASE op.target = Nobody
  BY <1>1, <1>2, StutterStep DEF Answers
<1>3. CASE op.target # Nobody
  BY <1>1, <1>3 DEF Answers, Promise!Refuse, Promise!Next
<1> QED
  BY <1>2, <1>3

LEMMA RecoveredStep ==
  ASSUME Promise!Settles, Recovered
  PROVE  [Promise!Next]_(Promise!promise)
<1>1. CASE op.target = Nobody
  BY <1>1, StutterStep DEF Recovered, Answers, Idle
<1>2. CASE op.target # Nobody
  <2>1. op' = Fresh("check", op.target) /\ answer' = answer
    BY <1>2 DEF Recovered, Fresh, Idle
  <2> QED
    BY <2>1, StutterStep DEF Fresh
<1> QED
  BY <1>1, <1>2

(* Every write but the commit leaves the pair in force alone.              *)
LEMMA WritesKeep ==
  ASSUME IInv, TypeOK', ~beside,
         \/ Snapshot \/ WriteJournal \/ JournalFails \/ WriteCredentials
         \/ WriteIdentity \/ WriteFails \/ (\E f \in File : RestoreFile(f))
         \/ RestoreFails \/ ClearJournal
  PROVE  Promise!Settles
<1> USE DEF IInv
<1>1. /\ TypeInv /\ TypeOK /\ Phase /\ StoreOK /\ OpOK /\ disk \in Disk
      /\ op.backup \in Nat /\ "credentials" \in File /\ "identity" \in File
  BY TypeParts DEF TypeInv, StoreOK, OpOK, File
<1>2. CASE Snapshot
  <2>1. disk' = disk /\ survivors' = survivors /\ disk \in survivors
    BY <1>1, <1>2 DEF Snapshot, StoreOK
  <2>2. ASSUME NEW image \in survivors
        PROVE  InForce(image, backups') = InForce(image, backups)
    <3>1. image.journal \in 0..Len(backups) /\ Len(backups) \in Nat
      BY <1>1, <1>2, Appended DEF StoreOK
    <3>2. image.journal # 0 => backups'[image.journal] = backups[image.journal]
      BY <1>1, <1>2, <3>1, Appended
    <3> QED
      BY <3>2 DEF InForce
  <2> QED
    BY <1>1, <2>1, <2>2, SettlesIf
<1>3. CASE WriteJournal \/ JournalFails
  <2>1. op.backup # 0 /\ disk.journal = 0 /\ disk.live = backups[op.backup]
    BY <1>1, <1>3 DEF WriteJournal, JournalFails, TypeInv, Backed, Phase
  <2>2. PICK image : image = Noted(op.backup)
    OBVIOUS
  <2>3. InForce(image, backups) = InForce(disk, backups)
    BY <1>1, <2>1, <2>2, NotedImage DEF InForce
  <2>4. UNCHANGED backups
    BY <1>3 DEF WriteJournal, JournalFails
  <2> QED
    BY <1>1, <1>3, <2>2, <2>3, <2>4, WriteSettles DEF WriteJournal, JournalFails
<1>4. ASSUME op.pc \in {"credentials", "identity", "restore"}
      PROVE  /\ InForce(NextCredentials, backups) = InForce(disk, backups)
             /\ InForce(NextIdentity, backups) = InForce(disk, backups)
             /\ \A f \in File : InForce(Former(f), backups) = InForce(disk, backups)
  <2>1. op.backup # 0 /\ disk.journal = op.backup
    BY <1>1, <1>4 DEF TypeInv, Backed, Phase
  <2> QED
    BY <1>1, <2>1, Written DEF InForce
<1>5. CASE WriteCredentials
  BY <1>1, <1>4, <1>5, WriteSettles DEF WriteCredentials
<1>6. CASE WriteIdentity
  BY <1>1, <1>4, <1>6, WriteSettles DEF WriteIdentity
<1>7. CASE WriteFails
  BY <1>1, <1>4, <1>7, WriteSettles DEF WriteFails
<1>8. ASSUME NEW f \in File, RestoreFile(f) PROVE Promise!Settles
  BY <1>1, <1>4, <1>8, WriteSettles DEF RestoreFile, IsNext
<1>9. CASE RestoreFails
  <2>1. CASE UNCHANGED <<disk, survivors>>
    BY <1>1, <1>9, <2>1, StoreSettles DEF RestoreFails, store
  <2>2. ASSUME NEW f \in File, Unsynced(Former(f)) PROVE Promise!Settles
    BY <1>1, <1>4, <1>9, <2>2, WriteSettles DEF RestoreFails
  <2> QED
    BY <1>9, <2>1, <2>2 DEF RestoreFails
<1>10. CASE ClearJournal
  <2>1. op.backup # 0 /\ disk.journal = op.backup
    BY <1>1, <1>10 DEF ClearJournal, TypeInv, Backed, Phase
  <2>2. OwnersOf(disk.live) = OwnersOf(backups[op.backup])
    BY <1>1, <1>10 DEF ClearJournal, Phase, OwnersOf
  <2>3. InForce(Noted(0), backups) = InForce(disk, backups)
    BY <1>1, <2>1, <2>2, NotedImage DEF InForce
  <2> QED
    BY <1>1, <1>10, <2>3, WriteSettles DEF ClearJournal
<1> QED
  BY <1>2, <1>3, <1>5, <1>6, <1>7, <1>8, <1>9, <1>10

LEMMA VendorKeeps ==
  ASSUME IInv, TypeOK', ~beside,
         ToolStarts \/ (\E f \in File : ToolReads(f)) \/ ToolWrites \/ ToolExits
  PROVE  Promise!Settles
<1> USE DEF IInv
<1>1. CASE ToolStarts \/ (\E f \in File : ToolReads(f)) \/ ToolExits
  BY <1>1, StoreSettles DEF ToolStarts, ToolReads, ToolExits, TypeInv
<1>2. CASE ToolWrites
  <2>1. /\ TypeOK /\ disk \in Disk /\ stamp \in Nat
        /\ cache.file \in File /\ cache.of \in Account \cup {Nobody}
    BY <1>2 DEF ToolWrites, TypeInv, TypeOK
  <2>2. disk.journal = 0 /\ disk.live[cache.file].of = cache.of
    BY <1>2 DEF ToolWrites, ToolQuiet
  <2>3. PICK document \in Document : document = [of |-> cache.of, stamp |-> stamp + 1]
    <3>1. stamp + 1 \in Nat
      BY <2>1
    <3>2. [of |-> cache.of, stamp |-> stamp + 1] \in Document
      BY <2>1, <3>1 DEF Document
    <3> QED
      BY <3>2
  <2>4. PICK image : image = Put(cache.file, document) /\ (Synced(image) \/ Unsynced(image))
    BY <1>2, <2>3 DEF ToolWrites
  <2>5. image.journal = 0 /\ \A g \in File : image.live[g].of = disk.live[g].of
    BY <2>1, <2>2, <2>3, <2>4, PutImage
  <2>6. InForce(image, backups) = InForce(disk, backups)
    BY <2>2, <2>5 DEF InForce, OwnersOf, File
  <2>7. UNCHANGED backups
    BY <1>2 DEF ToolWrites
  <2> QED
    BY <2>1, <2>4, <2>6, <2>7, WriteSettles
<1> QED
  BY <1>1, <1>2

LEMMA CommitStep ==
  ASSUME IInv, Commit
  PROVE  [Promise!Next]_(Promise!promise)
<1> USE DEF IInv
<1>1. Phase /\ disk \in Disk
  BY DEF TypeInv, TypeOK
<1>2. /\ op.target # Nobody /\ OwnersOf(disk.live) = <<op.target, op.target>>
      /\ survivors = {disk}
  BY <1>1 DEF Commit, Phase
<1>3. disk' = Noted(0) /\ survivors' = {disk, Noted(0)} /\ backups' = backups
  BY <1>2 DEF Commit, Unsynced
<1>4. InForce(disk', backups') = <<op.target, op.target>>
  BY <1>1, <1>2, <1>3, NotedImage DEF InForce
<1>5. {InForce(image, backups') : image \in survivors'}
        = {InForce(disk, backups), InForce(disk', backups')}
  BY <1>3
<1>6. op'.target = Nobody /\ answer' = "ok"
  BY <1>2 DEF Commit, Answers, Idle
<1> QED
  BY <1>2, <1>4, <1>5, <1>6, Forces DEF Promise!Commit, Promise!Next

LEMMA PowerStep ==
  ASSUME TypeOK, PowerFails
  PROVE  [Promise!Next]_(Promise!promise)
<1>1. disk' \in survivors /\ survivors' = {disk'} /\ backups' = backups
  BY DEF PowerFails
<1>2. InForce(disk', backups') \in {InForce(image, backups) : image \in survivors}
  BY <1>1
<1>3. {InForce(image, backups') : image \in survivors'} = {InForce(disk', backups')}
  BY <1>1
<1>4. op'.target = Nobody /\ answer' = "none"
  BY DEF PowerFails, Dies, Idle
<1> QED
  BY <1>2, <1>3, <1>4, Forces DEF Promise!PowerLoss, Promise!Next

LEMMA PromiseStep ==
  ASSUME IInv, TypeOK', [Next]_vars, ~beside
  PROVE  [Promise!Next]_(Promise!promise)
<1> USE DEF IInv
<1>1. TypeInv /\ TypeOK /\ Phase /\ OpOK
  BY TypeParts DEF TypeInv
<1>2. UNCHANGED store => Promise!Settles
  BY <1>1, StoreSettles
<1>3. ASSUME NEW a \in Account, StartSwitch(a) PROVE [Promise!Next]_(Promise!promise)
  <2>1. op.target = Nobody
    BY <1>1, <1>3 DEF StartSwitch, Phase, Idle
  <2>2. op'.target = a /\ answer' = "none"
    BY <1>3 DEF StartSwitch, Idle
  <2>3. Promise!Settles
    BY <1>2, <1>3 DEF StartSwitch
  <2> QED
    BY <2>1, <2>2, <2>3 DEF Promise!Ask, Promise!Next
<1>4. CASE StartList
  <2>1. op.target = Nobody /\ op'.target = Nobody /\ answer' = answer
    BY <1>1, <1>4 DEF StartList, Phase, Idle
  <2> QED
    BY <1>2, <1>4, <2>1, StutterStep DEF StartList
<1>5. CASE NoJournal
  BY <1>2, <1>5, RecoveredStep DEF NoJournal
<1>6. CASE FindJournal \/ CommitFails \/ (Verify /\ Abort)
  <2>1. op'.target = op.target /\ answer' = answer
    BY <1>1, <1>6 DEF FindJournal, CommitFails, Abort, Restoring, OpOK
  <2> QED
    BY <1>2, <1>6, <2>1, StutterStep DEF FindJournal, CommitFails, Verify
<1>7. CASE Fails
  BY <1>2, <1>7, AnswerStep DEF Fails
<1>8. CASE CheckTool \/ (Verify /\ ~Abort)
  <2>1. Promise!Settles
    BY <1>2, <1>8 DEF CheckTool, Verify
  <2>2. CASE Answers("error")
    BY <2>1, <2>2, AnswerStep
  <2>3. ASSUME NEW pc, GoesTo(pc) PROVE op'.target = op.target /\ answer' = answer
    BY <1>1, <2>3 DEF GoesTo, OpOK
  <2> QED
    BY <1>8, <2>1, <2>2, <2>3, StutterStep DEF CheckTool, Verify
<1>9. CASE Load
  <2>1. Promise!Settles
    BY <1>2, <1>9 DEF Load
  <2>2. CASE Answers("error")
    BY <2>1, <2>2, AnswerStep
  <2>3. CASE ~Answers("error")
    <3>1. op'.target = op.target /\ answer' = answer
      BY <1>1, <1>9, <2>3 DEF Load, OpOK
    <3> QED
      BY <2>1, <3>1, StutterStep
  <2> QED
    BY <2>2, <2>3
<1>10. CASE Snapshot
  <2>1. op'.target = op.target /\ answer' = answer
    BY <1>1, <1>10 DEF Snapshot, OpOK
  <2> QED
    BY <1>10, <2>1, WritesKeep, StutterStep
<1>11. CASE WriteJournal \/ WriteCredentials \/ WriteIdentity \/ WriteFails
            \/ (\E f \in File : RestoreFile(f))
  <2>1. op'.target = op.target /\ answer' = answer
    BY <1>1, <1>11 DEF WriteJournal, WriteCredentials, WriteIdentity, WriteFails, Abort,
       Restoring, RestoreFile, GoesTo, OpOK
  <2> QED
    BY <1>11, <2>1, WritesKeep, StutterStep
<1>12. CASE JournalFails \/ RestoreFails
  BY <1>12, WritesKeep, AnswerStep DEF JournalFails, RestoreFails
<1>13. CASE ClearJournal
  BY <1>13, WritesKeep, AnswerStep, RecoveredStep DEF ClearJournal
<1>14. CASE Commit
  BY <1>14, CommitStep
<1>15. CASE ToolStarts \/ (\E f \in File : ToolReads(f)) \/ ToolWrites \/ ToolExits
  <2>1. op' = op /\ answer' = answer
    BY <1>15 DEF ToolStarts, ToolReads, ToolWrites, ToolExits
  <2> QED
    BY <1>15, <2>1, VendorKeeps, StutterStep
<1>16. CASE Crash
  <2>1. op'.target = Nobody /\ answer' = "none" /\ Promise!Settles
    BY <1>2, <1>16 DEF Crash, Dies, Idle
  <2> QED
    BY <2>1 DEF Promise!Vanish, Promise!Next
<1>17. CASE PowerFails
  BY <1>1, <1>17, PowerStep
<1>18. CASE UNCHANGED vars
  BY <1>18, <1>2, StutterStep DEF vars, store
<1> QED
  BY <1>3, <1>4, <1>5, <1>6, <1>7, <1>8, <1>9, <1>10, <1>11, <1>12, <1>13, <1>14, <1>15,
     <1>16, <1>17, <1>18 DEF Next, Step

LEMMA PromiseInit == Init => Promise!Init
<1> SUFFICES ASSUME Init PROVE Promise!Init
  OBVIOUS
<1>1. disk \in Disk /\ disk.journal = 0 /\ op.target = Nobody /\ answer = "none"
  <2>1. TypeInv
    BY InitType
  <2>2. disk.journal = 0
    BY DEF Init
  <2> QED
    BY <2>1, <2>2 DEF Init, Idle, TypeInv, TypeOK
<1>2. /\ disk.live["credentials"].of \in Account \cup {Nobody}
      /\ disk.live["identity"].of \in Account \cup {Nobody}
  BY <1>1 DEF Disk, Document, File
<1>3. Effective(disk) \in Promise!Owners \X Promise!Owners
  BY <1>1, <1>2 DEF Promise!Owners, Effective, OwnersOf
<1>4. survivors = {disk}
  BY DEF Init
<1>5. {Effective(image) : image \in survivors} = {Effective(disk)}
  BY <1>4, Forces
<1> QED
  BY <1>1, <1>3, <1>5 DEF Promise!Init

(* A switch is one step from the old pair to the new one, taken together   *)
(* with its answer "ok"; a power loss undoes the last switch at most.      *)
THEOREM AtomicHeld == Spec => SwitchIsAtomic
<1>1. IInv /\ IInv' /\ [Next]_vars => [Promise!Next \/ beside']_(Promise!promise)
  <2> SUFFICES ASSUME IInv, IInv', [Next]_vars, ~beside'
               PROVE  [Promise!Next]_(Promise!promise)
    OBVIOUS
  <2>1. ~beside
    BY HistoryStep DEF IInv, TypeInv
  <2> QED
    BY <2>1, PromiseStep DEF IInv, TypeInv
<1> QED
  BY <1>1, PromiseInit, Invariant, PTL DEF Spec, SwitchIsAtomic
=============================================================================
