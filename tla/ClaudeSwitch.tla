---------------------------- MODULE ClaudeSwitch ----------------------------
(***************************************************************************)
(* The two-file switch of the live Claude Code identity, its journal and   *)
(* its recovery.                                                           *)
(*                                                                         *)
(* Who is signed in is split over two files the vendor tool also writes,   *)
(* each replaced atomically but never both at once.  A switch snapshots    *)
(* every configuration file into an immutable backup, names the backup in  *)
(* a journal, replaces the two files, verifies them and removes the        *)
(* journal.  A failure restores the backup.  Whatever remains of an        *)
(* interrupted switch is restored at the start of the next switch or       *)
(* listing.  Both are synchronous commands: one runs at a time.            *)
(*                                                                         *)
(* A replaced file is durable once its directory is synced; the removal of *)
(* a file is never synced.  A power loss leaves one of the states since    *)
(* the last sync (one journaling file system keeps the order).             *)
(***************************************************************************)
EXTENDS Naturals, Sequences

CONSTANTS
  Account,       \* accounts with a complete stored pair
  Nobody,        \* the owner of a file that names no account
  PowerMayFail,  \* may the power fail, or only the process
  MaxBackups,    \* bound on snapshots
  MaxStamp,      \* bound on the vendor's writes
  MaxCrashes     \* bound on crashes

ASSUME OwnerAssumption == Nobody \notin Account
ASSUME BoundAssumption ==
  /\ PowerMayFail \in BOOLEAN
  /\ MaxBackups \in Nat /\ MaxStamp \in Nat /\ MaxCrashes \in Nat

VARIABLES
  disk,       \* the live configuration files and the journal
  survivors,  \* the states of `disk` a power loss could leave
  backups,    \* the backups with a manifest, in the order they were taken
  op,         \* the command on the main thread
  answer,     \* what the last switch answered
  tool,       \* does a Claude Code process run
  cache,      \* the document the tool has read and will write back
  stamp,      \* the vendor's last write
  beside,     \* history: has the tool run beside a journal
  strays,     \* history: what the vendor wrote beside a journal
  crashes     \* crashes so far

vars == <<disk, survivors, backups, op, answer, tool, cache, stamp, beside,
          strays, crashes>>
store == <<disk, survivors, backups>>
vendor == <<tool, cache, stamp, beside, strays>>

(* config_paths, by what they hold of an identity: the OAuth object, none  *)
(* of it, the account object.                                              *)
File == {"credentials", "settings", "identity"}

(* A document by the account its switchable member is of, and by the       *)
(* vendor write that made the rest; 0 is a missing file, and 1 is the      *)
(* token of the account's stored pair.                                     *)
Document == [of : Account \cup {Nobody}, stamp : Nat]
Missing == [of |-> Nobody, stamp |-> 0]
Stored(account) == [of |-> account, stamp |-> 1]
Exists(document) == document.stamp # 0

Disk == [live : [File -> Document], journal : Nat]

Pc == {"idle", "journal", "check", "load", "capture", "note",
       "credentials", "identity", "verify", "commit", "restore"}
Idle == [pc |-> "idle", target |-> Nobody, backup |-> 0, stamp |-> 0,
         todo |-> {}, why |-> "recover"]
NoCache == [file |-> "none", of |-> Nobody]

(* target: of a switch, Nobody for a listing; stamp: of the identity file  *)
(* as loaded; todo: the files a restore has still to put back.  A journal  *)
(* and a command name backups that exist.                                  *)
TypeOK ==
  /\ backups \in Seq([File -> Document])
  /\ disk \in Disk /\ survivors \in SUBSET Disk /\ disk \in survivors
  /\ \A image \in survivors : image.journal \in 0..Len(backups)
  /\ op \in [pc : Pc, target : Account \cup {Nobody}, backup : 0..Len(backups),
             stamp : Nat, todo : SUBSET File, why : {"recover", "abort"}]
  /\ answer \in {"none", "ok", "error"}
  /\ tool \in BOOLEAN
  /\ cache \in {NoCache} \cup [file : File, of : Account \cup {Nobody}]
  /\ stamp \in Nat /\ crashes \in Nat
  /\ beside \in BOOLEAN /\ strays \in SUBSET Nat

(* Signed in or out, with or without settings; a pair is of one account.   *)
Init ==
  /\ \E a \in Account, credentials, settings, identity \in BOOLEAN :
       disk = [live |->
         [f \in File |->
            CASE f = "credentials" -> IF credentials THEN [of |-> a, stamp |-> 2] ELSE Missing
              [] f = "settings" -> IF settings THEN [of |-> Nobody, stamp |-> 2] ELSE Missing
              [] OTHER -> IF identity THEN [of |-> a, stamp |-> 2] ELSE Missing],
         journal |-> 0]
  /\ survivors = {disk} /\ backups = <<>>
  /\ op = Idle /\ answer = "none"
  /\ tool = FALSE /\ cache = NoCache /\ stamp = 2 /\ crashes = 0
  /\ beside = FALSE /\ strays = {}

-----------------------------------------------------------------------------
(***************************************************************************)
(* Files.                                                                  *)
(***************************************************************************)
Put(file, document) == [disk EXCEPT !.live[file] = document]
Noted(backup) == [disk EXCEPT !.journal = backup]

(* replace_with: temporary file, rename, sync of the directory.            *)
Synced(image) == disk' = image /\ survivors' = {image}

(* A rename whose sync has failed, or a removal.                           *)
Unsynced(image) == disk' = image /\ survivors' = survivors \cup {image}

(* What a failed replacement leaves: nothing, or the new file.             *)
Botched(image) == UNCHANGED <<disk, survivors>> \/ Unsynced(image)

GoesTo(pc) == op' = [op EXCEPT !.pc = pc] /\ UNCHANGED answer

Answers(result) ==
  /\ op' = Idle
  /\ answer' = IF op.target = Nobody THEN answer ELSE result

-----------------------------------------------------------------------------
(***************************************************************************)
(* recover_crashed_switch: the first thing a switch and a listing do.      *)
(***************************************************************************)
StartSwitch(account) ==
  /\ op.pc = "idle"
  /\ op' = [Idle EXCEPT !.pc = "journal", !.target = account]
  /\ answer' = "none"
  /\ UNCHANGED <<store, vendor, crashes>>

StartList ==
  /\ op.pc = "idle"
  /\ op' = [Idle EXCEPT !.pc = "journal"]
  /\ UNCHANGED <<answer, store, vendor, crashes>>

(* After recovery a listing is done; a switch goes on.                     *)
Recovered ==
  IF op.target = Nobody THEN Answers("ok")
  ELSE op' = [Idle EXCEPT !.pc = "check", !.target = op.target] /\ UNCHANGED answer

NoJournal ==
  /\ op.pc = "journal" /\ disk.journal = 0
  /\ Recovered
  /\ UNCHANGED <<store, vendor, crashes>>

Restoring(why, backup) ==
  /\ op' = [op EXCEPT !.pc = "restore", !.why = why, !.backup = backup, !.todo = File]
  /\ UNCHANGED answer

(* Mutant: only a switch recovers, a listing passes the journal over.      *)
FindJournalForSwitch ==
  /\ op.pc = "journal" /\ disk.journal # 0
  /\ IF op.target = Nobody THEN Answers("ok")
     ELSE Restoring("recover", disk.journal)
  /\ UNCHANGED <<store, vendor, crashes>>

FindJournal ==
  /\ op.pc = "journal" /\ disk.journal # 0
  /\ Restoring("recover", disk.journal)
  /\ UNCHANGED <<store, vendor, crashes>>

(* An unreadable journal, stored pair, live file or process table, or a    *)
(* snapshot that fails and takes its directory back.                       *)
Fails ==
  /\ op.pc \in {"journal", "check", "load", "capture"}
  /\ Answers("error")
  /\ UNCHANGED <<store, vendor, crashes>>

-----------------------------------------------------------------------------
(***************************************************************************)
(* activate_account.                                                       *)
(***************************************************************************)
CheckTool ==
  /\ op.pc = "check"
  /\ IF tool THEN Answers("error") ELSE GoesTo("load")
  /\ UNCHANGED <<store, vendor, crashes>>

(* A missing identity file is refused, missing credentials are not.        *)
Load ==
  /\ op.pc = "load"
  /\ IF Exists(disk.live["identity"])
     THEN /\ op' = [op EXCEPT !.pc = "capture", !.stamp = disk.live["identity"].stamp]
          /\ UNCHANGED answer
     ELSE Answers("error")
  /\ UNCHANGED <<store, vendor, crashes>>

(* Mutant: the last backup is taken for this one.                          *)
SnapshotOnce ==
  /\ op.pc = "capture" /\ Len(backups) < MaxBackups
  /\ backups' = IF backups = <<>> THEN <<disk.live>> ELSE backups
  /\ op' = [op EXCEPT !.pc = "note", !.backup = Len(backups')]
  /\ UNCHANGED <<disk, survivors, answer, vendor, crashes>>

(* BackupStore::snapshot: the manifest, written last, makes it a backup.   *)
Snapshot ==
  /\ op.pc = "capture" /\ Len(backups) < MaxBackups
  /\ backups' = Append(backups, disk.live)
  /\ op' = [op EXCEPT !.pc = "note", !.backup = Len(backups) + 1]
  /\ UNCHANGED <<disk, survivors, answer, vendor, crashes>>

(* Mutant: the switch goes on without a journal.                           *)
WriteJournalNever ==
  /\ op.pc = "note"
  /\ GoesTo("credentials")
  /\ UNCHANGED <<store, vendor, crashes>>

WriteJournal ==
  /\ op.pc = "note"
  /\ Synced(Noted(op.backup))
  /\ GoesTo("credentials")
  /\ UNCHANGED <<backups, vendor, crashes>>

(* The journal may exist all the same; removing it is tried once.          *)
JournalFails ==
  /\ op.pc = "note"
  /\ \/ Botched(Noted(op.backup))
     \/ disk' = disk /\ survivors' = survivors \cup {Noted(op.backup)}
  /\ Answers("error")
  /\ UNCHANGED <<backups, vendor, crashes>>

(* What the switch writes: the stored token; the stored account over the   *)
(* rest of the live identity file.                                         *)
NextCredentials == Put("credentials", Stored(op.target))
NextIdentity == Put("identity", [of |-> op.target, stamp |-> op.stamp])

WriteCredentials ==
  /\ op.pc = "credentials"
  /\ Synced(NextCredentials)
  /\ GoesTo("identity")
  /\ UNCHANGED <<backups, vendor, crashes>>

WriteIdentity ==
  /\ op.pc = "identity"
  /\ Synced(NextIdentity)
  /\ GoesTo("verify")
  /\ UNCHANGED <<backups, vendor, crashes>>

Abort == Restoring("abort", op.backup)

WriteFails ==
  /\ \/ op.pc = "credentials" /\ Botched(NextCredentials)
     \/ op.pc = "identity" /\ Botched(NextIdentity)
  /\ Abort
  /\ UNCHANGED <<backups, vendor, crashes>>

(* Both files are read back; a read may fail.                              *)
Verify ==
  /\ op.pc = "verify"
  /\ \/ disk = NextCredentials /\ disk = NextIdentity /\ GoesTo("commit")
     \/ Abort
  /\ UNCHANGED <<store, vendor, crashes>>

(* clear_journal at the end of a switch: the commit point.                 *)
Commit ==
  /\ op.pc = "commit"
  /\ Unsynced(Noted(0))
  /\ Answers("ok")
  /\ UNCHANGED <<backups, vendor, crashes>>

CommitFails ==
  /\ op.pc = "commit"
  /\ Abort
  /\ UNCHANGED <<store, vendor, crashes>>

-----------------------------------------------------------------------------
(***************************************************************************)
(* BackupStore::restore, then clear_journal.                               *)
(***************************************************************************)
Rank(file) == CASE file = "credentials" -> 1 [] file = "settings" -> 2 [] OTHER -> 3

(* Files that existed are put back in path order, then the others go.      *)
Precedes(backup, f, g) ==
  \/ Exists(backup[f]) /\ ~Exists(backup[g])
  \/ (Exists(backup[f]) <=> Exists(backup[g])) /\ Rank(f) < Rank(g)

IsNext(f) ==
  /\ op.pc = "restore" /\ f \in op.todo
  /\ \A g \in op.todo \ {f} : Precedes(backups[op.backup], f, g)

Former(f) == Put(f, backups[op.backup][f])

RestoreFile(f) ==
  /\ IsNext(f)
  /\ IF Exists(backups[op.backup][f]) THEN Synced(Former(f)) ELSE Unsynced(Former(f))
  /\ op' = [op EXCEPT !.todo = @ \ {f}]
  /\ UNCHANGED <<backups, answer, vendor, crashes>>

(* A restore, or the removal after it, fails: the journal stays.           *)
RestoreFails ==
  /\ op.pc = "restore"
  /\ \/ UNCHANGED <<disk, survivors>>
     \/ \E f \in File : IsNext(f) /\ Unsynced(Former(f))
  /\ Answers("error")
  /\ UNCHANGED <<backups, vendor, crashes>>

(* Mutant: an aborted switch answers like a completed one.                 *)
ClearJournalAnswersOk ==
  /\ op.pc = "restore" /\ op.todo = {}
  /\ Unsynced(Noted(0))
  /\ IF op.why = "abort" THEN Answers("ok") ELSE Recovered
  /\ UNCHANGED <<backups, vendor, crashes>>

ClearJournal ==
  /\ op.pc = "restore" /\ op.todo = {}
  /\ Unsynced(Noted(0))
  /\ IF op.why = "abort" THEN Answers("error") ELSE Recovered
  /\ UNCHANGED <<backups, vendor, crashes>>

-----------------------------------------------------------------------------
(***************************************************************************)
(* The vendor tool: it reads a document under its own lock and writes it   *)
(* back with a new token or new settings.  It starts between commands, a   *)
(* journal left by an interruption or not; a start inside a command is the *)
(* residual race the documentation names.                                  *)
(***************************************************************************)
ToolStarts ==
  /\ ~tool /\ op.pc = "idle"
  /\ tool' = TRUE
  /\ beside' = IF disk.journal = 0 THEN beside ELSE TRUE
  /\ UNCHANGED <<store, op, answer, cache, stamp, strays, crashes>>

ToolReads(f) ==
  /\ tool /\ cache = NoCache /\ stamp < MaxStamp
  /\ Exists(disk.live[f])
  /\ cache' = [file |-> f, of |-> disk.live[f].of]
  /\ UNCHANGED <<store, op, answer, tool, stamp, beside, strays, crashes>>

ToolWrites ==
  /\ cache # NoCache
  /\ LET image == Put(cache.file, [of |-> cache.of, stamp |-> stamp + 1])
     IN Synced(image) \/ Unsynced(image)
  /\ stamp' = stamp + 1 /\ cache' = NoCache
  /\ strays' = IF disk.journal # 0 THEN strays \cup {stamp + 1} ELSE strays
  /\ UNCHANGED <<backups, op, answer, tool, beside, crashes>>

ToolExits ==
  /\ tool
  /\ tool' = FALSE /\ cache' = NoCache
  /\ UNCHANGED <<store, op, answer, stamp, beside, strays, crashes>>

-----------------------------------------------------------------------------
Dies == op' = Idle /\ answer' = "none" /\ crashes' = crashes + 1

Crash ==
  /\ crashes < MaxCrashes
  /\ Dies
  /\ UNCHANGED <<store, vendor>>

PowerFails ==
  /\ PowerMayFail /\ crashes < MaxCrashes
  /\ disk' \in survivors /\ survivors' = {disk'}
  /\ Dies
  /\ tool' = FALSE /\ cache' = NoCache
  /\ UNCHANGED <<backups, stamp, beside, strays>>

Step ==
  \/ NoJournal \/ FindJournal \/ Fails \/ CheckTool \/ Load \/ Snapshot
  \/ WriteJournal \/ JournalFails \/ WriteCredentials \/ WriteIdentity
  \/ WriteFails \/ Verify \/ Commit \/ CommitFails
  \/ (\E f \in File : RestoreFile(f)) \/ RestoreFails \/ ClearJournal

Next ==
  \/ \E a \in Account : StartSwitch(a)
  \/ StartList \/ Step
  \/ ToolStarts \/ (\E f \in File : ToolReads(f)) \/ ToolWrites \/ ToolExits
  \/ Crash \/ PowerFails

Spec == Init /\ [][Next]_vars

-----------------------------------------------------------------------------
(***************************************************************************)
(* Properties.                                                             *)
(***************************************************************************)
Whole(live) ==
  \/ ~Exists(live["credentials"]) \/ ~Exists(live["identity"])
  \/ live["credentials"].of = live["identity"].of

(* However a switch, an abort or a recovery is cut short, by an error, a   *)
(* crash or a power loss: a pair of two different accounts is never on     *)
(* disk without a journal, and the journal names a backup of a whole pair. *)
NeverHalfApplied ==
  \A image \in survivors :
    IF image.journal = 0 THEN Whole(image.live)
    ELSE image.journal \in DOMAIN backups /\ Whole(backups[image.journal])

(* So it is as long as nobody starts the tool while a journal exists.      *)
HalfAppliedIsJournaled == ~beside => NeverHalfApplied

(* What the vendor has written to a file is in a backup when the manager   *)
(* replaces the file, in a switch, an abort or a recovery, whatever runs   *)
(* beside it -- except what was written while a journal existed: recovery  *)
(* replaces that unsaved, though docs/SPEC.md says of every write to a     *)
(* provider's configuration that a backup comes first.                     *)
BackedUp(f) ==
  \/ disk.live[f].stamp \in {0, 1}
  \/ \E i \in DOMAIN backups : backups[i][f].stamp = disk.live[f].stamp

ManagerWrites(f) ==
  /\ op' # op /\ crashes' = crashes
  /\ disk'.live[f] # disk.live[f]

ReplacedIsBackedUp ==
  [][\A f \in File :
       ManagerWrites(f) => BackedUp(f) \/ disk.live[f].stamp \in strays]_vars

(* A switch and its abort replace no file of a tool that is running; only  *)
(* a recovery, which does not ask, may.                                    *)
NoWriteUnderTool ==
  [][\A f \in File : ManagerWrites(f) =>
       ~tool \/ (op.pc = "restore" /\ op.why = "recover")]_vars

(* The pair that is in force once recovery has run changes only at the     *)
(* removal of the journal that answers "ok"; a power loss may bring that   *)
(* journal back, but none before it: see PairPromise.  So it is until      *)
(* somebody starts the tool while a journal exists.                        *)
OwnersOf(live) == <<live["credentials"].of, live["identity"].of>>

Effective(image) ==
  IF image.journal = 0 THEN OwnersOf(image.live)
  ELSE OwnersOf(backups[image.journal])

Promise == INSTANCE PairPromise WITH
  active <- Effective(disk),
  durable <- {Effective(image) : image \in survivors},
  asked <- op.target

SwitchIsAtomic ==
  Promise!Init /\ [][Promise!Next \/ beside']_(Promise!promise)

(* Fair: the thread that runs a command, and a user who goes on listing.   *)
(* No fault recurs for ever at the same step of a recovery.                *)
Fairness ==
  /\ WF_vars(StartList) /\ WF_vars(Step)
  /\ SF_vars(FindJournal) /\ SF_vars(ClearJournal)
  /\ \A f \in File : SF_vars(RestoreFile(f))

FairSpec == Spec /\ Fairness

(* An interrupted switch does not stay interrupted: listing is enough to   *)
(* have it undone, and no error on the way gives the recovery up.          *)
InterruptedIsRecovered == disk.journal # 0 ~> disk.journal = 0
=============================================================================
