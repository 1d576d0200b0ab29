---------------------------- MODULE ManagedSlots ----------------------------
(***************************************************************************)
(* Per-account directories ("managed slots") of the Codex and Claude Code  *)
(* adapters.  An add prepares a directory, runs the vendor's own sign-in   *)
(* in it as a child process, and checks what the child left; a failed add  *)
(* removes the directory; a deletion removes it; a listing compares every  *)
(* slot with the vendor's live files.  A switch moves a slot's files into  *)
(* the vendor's home: one file for Codex; two for Claude Code, one after   *)
(* the other under a journal, from which the next switch or listing puts   *)
(* an interrupted one back.  ClaudeSwitch has that switch with power       *)
(* losses and a tool that writes back what it has read before; here the    *)
(* process may end, and the tool reads and writes in one step.             *)
(*                                                                         *)
(* Adds run on worker threads.  Nothing is assumed of the interface's      *)
(* mutation gate: a reloaded webview may ask for anything at any time.     *)
(* Deletions, switches and listings are synchronous commands: one at a     *)
(* time on the main thread.  A sign-in child may outlive the application.  *)
(***************************************************************************)
EXTENDS Naturals, FiniteSets

CONSTANTS Account,       \* safe account ids
          Worker,        \* threads an add may run on
          Login,         \* sign-in child processes
          Credential,    \* what a sign-in may obtain; an API key gives the
                         \* same document every time
          None, Torn,    \* no such file; a file that is not a JSON object
          NoAccount, NoLogin, NoCredential,
          MaxCrashes     \* bound

ASSUME Bounds == MaxCrashes \in Nat
ASSUME Absences ==
  /\ NoAccount \notin Account /\ NoLogin \notin Login
  /\ NoCredential \notin Credential
  /\ None # Torn
  /\ {None, Torn} \cap Credential = {}

VARIABLES adapter,   \* "codex-cli" or "claude-code"
          slot,      \* managed directories
          add,       \* adds in progress, by worker
          login,     \* sign-in children
          live,      \* the vendor tool's own files
          tool,      \* whether the vendor tool runs
          journal,   \* the journal of the Claude Code switch
          main,      \* the switch or recovery the main thread is in
          promised,  \* history: accounts whose add answered ok, not deleted
          shared,    \* history: accounts added over a directory in use
          beside,    \* history: Claude Code started beside a switch or a journal
          crashes

slots == <<slot, add, login, promised, shared>>
home == <<live, tool, journal, main, beside>>
vars == <<adapter, slots, home, crashes>>

Content == {None, Torn} \cup Credential

(* auth.json of Codex is "credentials"; Claude Code has a pair.            *)
File == {"credentials", "identity"}
FilesOf(kind) == IF kind = "codex-cli" THEN {"credentials"} ELSE File
Files == FilesOf(adapter)

Contents == [File -> Content]
NoFiles == [f \in File |-> None]
Held(files) == {f \in File : files[f] # None}

Slot == [dir : BOOLEAN, file : Contents]
NoSlot == [dir |-> FALSE, file |-> NoFiles]

(* load_account_auth, load_stored_pair: every file is there and is whole.  *)
Usable(files) == \A f \in Files : files[f] \in Credential

Adding == [pc : {"idle", "ready", "login", "check", "cleanup"},
           account : Account \cup {NoAccount}, child : Login \cup {NoLogin}]
NotAdding == [pc |-> "idle", account |-> NoAccount, child |-> NoLogin]

Child == [home : Account \cup {NoAccount}, gets : Credential \cup {NoCredential}]
NotRunning == [home |-> NoAccount, gets |-> NoCredential]

(* backup_id, by the files in that backup.                                 *)
Journal == [pending : BOOLEAN, backup : Contents]
NoJournal == [pending |-> FALSE, backup |-> NoFiles]

(* account: of a switch, NoAccount of a recovery; todo: files still to be  *)
(* written or put back; bytes: what is moved; saved: the backup; stored,   *)
(* raced: history, whether the slot that was read was a stored account,    *)
(* and whether the tool has started since the command looked for it.       *)
Switching == [pc : {"idle", "recover", "load", "snapshot", "note", "write", "verify",
                    "commit", "abort"},
              account : Account \cup {NoAccount}, todo : SUBSET File,
              bytes : Contents, saved : Contents, stored : BOOLEAN, raced : BOOLEAN]
NotSwitching == [pc |-> "idle", account |-> NoAccount, todo |-> {},
                 bytes |-> NoFiles, saved |-> NoFiles, stored |-> FALSE, raced |-> FALSE]

Init ==
  /\ adapter \in {"codex-cli", "claude-code"}
  /\ slot = [a \in Account |-> NoSlot]
  /\ add = [w \in Worker |-> NotAdding]
  /\ login = [c \in Login |-> NotRunning]
  /\ live = NoFiles /\ tool = FALSE /\ journal = NoJournal /\ main = NotSwitching
  /\ promised = {} /\ shared = {} /\ beside = FALSE /\ crashes = 0

-----------------------------------------------------------------------------
(* Adding an account.                                                      *)

(* An add, or a sign-in child whose add is gone, works in this directory.  *)
InUse(a) == \/ \E w \in Worker : add[w].account = a
            \/ \E c \in Login : login[c].home = a

(* Only the first of the files is looked for.                              *)
AbandonedByCredentials(a) == slot[a].file["credentials"] = None

(* prepare_managed_dir: a directory without any of the vendor's files is   *)
(* taken for an abandoned add.                                             *)
Abandoned(a) == Held(slot[a].file) \cap Files = {}

BeginAdd(w, a) ==
  /\ add[w].pc = "idle"
  /\ ~slot[a].dir \/ Abandoned(a)
  /\ slot' = [slot EXCEPT ![a].dir = TRUE]
  /\ add' = [add EXCEPT ![w] = [pc |-> "ready", account |-> a, child |-> NoLogin]]
  /\ shared' = IF InUse(a) THEN shared \cup {a} ELSE shared
  /\ UNCHANGED <<adapter, login, promised, home, crashes>>

(* The worker goes on with the add it is in.                               *)
Goes(w, pc, child) ==
  [add EXCEPT ![w] = [pc |-> pc, account |-> add[w].account, child |-> child]]

(* run_vendor_login: the worker waits for the child it has started.        *)
StartLogin(w, c, credential) ==
  /\ add[w].pc = "ready" /\ login[c] = NotRunning
  /\ login' = [login EXCEPT ![c] = [home |-> add[w].account, gets |-> credential]]
  /\ add' = Goes(w, "login", c)
  /\ UNCHANGED <<adapter, slot, promised, shared, home, crashes>>

LoginNotStarted(w) ==
  /\ add[w].pc = "ready"
  /\ add' = Goes(w, "cleanup", NoLogin)
  /\ UNCHANGED <<adapter, slot, login, promised, shared, home, crashes>>

(* The vendor's sign-in writes its files one by one, in any order and not  *)
(* atomically; it may make its home directory again.                       *)
LoginWrites(c, f, content) ==
  LET a == login[c].home IN
  /\ a # NoAccount /\ f \in Files
  /\ content \in {Torn, login[c].gets}
  /\ slot' = [slot EXCEPT ![a] = [dir |-> TRUE, file |-> [@.file EXCEPT ![f] = content]]]
  /\ UNCHANGED <<adapter, add, login, promised, shared, home, crashes>>

(* It exits with a status of its own choosing, whatever it has written.    *)
LoginExits(c, success) ==
  /\ login[c].home # NoAccount
  /\ login' = [login EXCEPT ![c] = NotRunning]
  /\ add' = [w \in Worker |->
       IF add[w].pc = "login" /\ add[w].child = c
       THEN [pc |-> IF success THEN "check" ELSE "cleanup",
             account |-> add[w].account, child |-> NoLogin]
       ELSE add[w]]
  /\ UNCHANGED <<adapter, slot, promised, shared, home, crashes>>

(* What the sign-in left is believed without a look.                       *)
AddDoneUnchecked(w) ==
  /\ add[w].pc = "check"
  /\ promised' = promised \cup {add[w].account}
  /\ add' = [add EXCEPT ![w] = NotAdding]
  /\ UNCHANGED <<adapter, slot, login, shared, home, crashes>>

(* require_auth_json, require_managed_identity: the add answers ok.        *)
AddDone(w) ==
  /\ add[w].pc = "check" /\ Usable(slot[add[w].account].file)
  /\ promised' = promised \cup {add[w].account}
  /\ add' = [add EXCEPT ![w] = NotAdding]
  /\ UNCHANGED <<adapter, slot, login, shared, home, crashes>>

AddUnfit(w) ==
  /\ add[w].pc = "check" /\ ~Usable(slot[add[w].account].file)
  /\ add' = Goes(w, "cleanup", NoLogin)
  /\ UNCHANGED <<adapter, slot, login, promised, shared, home, crashes>>

(* remove_dir_all: everything goes, or an error stops it half-way.         *)
Removed(s, left) ==
  [dir |-> s.dir /\ left # {"gone"},
   file |-> [f \in File |-> IF f \in left THEN s.file[f] ELSE None]]
Leftovers == SUBSET File \cup {{"gone"}}

(* cleanup_failed_add                                                      *)
Cleanup(w, left) ==
  LET a == add[w].account IN
  /\ add[w].pc = "cleanup"
  /\ slot' = [slot EXCEPT ![a] = Removed(@, left)]
  /\ add' = [add EXCEPT ![w] = NotAdding]
  /\ UNCHANGED <<adapter, login, promised, shared, home, crashes>>

-----------------------------------------------------------------------------
(* Deleting an account: the live files are never consulted.                *)

DeleteAccount(a, left) ==
  /\ main.pc = "idle" /\ slot[a].dir
  /\ slot' = [slot EXCEPT ![a] = Removed(@, left)]
  /\ promised' = promised \ {a}
  /\ UNCHANGED <<adapter, add, login, shared, home, crashes>>

-----------------------------------------------------------------------------
(* Switching: activate_account.                                            *)

(* recover_crashed_switch, which a switch and a listing of Claude Code     *)
(* begin with.                                                             *)
StartRecovery ==
  /\ main.pc = "idle" /\ journal.pending
  /\ main' = [NotSwitching EXCEPT !.pc = "recover", !.todo = Files]
  /\ UNCHANGED <<adapter, slots, live, tool, journal, beside, crashes>>

(* An interrupted switch has been put back, or the command has ended.      *)
(* Nothing is done while the vendor tool runs, or when nobody can tell.    *)
StartSwitch(a) ==
  /\ main.pc = "idle" /\ slot[a].dir /\ ~journal.pending /\ ~tool
  /\ main' = [NotSwitching EXCEPT !.pc = "load", !.account = a]
  /\ UNCHANGED <<adapter, slots, live, tool, journal, beside, crashes>>

(* A switch stops before it has written anything: the stored or the live   *)
(* files are missing or damaged, or the snapshot fails.                    *)
Refuses ==
  /\ main.pc \in {"load", "snapshot"}
  /\ main' = NotSwitching
  /\ UNCHANGED <<adapter, slots, live, tool, journal, beside, crashes>>

(* load_account_auth; load_stored_pair, whose two reads are one step, and  *)
(* load_live_for_switch, which wants an identity document to change.       *)
Load ==
  /\ main.pc = "load" /\ Usable(slot[main.account].file)
  /\ adapter = "claude-code" => live["identity"] \in Credential /\ live["credentials"] # Torn
  /\ main' = [main EXCEPT !.pc = "snapshot", !.bytes = slot[main.account].file,
                          !.stored = main.account \in promised \ shared]
  /\ UNCHANGED <<adapter, slots, live, tool, journal, beside, crashes>>

Snapshotted(saved) ==
  IF adapter = "claude-code" THEN [main EXCEPT !.pc = "note", !.saved = saved]
  ELSE [main EXCEPT !.pc = "write", !.saved = saved, !.todo = Files]

(* Mutant of SnapshotTaken: nothing is in the backup.                      *)
SnapshotEmpty ==
  /\ main.pc = "snapshot"
  /\ main' = Snapshotted(NoFiles)
  /\ UNCHANGED <<adapter, slots, live, tool, journal, beside, crashes>>

SnapshotTaken ==
  /\ main.pc = "snapshot"
  /\ main' = Snapshotted(live)
  /\ UNCHANGED <<adapter, slots, live, tool, journal, beside, crashes>>

(* An error may leave the journal behind.                                  *)
WriteJournal(written, reported) ==
  /\ main.pc = "note" /\ (reported => written)
  /\ journal' = IF written THEN [pending |-> TRUE, backup |-> main.saved] ELSE journal
  /\ main' = IF reported THEN [main EXCEPT !.pc = "write", !.todo = Files]
             ELSE NotSwitching
  /\ UNCHANGED <<adapter, slots, live, tool, beside, crashes>>

Abort == [main EXCEPT !.pc = "abort", !.todo = Files, !.stored = FALSE]

(* The credentials are written first.                                      *)
WritesNext(f) == f \in main.todo /\ (f = "identity" => "credentials" \notin main.todo)
Moved(f) == [live EXCEPT ![f] = main.bytes[f]]

(* Mutant of WriteLive: an error is taken for a write that did not happen. *)
WriteLiveTrusting(f, replaced, reported) ==
  /\ main.pc = "write" /\ WritesNext(f) /\ (reported => replaced)
  /\ live' = IF replaced THEN Moved(f) ELSE live
  /\ main' = IF reported
             THEN [main EXCEPT !.todo = @ \ {f},
                               !.pc = IF main.todo = {f} THEN "verify" ELSE "write"]
             ELSE NotSwitching
  /\ UNCHANGED <<adapter, slots, tool, journal, beside, crashes>>

(* write_atomic: replaced or not, and an error even when it was replaced.  *)
WriteLive(f, replaced, reported) ==
  /\ main.pc = "write" /\ WritesNext(f) /\ (reported => replaced)
  /\ live' = IF replaced THEN Moved(f) ELSE live
  /\ main' = IF reported
             THEN [main EXCEPT !.todo = @ \ {f},
                               !.pc = IF main.todo = {f} THEN "verify" ELSE "write"]
             ELSE Abort
  /\ UNCHANGED <<adapter, slots, tool, journal, beside, crashes>>

(* verify_live_auth, verify_json_object: a Codex switch is done.           *)
Verify(readable) ==
  /\ main.pc = "verify"
  /\ main' = IF ~readable \/ (\E f \in Files : live[f] # main.bytes[f]) THEN Abort
             ELSE IF adapter = "claude-code" THEN [main EXCEPT !.pc = "commit"]
             ELSE NotSwitching
  /\ UNCHANGED <<adapter, slots, live, tool, journal, beside, crashes>>

(* Mutant of Commit: whether the journal has gone is not asked.            *)
CommitUnchecked(removed) ==
  /\ main.pc = "commit"
  /\ journal' = IF removed THEN NoJournal ELSE journal
  /\ main' = NotSwitching
  /\ UNCHANGED <<adapter, slots, live, tool, beside, crashes>>

(* clear_journal: a Claude Code switch is done.                            *)
Commit(removed) ==
  /\ main.pc = "commit"
  /\ journal' = IF removed THEN NoJournal ELSE journal
  /\ main' = IF removed THEN NotSwitching ELSE Abort
  /\ UNCHANGED <<adapter, slots, live, tool, beside, crashes>>

(* BackupStore::restore, of recover and of abort_switch: files that        *)
(* existed are put back first.                                             *)
Restoring == main.pc \in {"recover", "abort"}
Backup == IF main.pc = "recover" THEN journal.backup ELSE main.saved
RestoresNext(f) ==
  /\ f \in main.todo
  /\ \A g \in main.todo \ {f} :
       /\ Backup[f] # None \/ Backup[g] = None
       /\ f = "identity" => Backup[g] = None /\ Backup[f] # None
PutBack(f) == [live EXCEPT ![f] = Backup[f]]

RestoreFile(f) ==
  /\ Restoring /\ RestoresNext(f)
  /\ live' = PutBack(f)
  /\ main' = [main EXCEPT !.todo = @ \ {f}]
  /\ UNCHANGED <<adapter, slots, tool, journal, beside, crashes>>

(* Mutant of RestoreFails: the journal of a failed restore is removed.     *)
RestoreFailsForgotten ==
  /\ Restoring /\ main.todo # {}
  /\ live' = live \/ (\E f \in File : RestoresNext(f) /\ live' = PutBack(f))
  /\ main' = NotSwitching
  /\ journal' = NoJournal
  /\ UNCHANGED <<adapter, slots, tool, beside, crashes>>

(* "restore of the previous account also failed", before or after a file   *)
(* was put back.  The journal stays.                                       *)
RestoreFails ==
  /\ Restoring /\ main.todo # {}
  /\ live' = live \/ (\E f \in File : RestoresNext(f) /\ live' = PutBack(f))
  /\ main' = NotSwitching
  /\ UNCHANGED <<adapter, slots, tool, journal, beside, crashes>>

(* clear_journal after a restore: "the previous account is still active",  *)
(* or "the switch journal remains".                                        *)
Restored(removed) ==
  /\ Restoring /\ main.todo = {}
  /\ journal' = IF removed THEN NoJournal ELSE journal
  /\ main' = NotSwitching
  /\ UNCHANGED <<adapter, slots, live, tool, beside, crashes>>

-----------------------------------------------------------------------------
(* The vendor tool and the application's end.                              *)

(* A command in progress has passed its own look at the process table.     *)
Looked == main.pc \notin {"idle", "recover"}

ToolStarts ==
  /\ ~tool /\ tool' = TRUE
  /\ main' = IF Looked THEN [main EXCEPT !.raced = TRUE] ELSE main
  /\ beside' = (beside \/ (adapter = "claude-code" /\ (Looked \/ journal.pending)))
  /\ UNCHANGED <<adapter, slots, live, journal, crashes>>

ToolStops ==
  /\ tool /\ tool' = FALSE
  /\ UNCHANGED <<adapter, slots, live, journal, main, beside, crashes>>

(* The user signs in with it.                                              *)
ToolSignsIn(credential) ==
  /\ tool
  /\ live' = [f \in File |-> IF f \in Files THEN credential ELSE None]
  /\ UNCHANGED <<adapter, slots, tool, journal, main, beside, crashes>>

(* The application ends; any of the sign-in children may live on.          *)
Crash(orphans) ==
  /\ crashes < MaxCrashes /\ crashes' = crashes + 1
  /\ add' = [w \in Worker |-> NotAdding]
  /\ login' = [c \in Login |-> IF c \in orphans THEN login[c] ELSE NotRunning]
  /\ main' = NotSwitching
  /\ UNCHANGED <<adapter, slot, live, tool, journal, promised, shared, beside>>

AddStep(w) ==
  \/ \E a \in Account : BeginAdd(w, a)
  \/ \E c \in Login, credential \in Credential : StartLogin(w, c, credential)
  \/ LoginNotStarted(w) \/ AddDone(w) \/ AddUnfit(w)
  \/ \E left \in Leftovers : Cleanup(w, left)

LoginStep(c) ==
  \/ \E f \in File, content \in Content : LoginWrites(c, f, content)
  \/ \E success \in BOOLEAN : LoginExits(c, success)

SwitchStep ==
  \/ \E a \in Account : StartSwitch(a)
  \/ StartRecovery \/ Refuses \/ Load \/ SnapshotTaken
  \/ \E written, reported \in BOOLEAN : WriteJournal(written, reported)
  \/ \E f \in File, replaced, reported \in BOOLEAN : WriteLive(f, replaced, reported)
  \/ \E readable \in BOOLEAN : Verify(readable)
  \/ \E removed \in BOOLEAN : Commit(removed)
  \/ (\E f \in File : RestoreFile(f)) \/ RestoreFails
  \/ \E removed \in BOOLEAN : Restored(removed)

ToolStep ==
  ToolStarts \/ ToolStops
    \/ \E credential \in Credential : ToolSignsIn(credential)

Next ==
  \/ \E w \in Worker : AddStep(w)
  \/ \E c \in Login : LoginStep(c)
  \/ \E a \in Account, left \in Leftovers : DeleteAccount(a, left)
  \/ SwitchStep \/ ToolStep
  \/ \E orphans \in SUBSET Login : Crash(orphans)

Spec == Init /\ [][Next]_vars

-----------------------------------------------------------------------------
(* What a listing shows.                                                   *)

(* managed_slots.  Codex passes over a slot whose document is damaged.     *)
Listed ==
  {a \in Account : slot[a].dir
     /\ (adapter = "codex-cli" => slot[a].file["credentials"] # Torn)}

(* A directory that is not listed as usable is listed as incomplete.       *)
ListedUsable == {a \in Listed : Usable(slot[a].file)}

(* live_slot: the credentials are a JSON object.                           *)
LiveReadable == live["credentials"] \in Credential

(* Byte for byte for Codex; both members of the pair for Claude Code.      *)
Matching == {a \in ListedUsable : LiveReadable /\ \A f \in Files : live[f] = slot[a].file[f]}

-----------------------------------------------------------------------------
TypeOK ==
  /\ adapter \in {"codex-cli", "claude-code"}
  /\ slot \in [Account -> Slot]
  /\ add \in [Worker -> Adding]
  /\ login \in [Login -> Child]
  /\ \A w \in Worker : /\ add[w].pc = "idle" <=> add[w].account = NoAccount
                       /\ add[w].pc = "login" <=> add[w].child # NoLogin
  /\ live \in Contents /\ tool \in BOOLEAN /\ journal \in Journal /\ main \in Switching
  /\ Looked <=> main.account # NoAccount
  /\ promised \subseteq Account /\ shared \subseteq Account /\ beside \in BOOLEAN
  /\ crashes \in 0..MaxCrashes

(* An add that answered ok has stored the account until the user deletes   *)
(* it: no later add, failed add, sign-in child or crash takes it away,     *)
(* unless two adds were let into one directory.                            *)
KeepsStored == \A a \in promised \ shared : Usable(slot[a].file)

(* The files of a stored pair come from one sign-in, however many adds,    *)
(* half-failed deletions and crashes the directory has seen, unless two    *)
(* adds were let into it.                                                  *)
PairOfOneSignIn ==
  \A a \in Account \ shared : \A f, g \in File :
    slot[a].file[f] \in Credential /\ slot[a].file[g] \in Credential
      => slot[a].file[f] = slot[a].file[g]

(* What the vendor tool finds in its home is whole -- although a switch    *)
(* may read a slot in the middle of a sign-in -- and of one account: an    *)
(* error or a crash between the two files of a Claude Code switch leaves a *)
(* journal, and the backup it names is whole.  The exceptions are accounts *)
(* of which two adds shared a directory, and a tool that was started       *)
(* beside a switch or before a recovery: see ClaudeSwitch.                 *)
OneAccount(pair) ==
  pair["credentials"] # None =>
    /\ pair["credentials"] \in Credential /\ pair["identity"] \in Credential
    /\ pair["credentials"] = pair["identity"]

LiveIsWhole ==
  /\ \A f \in File : live[f] # Torn
  /\ adapter = "claude-code" /\ shared = {} /\ ~beside
       => OneAccount(IF journal.pending THEN journal.backup ELSE live)

(* A switch that answers ok stays: the account that was asked for, if it   *)
(* is a stored one, is what the next listing finds live, and no journal is *)
(* left for that listing to undo the switch with.  Adds, failed adds and   *)
(* their sign-ins have gone on in the meantime.                            *)
SwitchedStays ==
  [][main.pc \in {"verify", "commit"} /\ main'.pc = "idle" /\ crashes' = crashes
       /\ main.stored /\ ~main.raced
       => main.account \in Matching' /\ ~journal'.pending]_vars

(* A switch that does not answer ok leaves the live files as the backup    *)
(* has them, or says that the restore failed too; the vendor tool has to   *)
(* stay away while the command runs.                                       *)
RestoreFailed == main.pc = "abort" /\ main.todo # {}

RefusedChangesNothing ==
  [][main.pc \in {"note", "write", "verify", "commit", "abort"} /\ main'.pc = "idle"
       /\ ~main.raced /\ crashes' = crashes
       => \/ live' = main.saved
          \/ main.pc \in {"verify", "commit"} /\ \A f \in Files : live'[f] = main.bytes[f]
          \/ RestoreFailed]_vars

(* A switch replaces no live file that is not in a backup, unless the      *)
(* vendor tool has started after the command looked for it; what a         *)
(* recovery replaces is ClaudeSwitch's question.                           *)
ReplacedIsBackedUp ==
  [][~tool /\ main.pc # "recover" =>
       \A f \in File : live'[f] # live[f]
         => live[f] \in {main.saved[f], main.bytes[f]} \/ main.raced]_vars
=============================================================================
