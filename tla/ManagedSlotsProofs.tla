------------------------- MODULE ManagedSlotsProofs -------------------------
(***************************************************************************)
(* What holds of ManagedSlots for any number of accounts, worker threads,  *)
(* sign-in children and crashes.                                           *)
(***************************************************************************)
EXTENDS ManagedSlots, FiniteSetTheorems, TLAPS

(* A worker that waits for a child waits for one in its own directory.     *)
Waiting ==
  \A w \in Worker : add[w].pc = "login"
    => add[w].child \in Login /\ login[add[w].child].home = add[w].account

(* A directory that was never shared has one user: a worker, its child, or *)
(* a child whose worker is gone.                                           *)
OneUser ==
  \A a \in Account \ shared :
    /\ \A v, w \in Worker : add[v].account = a /\ add[w].account = a => v = w
    /\ \A c, d \in Login : login[c].home = a /\ login[d].home = a => c = d
    /\ \A c \in Login, w \in Worker : login[c].home = a /\ add[w].account = a
         => add[w].pc = "login" /\ add[w].child = c

(* A stored account is usable and nobody works in its directory.           *)
Settled ==
  \A a \in promised \ shared :
    /\ Usable(slot[a].file)
    /\ \A w \in Worker : add[w].account # a
    /\ \A c \in Login : login[c].home # a

(* Only the vendor's files are in a directory, and none where there is no  *)
(* directory.                                                              *)
Homes ==
  \A a \in Account : /\ \A f \in File \ Files : slot[a].file[f] = None
                     /\ ~slot[a].dir => slot[a].file = NoFiles

(* What is in the directory was written by the sign-in that runs there; a  *)
(* sign-in is started in a directory without credentials.                  *)
Written ==
  \A a \in Account \ shared : \A f \in File : slot[a].file[f] \in Credential =>
    /\ \A c \in Login : login[c].home = a => login[c].gets = slot[a].file[f]
    /\ \A w \in Worker : add[w].account = a => add[w].pc # "ready"

(* Where a journal stands, and what it names.                              *)
JournalAt ==
  /\ adapter = "codex-cli" => ~journal.pending /\ main.pc \notin {"note", "commit"}
  /\ main.pc \in {"load", "snapshot", "note"} => ~journal.pending
  /\ main.pc = "recover" => journal.pending
  /\ adapter = "claude-code" /\ main.pc \in {"write", "verify", "commit", "abort"}
       => journal.pending /\ journal.backup = main.saved

(* What is moved was usable when it was read.                              *)
Moves == main.pc \in {"snapshot", "note", "write", "verify", "commit", "abort"}

Undamaged ==
  /\ \A f \in File : live[f] # Torn /\ main.saved[f] # Torn /\ journal.backup[f] # Torn
  /\ Moves => \A f \in Files : main.bytes[f] \in Credential

(* A command that has found no vendor tool is alone unless one has started *)
(* since, and so is whoever finds a journal.                               *)
Alone ==
  /\ Looked /\ ~main.raced => ~tool
  /\ adapter = "claude-code" /\ main.raced => beside
  /\ journal.pending /\ ~beside => ~tool

(* How far the two live files have come.                                   *)
LiveAt ==
  /\ main.todo \subseteq Files
  /\ main.pc \in {"verify", "commit"} => main.todo = {}
  /\ main.pc = "note" /\ ~main.raced => live = main.saved
  /\ main.pc \in {"write", "verify", "commit"} /\ ~main.raced => \A f \in File :
       live[f] = IF f \in Files \ main.todo THEN main.bytes[f] ELSE main.saved[f]
  /\ main.pc = "abort" /\ ~main.raced => \A f \in File :
       live[f] \in {main.saved[f]} \cup (IF f \in main.todo THEN {main.bytes[f]} ELSE {})
  /\ main.pc = "recover" /\ ~beside => \A f \in Files \ main.todo :
       live[f] = journal.backup[f]

(* A pair that is moved is of one account, as are those that are live or   *)
(* in a journal's backup.                                                  *)
Paired ==
  adapter = "claude-code" /\ shared = {} =>
    /\ Moves => main.bytes["credentials"] = main.bytes["identity"]
    /\ ~beside => OneAccount(IF journal.pending THEN journal.backup ELSE live)

(* A stored account whose switch is under way keeps what was read of it.   *)
StoredAt ==
  Moves /\ main.stored =>
    /\ main.account \in promised \ shared
    /\ \A f \in Files : slot[main.account].file[f] = main.bytes[f]

SlotInv == Waiting /\ OneUser /\ Settled /\ Homes /\ Written /\ PairOfOneSignIn
HomeInv == JournalAt /\ Undamaged /\ Alone /\ LiveAt /\ Paired /\ StoredAt
IInv == TypeOK /\ SlotInv /\ HomeInv

-----------------------------------------------------------------------------
(***************************************************************************)
(* Types.                                                                  *)
(***************************************************************************)
SlotsOK ==
  /\ slot \in [Account -> Slot]
  /\ add \in [Worker -> Adding]
  /\ login \in [Login -> Child]
  /\ \A w \in Worker : /\ add[w].pc = "idle" <=> add[w].account = NoAccount
                       /\ add[w].pc = "login" <=> add[w].child # NoLogin
  /\ promised \subseteq Account /\ shared \subseteq Account
HomeOK ==
  /\ live \in Contents /\ tool \in BOOLEAN /\ journal \in Journal /\ main \in Switching
  /\ beside \in BOOLEAN
  /\ Looked <=> main.account # NoAccount

LEMMA TypeParts ==
  TypeOK <=> /\ adapter \in {"codex-cli", "claude-code"}
             /\ SlotsOK /\ HomeOK /\ crashes \in 0..MaxCrashes
BY DEF TypeOK, SlotsOK, HomeOK

LEMMA FilesInFile ==
  ASSUME adapter \in {"codex-cli", "claude-code"}
  PROVE  Files \subseteq File /\ "credentials" \in Files
BY DEF Files, FilesOf, File

LEMMA ContentParts ==
  /\ None \notin Credential /\ Torn \notin Credential /\ None # Torn
  /\ Credential \subseteq Content /\ None \in Content /\ Torn \in Content
BY Absences DEF Content

LEMMA RemovedOK ==
  ASSUME NEW s \in Slot, NEW left \in Leftovers
  PROVE  /\ Removed(s, left) \in Slot
         /\ \A f \in File : Removed(s, left).file[f] \in {None, s.file[f]}
         /\ ~s.dir /\ s.file = NoFiles => Removed(s, left).file = NoFiles
         /\ s.dir /\ ~Removed(s, left).dir => Removed(s, left).file = NoFiles
<1>1. Removed(s, left).file \in [File -> Content]
  BY ContentParts DEF Removed, Slot, Contents
<1>2. \A f \in File : Removed(s, left).file[f] \in {None, s.file[f]}
  BY DEF Removed
<1>3. "gone" \notin File
  BY DEF File
<1>4. ASSUME s.dir, ~Removed(s, left).dir PROVE Removed(s, left).file = NoFiles
  <2>1. left = {"gone"}
    BY <1>4 DEF Removed
  <2> QED
    BY <2>1, <1>3 DEF Removed, NoFiles
<1>5. ASSUME s.file = NoFiles PROVE Removed(s, left).file = NoFiles
  BY <1>5 DEF Removed, NoFiles
<1> QED
  BY <1>1, <1>2, <1>4, <1>5 DEF Removed, Slot, Contents

LEMMA SlotsType ==
  ASSUME TypeOK,
         \/ \E w \in Worker : AddStep(w)
         \/ \E c \in Login : LoginStep(c)
         \/ \E a \in Account, left \in Leftovers : DeleteAccount(a, left)
  PROVE  SlotsOK' /\ UNCHANGED <<adapter, home, crashes>>
<1> USE ContentParts DEF TypeOK, SlotsOK, home
<1>1. ASSUME NEW w \in Worker, NEW a \in Account, BeginAdd(w, a) PROVE SlotsOK'
  BY <1>1, Absences DEF BeginAdd, Adding, Slot
<1>2. ASSUME NEW w \in Worker, NEW c \in Login, NEW credential \in Credential,
             StartLogin(w, c, credential)
      PROVE  SlotsOK'
  <2>1. add[w].account \in Account
    BY <1>2 DEF StartLogin, Adding
  <2>2. login' \in [Login -> Child]
    BY <1>2, <2>1 DEF StartLogin, Child
  <2> QED
    BY <1>2, <2>1, <2>2, Absences DEF StartLogin, Goes, Adding
<1>3. ASSUME NEW w \in Worker, LoginNotStarted(w) PROVE SlotsOK'
  BY <1>3 DEF LoginNotStarted, Goes, Adding
<1>4. ASSUME NEW w \in Worker, AddDone(w) PROVE SlotsOK'
  BY <1>4 DEF AddDone, Adding, NotAdding
<1>5. ASSUME NEW w \in Worker, AddUnfit(w) PROVE SlotsOK'
  BY <1>5 DEF AddUnfit, Goes, Adding
<1>6. ASSUME NEW w \in Worker, NEW left \in Leftovers, Cleanup(w, left) PROVE SlotsOK'
  <2>1. add[w].account \in Account
    BY <1>6 DEF Cleanup, Adding
  <2>2. slot' \in [Account -> Slot]
    BY <1>6, <2>1, RemovedOK DEF Cleanup
  <2> QED
    BY <1>6, <2>2 DEF Cleanup, Adding, NotAdding
<1>7. ASSUME NEW c \in Login, NEW f \in File, NEW content \in Content,
             LoginWrites(c, f, content)
      PROVE  SlotsOK'
  <2>1. login[c].home \in Account /\ login[c].gets \in Credential \cup {NoCredential}
    BY <1>7 DEF LoginWrites, Child
  <2>2. slot' \in [Account -> Slot]
    BY <1>7, <2>1 DEF LoginWrites, Slot, Contents
  <2> QED
    BY <1>7, <2>2 DEF LoginWrites
<1>8. ASSUME NEW c \in Login, NEW success \in BOOLEAN, LoginExits(c, success)
      PROVE  SlotsOK'
  <2>1. login' \in [Login -> Child]
    BY <1>8 DEF LoginExits, NotRunning, Child
  <2>2. \A w \in Worker : add[w] \in Adding
    OBVIOUS
  <2>3. add' \in [Worker -> Adding]
    BY <1>8, <2>2 DEF LoginExits, Adding
  <2> QED
    BY <1>8, <2>1, <2>3 DEF LoginExits, Adding
<1>9. ASSUME NEW a \in Account, NEW left \in Leftovers, DeleteAccount(a, left)
      PROVE  SlotsOK'
  <2>1. slot' \in [Account -> Slot]
    BY <1>9, RemovedOK DEF DeleteAccount
  <2> QED
    BY <1>9, <2>1 DEF DeleteAccount
<1>10. UNCHANGED <<adapter, home, crashes>>
  BY DEF AddStep, LoginStep, BeginAdd, StartLogin, LoginNotStarted, AddDone, AddUnfit,
         Cleanup, LoginWrites, LoginExits, DeleteAccount
<1> QED
  BY <1>1, <1>2, <1>3, <1>4, <1>5, <1>6, <1>7, <1>8, <1>9, <1>10 DEF AddStep, LoginStep

LEMMA HomeType ==
  ASSUME TypeOK, SwitchStep \/ ToolStep
  PROVE  HomeOK' /\ UNCHANGED <<adapter, slots, crashes>>
<1> USE DEF TypeOK, HomeOK, Looked
<1>1. Files \subseteq File /\ Credential \subseteq Content /\ None \in Content
  BY FilesInFile, ContentParts
<1>2. NoFiles \in Contents /\ NoJournal \in Journal
  BY <1>1 DEF NoFiles, Contents, NoJournal, Journal
<1>3. NotSwitching \in Switching
  BY <1>2 DEF NotSwitching, Switching
<1>3a. NotSwitching.pc = "idle" /\ NotSwitching.account = NoAccount
  BY DEF NotSwitching
<1>3b. main' = NotSwitching => main' \in Switching /\ (Looked' <=> main'.account # NoAccount)
  BY <1>3, <1>3a
<1>3c. ASSUME main' = Abort, Looked PROVE main' \in Switching /\ (Looked' <=> main'.account # NoAccount)
  BY <1>1, <1>3c DEF Abort, Switching
<1>4. ASSUME StartRecovery PROVE HomeOK'
  BY <1>1, <1>3, <1>3a, <1>4 DEF StartRecovery, Switching
<1>5. ASSUME NEW a \in Account, StartSwitch(a) PROVE HomeOK'
  BY <1>3, <1>5, Absences DEF StartSwitch, Switching
<1>6. ASSUME Refuses PROVE HomeOK'
  BY <1>3b, <1>6 DEF Refuses
<1>7. ASSUME Load PROVE HomeOK'
  <2>1. main.account \in Account
    BY <1>7 DEF Load, Switching
  <2>2. slot[main.account].file \in Contents
    BY <2>1 DEF Slot
  <2> DEFINE b == main.account \in promised \ shared
  <2>3. /\ b \in BOOLEAN
        /\ main' = [main EXCEPT !.pc = "snapshot", !.bytes = slot[main.account].file,
                                !.stored = b]
    BY <1>7 DEF Load
  <2> HIDE DEF b
  <2>4. main'.pc = "snapshot" /\ main'.account = main.account /\ main' \in Switching
    BY <2>2, <2>3 DEF Switching
  <2> QED
    BY <1>7, <2>1, <2>4, Absences DEF Load
<1>8. ASSUME SnapshotTaken PROVE HomeOK'
  BY <1>1, <1>8 DEF SnapshotTaken, Snapshotted, Switching
<1>9. ASSUME NEW written \in BOOLEAN, NEW reported \in BOOLEAN, WriteJournal(written, reported)
      PROVE  HomeOK'
  <2>1. journal' \in Journal
    BY <1>9 DEF WriteJournal, Journal, Switching
  <2>2. CASE ~reported
    BY <1>9, <1>3b, <2>1, <2>2 DEF WriteJournal
  <2>3. CASE reported
    BY <1>1, <1>9, <2>1, <2>3 DEF WriteJournal, Switching
  <2> QED
    BY <2>2, <2>3
<1>10. Abort \in Switching
  BY <1>1 DEF Abort, Switching
<1>11. ASSUME NEW f \in File PROVE Moved(f) \in Contents /\ (Restoring => PutBack(f) \in Contents)
  BY DEF Moved, PutBack, Backup, Switching, Journal, Contents
<1>12. ASSUME NEW f \in File, NEW replaced \in BOOLEAN, NEW reported \in BOOLEAN,
              WriteLive(f, replaced, reported)
       PROVE  HomeOK'
  <2>1. live' \in Contents
    BY <1>11, <1>12 DEF WriteLive
  <2>2. CASE ~reported
    BY <1>12, <1>3c, <2>1, <2>2 DEF WriteLive
  <2>3. CASE reported
    BY <1>12, <2>1, <2>3 DEF WriteLive, Switching
  <2> QED
    BY <2>2, <2>3
<1>13. ASSUME NEW readable \in BOOLEAN, Verify(readable) PROVE HomeOK'
  <2>1. UNCHANGED <<live, tool, journal, beside>> /\ Looked
    BY <1>13 DEF Verify
  <2>2. CASE main' = Abort
    BY <1>3c, <2>1, <2>2
  <2>3. CASE main' = NotSwitching
    BY <1>3b, <2>1, <2>3
  <2>4. CASE main' = [main EXCEPT !.pc = "commit"]
    BY <2>1, <2>4 DEF Switching
  <2> QED
    BY <1>13, <2>2, <2>3, <2>4 DEF Verify
<1>14. ASSUME NEW removed \in BOOLEAN, Commit(removed) PROVE HomeOK'
  BY <1>2, <1>3b, <1>3c, <1>14 DEF Commit
<1>15. ASSUME NEW f \in File, RestoreFile(f) PROVE HomeOK'
  BY <1>11, <1>15 DEF RestoreFile, Switching
<1>16. ASSUME RestoreFails PROVE HomeOK'
  BY <1>3b, <1>11, <1>16 DEF RestoreFails
<1>17. ASSUME NEW removed \in BOOLEAN, Restored(removed) PROVE HomeOK'
  BY <1>2, <1>3b, <1>17 DEF Restored
<1>18. ASSUME ToolStarts PROVE HomeOK'
  BY <1>18 DEF ToolStarts, Switching
<1>19. ASSUME ToolStops PROVE HomeOK'
  BY <1>19 DEF ToolStops
<1>20. ASSUME NEW credential \in Credential, ToolSignsIn(credential) PROVE HomeOK'
  BY <1>1, <1>20 DEF ToolSignsIn, Contents
<1>21. UNCHANGED <<adapter, slots, crashes>>
  BY DEF SwitchStep, ToolStep, StartRecovery, StartSwitch, Refuses, Load, SnapshotTaken,
         WriteJournal, WriteLive, Verify, Commit, RestoreFile, RestoreFails, Restored,
         ToolStarts, ToolStops, ToolSignsIn
<1> QED
  BY <1>4, <1>5, <1>6, <1>7, <1>8, <1>9, <1>12, <1>13, <1>14, <1>15, <1>16, <1>17, <1>18,
     <1>19, <1>20, <1>21 DEF SwitchStep, ToolStep

LEMMA CrashType ==
  ASSUME TypeOK, NEW orphans \in SUBSET Login, Crash(orphans)
  PROVE  TypeOK'
<1>1. NotSwitching \in Switching
  BY ContentParts DEF NotSwitching, NoFiles, Switching, Contents
<1>2. /\ main' = NotSwitching /\ NotSwitching.pc = "idle" /\ NotSwitching.account = NoAccount
      /\ UNCHANGED <<adapter, slot, live, tool, journal, promised, shared, beside>>
  BY DEF Crash, NotSwitching
<1>3. HomeOK'
  BY <1>1, <1>2 DEF TypeOK, HomeOK, Looked
<1>4. /\ add' = [w \in Worker |-> NotAdding] /\ crashes' \in 0..MaxCrashes
      /\ login' = [c \in Login |-> IF c \in orphans THEN login[c] ELSE NotRunning]
  BY Bounds DEF Crash, TypeOK
<1>5. SlotsOK'
  BY <1>2, <1>4 DEF TypeOK, SlotsOK, NotAdding, Adding, NotRunning, Child
<1> QED
  BY <1>2, <1>3, <1>4, <1>5, TypeParts DEF TypeOK, HomeOK, SlotsOK

LEMMA TypeStep == TypeOK /\ [Next]_vars => TypeOK'
<1> SUFFICES ASSUME TypeOK, [Next]_vars PROVE TypeOK'
  OBVIOUS
<1>1. CASE UNCHANGED vars
  BY <1>1 DEF vars, slots, home, TypeOK, Looked
<1>2. CASE \/ \E w \in Worker : AddStep(w)
           \/ \E c \in Login : LoginStep(c)
           \/ \E a \in Account, left \in Leftovers : DeleteAccount(a, left)
  <2>1. SlotsOK' /\ UNCHANGED <<adapter, home, crashes>>
    BY <1>2, SlotsType
  <2> QED
    BY <2>1 DEF TypeOK, SlotsOK, home, Looked
<1>3. CASE SwitchStep \/ ToolStep
  <2>1. HomeOK' /\ UNCHANGED <<adapter, slots, crashes>>
    BY <1>3, HomeType
  <2> QED
    BY <2>1 DEF TypeOK, HomeOK, slots
<1>4. CASE \E orphans \in SUBSET Login : Crash(orphans)
  BY <1>4, CrashType
<1> QED
  BY <1>1, <1>2, <1>3, <1>4 DEF Next

-----------------------------------------------------------------------------
(***************************************************************************)
(* The directories and who works in them.                                  *)
(***************************************************************************)
LEMMA SlotSame == SlotInv /\ UNCHANGED <<adapter, slots>> => SlotInv'
BY DEF SlotInv, Waiting, OneUser, Settled, Homes, Written, PairOfOneSignIn, slots,
       Usable, Files

LEMMA SlotParts ==
  ASSUME TypeOK
  PROVE  /\ \A a \in Account : slot[a] \in Slot
         /\ \A w \in Worker : /\ add[w].account \in Account \cup {NoAccount}
                              /\ add[w].pc # "idle" => add[w].account \in Account
                              /\ add[w].account \in Account => add[w].pc # "idle"
         /\ \A c \in Login : login[c].home \in Account \cup {NoAccount}
         /\ NoAccount \notin Account
BY Absences DEF TypeOK, Adding, Child

LEMMA NothingThere ==
  ASSUME TypeOK, SlotInv, NEW a \in Account, ~slot[a].dir \/ Abandoned(a)
  PROVE  \A f \in File : slot[a].file[f] \notin Credential
<1>1. CASE ~slot[a].dir
  BY <1>1, ContentParts DEF SlotInv, Homes, NoFiles
<1>2. CASE Abandoned(a)
  <2>1. \A f \in Files : slot[a].file[f] = None
    BY <1>2, FilesInFile DEF Abandoned, Held, TypeOK
  <2> QED
    BY <2>1, ContentParts DEF SlotInv, Homes
<1> QED
  BY <1>1, <1>2

LEMMA BeginAddSlots ==
  ASSUME TypeOK, SlotInv, NEW w \in Worker, NEW a \in Account, BeginAdd(w, a)
  PROVE  SlotInv'
<1>1. \A f \in File : slot[a].file[f] \notin Credential
  BY NothingThere DEF BeginAdd
<1>2. /\ \A b \in Account : slot'[b].file = slot[b].file
      /\ \A b \in Account : slot'[b].dir = (slot[b].dir \/ b = a)
      /\ adapter' = adapter /\ login' = login /\ promised' = promised
  BY DEF BeginAdd, TypeOK, Slot
<1>3. /\ add'[w] = [pc |-> "ready", account |-> a, child |-> NoLogin]
      /\ \A v \in Worker : v # w => add'[v] = add[v]
  BY DEF BeginAdd, TypeOK
<1>4. shared \subseteq shared' /\ (a \notin shared' => ~InUse(a))
  BY DEF BeginAdd
<1>5. Waiting'
  BY <1>2, <1>3 DEF SlotInv, Waiting
<1>6. OneUser'
  BY <1>2, <1>3, <1>4, SlotParts DEF SlotInv, OneUser, InUse
<1>7. Settled'
  <2>1. a \notin promised \ shared
    BY <1>1, FilesInFile DEF SlotInv, Settled, Usable, TypeOK
  <2> QED
    BY <1>2, <1>3, <1>4, <2>1 DEF SlotInv, Settled, Usable, Files, TypeOK
<1>8. Homes'
  <2>1. \A b \in Account : /\ slot'[b].file = slot[b].file
                           /\ ~slot'[b].dir => ~slot[b].dir
    BY <1>2 DEF TypeOK, Slot
  <2>2. Files' = Files
    BY <1>2 DEF Files
  <2> QED
    BY <2>1, <2>2 DEF SlotInv, Homes
<1>9. Written'
  BY <1>1, <1>2, <1>3, <1>4 DEF SlotInv, Written
<1>10. PairOfOneSignIn'
  BY <1>2, <1>4 DEF SlotInv, PairOfOneSignIn
<1> QED
  BY <1>5, <1>6, <1>7, <1>8, <1>9, <1>10 DEF SlotInv

LEMMA StartLoginSlots ==
  ASSUME TypeOK, SlotInv, NEW w \in Worker, NEW c \in Login, NEW credential \in Credential,
         StartLogin(w, c, credential)
  PROVE  SlotInv'
<1> DEFINE a == add[w].account
<1>1. a \in Account /\ add[w].pc = "ready" /\ login[c].home = NoAccount
  BY SlotParts DEF StartLogin, NotRunning
<1>2. /\ add'[w] = [pc |-> "login", account |-> a, child |-> c]
      /\ \A v \in Worker : v # w => add'[v] = add[v]
  BY DEF StartLogin, Goes, TypeOK
<1>3. /\ login'[c] = [home |-> a, gets |-> credential]
      /\ \A d \in Login : d # c => login'[d] = login[d]
  BY DEF StartLogin, TypeOK
<1>4. UNCHANGED <<adapter, slot, promised, shared>>
  BY DEF StartLogin
<1>5. Waiting'
  BY <1>1, <1>2, <1>3, SlotParts DEF SlotInv, Waiting
<1>6. OneUser'
  <2>1. a \notin shared => \A d \in Login : login[d].home # a
    BY <1>1 DEF SlotInv, OneUser
  <2> QED
    BY <1>1, <1>2, <1>3, <1>4, <2>1 DEF SlotInv, OneUser
<1>7. Settled'
  BY <1>1, <1>2, <1>3, <1>4 DEF SlotInv, Settled, Usable, Files
<1>8. Homes'
  BY <1>4 DEF SlotInv, Homes, Files
<1>9. Written'
  <2>1. a \notin shared => \A f \in File : slot[a].file[f] \notin Credential
    BY <1>1 DEF SlotInv, Written
  <2> QED
    BY <1>1, <1>2, <1>3, <1>4, <2>1 DEF SlotInv, Written
<1>10. PairOfOneSignIn'
  BY <1>4 DEF SlotInv, PairOfOneSignIn
<1> QED
  BY <1>5, <1>6, <1>7, <1>8, <1>9, <1>10 DEF SlotInv

LEMMA GivesUpSlots ==
  ASSUME TypeOK, SlotInv, NEW w \in Worker, LoginNotStarted(w) \/ AddUnfit(w)
  PROVE  SlotInv'
<1>1. add[w].pc \in {"ready", "check"}
  BY DEF LoginNotStarted, AddUnfit
<1>2. /\ add'[w] = [pc |-> "cleanup", account |-> add[w].account, child |-> NoLogin]
      /\ \A v \in Worker : v # w => add'[v] = add[v]
  BY DEF LoginNotStarted, AddUnfit, Goes, TypeOK
<1>3. UNCHANGED <<adapter, slot, login, promised, shared>>
  BY DEF LoginNotStarted, AddUnfit
<1>4. Waiting'
  BY <1>2, <1>3 DEF SlotInv, Waiting
<1>5. OneUser'
  BY <1>1, <1>2, <1>3 DEF SlotInv, OneUser
<1>6. Settled'
  BY <1>2, <1>3 DEF SlotInv, Settled, Usable, Files
<1>7. Homes'
  BY <1>3 DEF SlotInv, Homes, Files
<1>8. Written'
  BY <1>2, <1>3 DEF SlotInv, Written
<1>9. PairOfOneSignIn'
  BY <1>3 DEF SlotInv, PairOfOneSignIn
<1> QED
  BY <1>4, <1>5, <1>6, <1>7, <1>8, <1>9 DEF SlotInv

LEMMA AddDoneSlots ==
  ASSUME TypeOK, SlotInv, NEW w \in Worker, AddDone(w)
  PROVE  SlotInv'
<1> DEFINE a == add[w].account
<1>1. a \in Account /\ add[w].pc = "check" /\ Usable(slot[a].file)
  BY SlotParts DEF AddDone
<1>2. /\ add'[w].account = NoAccount /\ add'[w].pc = "idle"
      /\ \A v \in Worker : v # w => add'[v] = add[v]
  BY DEF AddDone, NotAdding, TypeOK
<1>3. UNCHANGED <<adapter, slot, login, shared>> /\ promised' = promised \cup {a}
  BY DEF AddDone
<1>4. Waiting'
  BY <1>2, <1>3 DEF SlotInv, Waiting
<1>5. OneUser'
  BY <1>2, <1>3, SlotParts DEF SlotInv, OneUser
<1>6. Settled'
  <2>1. ASSUME a \notin shared
        PROVE  /\ \A v \in Worker : add'[v].account # a
               /\ \A c \in Login : login[c].home # a
    BY <1>1, <1>2, <2>1, SlotParts DEF SlotInv, OneUser
  <2>2. ASSUME NEW b \in promised \ shared
        PROVE  \A v \in Worker : add'[v].account # b
    BY <1>2, SlotParts DEF SlotInv, Settled, TypeOK
  <2> QED
    BY <1>1, <1>3, <2>1, <2>2 DEF SlotInv, Settled, Usable, Files
<1>7. Homes'
  BY <1>3 DEF SlotInv, Homes, Files
<1>8. Written'
  BY <1>2, <1>3 DEF SlotInv, Written
<1>9. PairOfOneSignIn'
  BY <1>3 DEF SlotInv, PairOfOneSignIn
<1> QED
  BY <1>4, <1>5, <1>6, <1>7, <1>8, <1>9 DEF SlotInv

(* What is left of a directory is part of what was there.                  *)
LEMMA RemovedSlots ==
  ASSUME TypeOK, SlotInv, NEW a \in Account, NEW left \in Leftovers,
         slot' = [slot EXCEPT ![a] = Removed(@, left)], adapter' = adapter
  PROVE  /\ \A b \in Account : b # a => slot'[b] = slot[b]
         /\ \A b \in Account : \A f \in File : slot'[b].file[f] \in {None, slot[b].file[f]}
         /\ Homes'
<1>1. slot[a] \in Slot /\ slot'[a] = Removed(slot[a], left)
  BY DEF TypeOK
<1>2. \A b \in Account : b # a => slot'[b] = slot[b]
  BY DEF TypeOK
<1>3. \A f \in File : slot'[a].file[f] \in {None, slot[a].file[f]}
  BY <1>1, RemovedOK
<1>4. ~slot'[a].dir => slot'[a].file = NoFiles
  BY <1>1, RemovedOK DEF SlotInv, Homes, Slot
<1>5. Homes'
  BY <1>2, <1>3, <1>4 DEF SlotInv, Homes, Files
<1> QED
  BY <1>2, <1>3, <1>5

LEMMA CleanupSlots ==
  ASSUME TypeOK, SlotInv, NEW w \in Worker, NEW left \in Leftovers, Cleanup(w, left)
  PROVE  SlotInv'
<1> DEFINE a == add[w].account
<1>1. a \in Account
  BY SlotParts DEF Cleanup
<1>2. /\ add'[w].account = NoAccount /\ add'[w].pc = "idle"
      /\ \A v \in Worker : v # w => add'[v] = add[v]
  BY DEF Cleanup, NotAdding, TypeOK
<1>3. UNCHANGED <<adapter, login, promised, shared>>
  BY DEF Cleanup
<1>4. /\ \A b \in Account : b # a => slot'[b] = slot[b]
      /\ \A b \in Account : \A f \in File : slot'[b].file[f] \in {None, slot[b].file[f]}
      /\ Homes'
  BY <1>1, <1>3, RemovedSlots DEF Cleanup
<1>5. Waiting'
  BY <1>2, <1>3 DEF SlotInv, Waiting
<1>6. OneUser'
  BY <1>2, <1>3, SlotParts DEF SlotInv, OneUser
<1>7. Settled'
  <2>1. ASSUME NEW b \in promised \ shared
        PROVE  b \in Account /\ b # a /\ \A v \in Worker : add'[v].account # b
    BY <1>2, SlotParts DEF SlotInv, Settled, TypeOK
  <2> QED
    BY <1>3, <1>4, <2>1 DEF SlotInv, Settled, Usable, Files
<1>8. Written'
  BY <1>2, <1>3, <1>4, ContentParts DEF SlotInv, Written
<1>9. PairOfOneSignIn'
  BY <1>3, <1>4, ContentParts DEF SlotInv, PairOfOneSignIn
<1> QED
  BY <1>4, <1>5, <1>6, <1>7, <1>8, <1>9 DEF SlotInv

LEMMA DeleteSlots ==
  ASSUME TypeOK, SlotInv, NEW a \in Account, NEW left \in Leftovers, DeleteAccount(a, left)
  PROVE  SlotInv'
<1>1. UNCHANGED <<adapter, add, login, shared>> /\ promised' = promised \ {a}
  BY DEF DeleteAccount
<1>2. /\ \A b \in Account : b # a => slot'[b] = slot[b]
      /\ \A b \in Account : \A f \in File : slot'[b].file[f] \in {None, slot[b].file[f]}
      /\ Homes'
  BY <1>1, RemovedSlots DEF DeleteAccount
<1>3. Waiting' /\ OneUser'
  BY <1>1 DEF SlotInv, Waiting, OneUser
<1>4. Settled'
  BY <1>1, <1>2 DEF SlotInv, Settled, Usable, Files, TypeOK
<1>5. Written'
  BY <1>1, <1>2, ContentParts DEF SlotInv, Written
<1>6. PairOfOneSignIn'
  BY <1>1, <1>2, ContentParts DEF SlotInv, PairOfOneSignIn
<1> QED
  BY <1>2, <1>3, <1>4, <1>5, <1>6 DEF SlotInv

LEMMA LoginWritesSlots ==
  ASSUME TypeOK, SlotInv, NEW c \in Login, NEW f \in File, NEW content \in Content,
         LoginWrites(c, f, content)
  PROVE  SlotInv'
<1> DEFINE a == login[c].home
<1>1. a \in Account /\ f \in Files
  BY SlotParts DEF LoginWrites
<1>2. content \in Credential => content = login[c].gets
  BY ContentParts DEF LoginWrites
<1>3. UNCHANGED <<adapter, add, login, promised, shared>>
  BY DEF LoginWrites
<1>4. /\ \A b \in Account : b # a => slot'[b] = slot[b]
      /\ slot'[a].dir
      /\ slot'[a].file[f] = content
      /\ \A g \in File : g # f => slot'[a].file[g] = slot[a].file[g]
  BY <1>1 DEF LoginWrites, TypeOK, Slot, Contents
<1>5. Waiting' /\ OneUser'
  BY <1>3 DEF SlotInv, Waiting, OneUser
<1>6. Settled'
  BY <1>3, <1>4 DEF SlotInv, Settled, Usable, Files, TypeOK
<1>7. Homes'
  BY <1>1, <1>3, <1>4 DEF SlotInv, Homes, Files
<1>8. Written'
  <2>1. ASSUME a \notin shared
        PROVE  /\ \A d \in Login : login[d].home = a => d = c
               /\ \A w \in Worker : add[w].account = a => add[w].pc = "login"
    BY <1>1, <2>1 DEF SlotInv, OneUser
  <2> QED
    BY <1>2, <1>3, <1>4, <2>1 DEF SlotInv, Written
<1>9. PairOfOneSignIn'
  <2>1. ASSUME a \notin shared, NEW g \in File, slot[a].file[g] \in Credential
        PROVE  slot[a].file[g] = login[c].gets
    BY <1>1, <2>1 DEF SlotInv, Written
  <2>2. ASSUME a \notin shared, NEW g \in File, NEW h \in File,
               slot'[a].file[g] \in Credential, slot'[a].file[h] \in Credential
        PROVE  slot'[a].file[g] = slot'[a].file[h]
    BY <1>2, <1>4, <2>1, <2>2
  <2> QED
    BY <1>3, <1>4, <2>2 DEF SlotInv, PairOfOneSignIn
<1> QED
  BY <1>5, <1>6, <1>7, <1>8, <1>9 DEF SlotInv

LEMMA LoginExitsSlots ==
  ASSUME TypeOK, SlotInv, NEW c \in Login, NEW success \in BOOLEAN, LoginExits(c, success)
  PROVE  SlotInv'
<1>1. login'[c].home = NoAccount /\ \A d \in Login : d # c => login'[d] = login[d]
  BY DEF LoginExits, NotRunning, TypeOK
<1>2. \A w \in Worker :
         /\ add'[w].account = add[w].account
         /\ add[w].pc = "login" /\ add[w].child = c => add'[w].pc \in {"check", "cleanup"}
         /\ ~(add[w].pc = "login" /\ add[w].child = c) => add'[w] = add[w]
  BY DEF LoginExits
<1>3. UNCHANGED <<adapter, slot, promised, shared>>
  BY DEF LoginExits
<1>4. Waiting'
  BY <1>1, <1>2 DEF SlotInv, Waiting
<1>5. OneUser'
  BY <1>1, <1>2, <1>3, SlotParts DEF SlotInv, OneUser
<1>6. Settled'
  <2>1. promised \ shared \subseteq Account
    BY DEF TypeOK
  <2> QED
    BY <1>1, <1>2, <1>3, <2>1, SlotParts DEF SlotInv, Settled, Usable, Files
<1>7. Homes'
  BY <1>3 DEF SlotInv, Homes, Files
<1>8. Written'
  BY <1>1, <1>2, <1>3, SlotParts DEF SlotInv, Written
<1>9. PairOfOneSignIn'
  BY <1>3 DEF SlotInv, PairOfOneSignIn
<1> QED
  BY <1>4, <1>5, <1>6, <1>7, <1>8, <1>9 DEF SlotInv

LEMMA CrashSlots ==
  ASSUME TypeOK, SlotInv, NEW orphans \in SUBSET Login, Crash(orphans)
  PROVE  SlotInv'
<1>1. \A w \in Worker : add'[w].account = NoAccount /\ add'[w].pc = "idle"
  BY DEF Crash, NotAdding
<1>2. \A c \in Login : login'[c] = login[c] \/ login'[c].home = NoAccount
  BY DEF Crash, NotRunning
<1>3. UNCHANGED <<adapter, slot, promised, shared>>
  BY DEF Crash
<1>4. Waiting'
  BY <1>1 DEF Waiting
<1>5. OneUser'
  BY <1>1, <1>2, <1>3, SlotParts DEF SlotInv, OneUser
<1>6. Settled'
  <2>1. promised \ shared \subseteq Account
    BY DEF TypeOK
  <2> QED
    BY <1>1, <1>2, <1>3, <2>1, SlotParts DEF SlotInv, Settled, Usable, Files
<1>7. Homes'
  BY <1>3 DEF SlotInv, Homes, Files
<1>8. Written'
  BY <1>1, <1>2, <1>3, SlotParts DEF SlotInv, Written
<1>9. PairOfOneSignIn'
  BY <1>3 DEF SlotInv, PairOfOneSignIn
<1> QED
  BY <1>4, <1>5, <1>6, <1>7, <1>8, <1>9 DEF SlotInv

LEMMA SlotStep ==
  ASSUME TypeOK, SlotInv, [Next]_vars
  PROVE  SlotInv'
<1>1. CASE UNCHANGED vars
  BY <1>1, SlotSame DEF vars
<1>2. ASSUME NEW w \in Worker, AddStep(w) PROVE SlotInv'
  BY <1>2, BeginAddSlots, StartLoginSlots, GivesUpSlots, AddDoneSlots, CleanupSlots
     DEF AddStep
<1>3. ASSUME NEW c \in Login, LoginStep(c) PROVE SlotInv'
  BY <1>3, LoginWritesSlots, LoginExitsSlots DEF LoginStep
<1>4. CASE SwitchStep \/ ToolStep
  BY <1>4, HomeType, SlotSame
<1> QED
  BY <1>1, <1>2, <1>3, <1>4, DeleteSlots, CrashSlots DEF Next

-----------------------------------------------------------------------------
-----------------------------------------------------------------------------
(***************************************************************************)
(* The vendor's home and the switch.                                       *)
(***************************************************************************)
LEMMA HomeTyped ==
  ASSUME TypeOK
  PROVE  /\ Files \subseteq File /\ File = {"credentials", "identity"}
         /\ adapter = "claude-code" => Files = File
         /\ adapter = "codex-cli" => Files = {"credentials"}
         /\ adapter \in {"codex-cli", "claude-code"}
         /\ live \in [File -> Content] /\ main.saved \in [File -> Content]
         /\ main.bytes \in [File -> Content] /\ journal.backup \in [File -> Content]
         /\ main \in Switching
BY DEF TypeOK, Switching, Journal, Contents, File, Files, FilesOf

LEMMA HomeSame ==
  ASSUME HomeInv, UNCHANGED <<adapter, home>>, shared \subseteq shared',
         StoredAt'
  PROVE  HomeInv'
<1>1. JournalAt' /\ Undamaged' /\ Alone' /\ LiveAt'
  BY DEF HomeInv, home, JournalAt, Undamaged, Alone, LiveAt, Moves, Looked, Files
<1>2. Paired'
  BY DEF HomeInv, home, Paired, Moves, OneAccount
<1> QED
  BY <1>1, <1>2 DEF HomeInv

(* Nobody works in the directory of a stored account, and it is deleted by *)
(* a command of its own.                                                   *)
LEMMA StoredStays ==
  ASSUME TypeOK, SlotInv, main.pc # "idle", NEW a \in promised \ shared,
         \/ \E w \in Worker : AddStep(w)
         \/ \E c \in Login : LoginStep(c)
         \/ \E b \in Account, left \in Leftovers : DeleteAccount(b, left)
  PROVE  a \in promised' \ shared' /\ slot'[a].file = slot[a].file
<1>1. /\ a \in Account /\ Usable(slot[a].file) /\ slot[a] \in Slot
      /\ \A w \in Worker : add[w].account # a
      /\ \A c \in Login : login[c].home # a
  BY DEF SlotInv, Settled, TypeOK
<1>2. ASSUME NEW w \in Worker, NEW b \in Account, BeginAdd(w, b)
      PROVE  a \in promised' \ shared' /\ slot'[a].file = slot[a].file
  <2>1. b # a
    BY <1>1, <1>2, NothingThere, HomeTyped DEF BeginAdd, Usable
  <2> QED
    BY <1>1, <1>2, <2>1 DEF BeginAdd, TypeOK
<1>3. ASSUME NEW w \in Worker, NEW left \in Leftovers, Cleanup(w, left)
      PROVE  a \in promised' \ shared' /\ slot'[a].file = slot[a].file
  BY <1>1, <1>3 DEF Cleanup, TypeOK
<1>4. ASSUME NEW c \in Login, NEW f \in File, NEW content \in Content,
             LoginWrites(c, f, content)
      PROVE  a \in promised' \ shared' /\ slot'[a].file = slot[a].file
  BY <1>1, <1>4 DEF LoginWrites, TypeOK
<1> QED
  BY <1>2, <1>3, <1>4 DEF AddStep, LoginStep, StartLogin, LoginNotStarted, AddDone,
     AddUnfit, LoginExits, DeleteAccount

LEMMA SharedGrows ==
  ASSUME \/ \E w \in Worker : AddStep(w)
         \/ \E c \in Login : LoginStep(c)
         \/ \E a \in Account, left \in Leftovers : DeleteAccount(a, left)
  PROVE  shared \subseteq shared'
BY DEF AddStep, LoginStep, BeginAdd, StartLogin, LoginNotStarted, AddDone, AddUnfit,
       Cleanup, LoginWrites, LoginExits, DeleteAccount

LEMMA HomeBySlots ==
  ASSUME TypeOK, SlotInv, HomeInv,
         \/ \E w \in Worker : AddStep(w)
         \/ \E c \in Login : LoginStep(c)
         \/ \E a \in Account, left \in Leftovers : DeleteAccount(a, left)
  PROVE  HomeInv'
<1>1. UNCHANGED <<adapter, home>> /\ shared \subseteq shared'
  BY SlotsType, SharedGrows
<1>2. main' = main /\ Files' = Files
  BY <1>1 DEF home, Files
<1>3. CASE Moves /\ main.stored
  <2>1. main.account \in promised \ shared /\ main.pc # "idle"
    BY <1>3 DEF HomeInv, StoredAt, Moves
  <2>2. main.account \in promised' \ shared'
        /\ slot'[main.account].file = slot[main.account].file
    BY <2>1, StoredStays
  <2>3. StoredAt'
    BY <1>2, <1>3, <2>2 DEF HomeInv, StoredAt
  <2> QED
    BY <1>1, <2>3, HomeSame
<1>4. CASE ~(Moves /\ main.stored)
  <2>1. StoredAt'
    BY <1>2, <1>4 DEF StoredAt, Moves
  <2> QED
    BY <1>1, <2>1, HomeSame
<1> QED
  BY <1>3, <1>4

(* A command that ends leaves nothing under way: what it has left in the   *)
(* home and in the journal is all there is to say.                         *)
LEMMA Ends ==
  ASSUME TypeOK, HomeInv, main' = NotSwitching,
         UNCHANGED <<adapter, tool, shared, beside>>,
         \A f \in File : live'[f] # Torn /\ journal'.backup[f] # Torn,
         adapter = "codex-cli" => ~journal'.pending,
         journal'.pending /\ ~beside => ~tool,
         adapter = "claude-code" /\ shared = {} /\ ~beside
           => OneAccount(IF journal'.pending THEN journal'.backup ELSE live')
  PROVE  HomeInv'
<1>1. /\ main'.pc = "idle" /\ ~main'.raced /\ main'.todo = {}
      /\ \A f \in File : main'.saved[f] # Torn
  BY ContentParts DEF NotSwitching, NoFiles
<1>2. JournalAt' /\ Undamaged' /\ Alone' /\ LiveAt' /\ StoredAt'
  BY <1>1 DEF JournalAt, Undamaged, Alone, LiveAt, StoredAt, Moves, Looked
<1>3. Paired'
  BY <1>1 DEF Paired, Moves, OneAccount
<1> QED
  BY <1>2, <1>3 DEF HomeInv

(* Nothing in the home or the journal has changed.                         *)
LEMMA Stands ==
  ASSUME TypeOK, HomeInv
  PROVE  /\ \A f \in File : live[f] # Torn /\ journal.backup[f] # Torn
         /\ adapter = "codex-cli" => ~journal.pending
         /\ journal.pending /\ ~beside => ~tool
         /\ adapter = "claude-code" /\ shared = {} /\ ~beside
              => OneAccount(IF journal.pending THEN journal.backup ELSE live)
BY DEF HomeInv, JournalAt, Undamaged, Alone, Paired

LEMMA NoBackup == ~NoJournal.pending /\ \A f \in File : NoJournal.backup[f] # Torn
BY ContentParts DEF NoJournal, NoFiles

LEMMA EndsQuietly ==
  ASSUME TypeOK, HomeInv, main' = NotSwitching,
         UNCHANGED <<adapter, tool, shared, beside, live, journal>>
  PROVE  HomeInv'
<1>1. /\ \A f \in File : live'[f] # Torn /\ journal'.backup[f] # Torn
      /\ adapter = "codex-cli" => ~journal'.pending
      /\ journal'.pending /\ ~beside => ~tool
      /\ adapter = "claude-code" /\ shared = {} /\ ~beside
           => OneAccount(IF journal'.pending THEN journal'.backup ELSE live')
  BY Stands
<1> QED
  BY <1>1, Ends

(* The steps that only look.                                               *)
LEMMA StartsHome ==
  ASSUME TypeOK, HomeInv, StartRecovery \/ \E a \in Account : StartSwitch(a)
  PROVE  HomeInv'
<1>1. UNCHANGED <<adapter, slots, live, tool, journal, beside>>
  BY DEF StartRecovery, StartSwitch
<1>2. /\ main'.todo \in {{}, Files} /\ ~main'.raced /\ ~main'.stored
      /\ \/ main'.pc = "recover" /\ main'.todo = Files /\ journal.pending
         \/ main'.pc = "load" /\ main'.todo = {} /\ ~journal.pending /\ ~tool
      /\ \A f \in File : main'.saved[f] # Torn
  <2>1. \A f \in File : NotSwitching.saved[f] # Torn
    BY ContentParts DEF NotSwitching, NoFiles
  <2>2. CASE StartRecovery
    BY <2>1, <2>2 DEF StartRecovery, NotSwitching
  <2>3. CASE \E a \in Account : StartSwitch(a)
    BY <2>1, <2>3 DEF StartSwitch, NotSwitching
  <2> QED
    BY <2>2, <2>3
<1>3. Files' = Files /\ shared' = shared /\ ~Moves'
  BY <1>1, <1>2 DEF Files, slots, Moves
<1>4. JournalAt'
  BY <1>1, <1>2 DEF HomeInv, JournalAt
<1>5. Undamaged'
  BY <1>1, <1>2, <1>3 DEF HomeInv, Undamaged
<1>6. Alone'
  BY <1>1, <1>2 DEF HomeInv, Alone, Looked
<1>7. LiveAt'
  BY <1>1, <1>2, <1>3 DEF LiveAt
<1>8. Paired'
  BY <1>1, <1>3 DEF HomeInv, Paired, OneAccount
<1>9. StoredAt'
  BY <1>3 DEF StoredAt
<1> QED
  BY <1>4, <1>5, <1>6, <1>7, <1>8, <1>9 DEF HomeInv

LEMMA LoadHome ==
  ASSUME TypeOK, SlotInv, HomeInv, Load
  PROVE  HomeInv'
<1> DEFINE a == main.account
           s == a \in promised \ shared
<1>1. /\ UNCHANGED <<adapter, slots, live, tool, journal, beside>>
      /\ main.pc = "load" /\ Usable(slot[a].file)
      /\ s \in BOOLEAN
      /\ main' = [main EXCEPT !.pc = "snapshot", !.bytes = slot[a].file, !.stored = s]
  BY DEF Load
<1>2. a \in Account
  BY <1>1, Absences DEF TypeOK, Looked, Switching
<1> HIDE DEF s
<1>3. /\ main'.pc = "snapshot" /\ main'.bytes = slot[a].file /\ main'.stored = s
      /\ main'.account = a /\ main'.todo = main.todo /\ main'.raced = main.raced
      /\ main'.saved = main.saved
  BY <1>1 DEF TypeOK, Switching
<1>4. Files' = Files /\ shared' = shared /\ promised' = promised /\ slot' = slot
  BY <1>1 DEF Files, slots
<1>5. JournalAt'
  BY <1>1, <1>3 DEF HomeInv, JournalAt
<1>6. Undamaged'
  BY <1>1, <1>3, <1>4 DEF HomeInv, Undamaged, Usable
<1>7. Alone'
  BY <1>1, <1>3 DEF HomeInv, Alone, Looked
<1>8. LiveAt'
  BY <1>1, <1>3, <1>4 DEF HomeInv, LiveAt
<1>9. Paired'
  <2>1. ASSUME adapter = "claude-code", shared = {}
        PROVE  slot[a].file["credentials"] = slot[a].file["identity"]
    <3>1. /\ "credentials" \in File /\ "identity" \in File
          /\ slot[a].file["credentials"] \in Credential
          /\ slot[a].file["identity"] \in Credential
      BY <1>1, <2>1, HomeTyped DEF Usable
    <3> QED
      BY <1>2, <2>1, <3>1 DEF SlotInv, PairOfOneSignIn
  <2> QED
    BY <1>1, <1>3, <1>4, <2>1 DEF HomeInv, Paired, OneAccount
<1>10. StoredAt'
  BY <1>3, <1>4 DEF StoredAt, s
<1> QED
  BY <1>5, <1>6, <1>7, <1>8, <1>9, <1>10 DEF HomeInv

LEMMA SnapshotHome ==
  ASSUME TypeOK, HomeInv, SnapshotTaken
  PROVE  HomeInv'
<1>1. /\ UNCHANGED <<adapter, slots, live, tool, journal, beside>>
      /\ main.pc = "snapshot" /\ main'.saved = live
      /\ main'.bytes = main.bytes /\ main'.stored = main.stored
      /\ main'.account = main.account /\ main'.raced = main.raced
      /\ \/ adapter = "claude-code" /\ main'.pc = "note" /\ main'.todo = main.todo
         \/ adapter = "codex-cli" /\ main'.pc = "write" /\ main'.todo = Files
  BY HomeTyped DEF SnapshotTaken, Snapshotted, Switching
<1>2. Files' = Files /\ shared' = shared /\ promised' = promised /\ slot' = slot
  BY <1>1 DEF Files, slots
<1>3. Moves /\ Moves'
  BY <1>1 DEF Moves
<1>4. JournalAt'
  BY <1>1 DEF HomeInv, JournalAt
<1>5. Undamaged'
  BY <1>1, <1>2, <1>3 DEF HomeInv, Undamaged
<1>6. Alone'
  BY <1>1 DEF HomeInv, Alone, Looked
<1>7. LiveAt'
  BY <1>1, <1>2 DEF HomeInv, LiveAt
<1>8. Paired'
  BY <1>1, <1>2, <1>3 DEF HomeInv, Paired, OneAccount
<1>9. StoredAt'
  BY <1>1, <1>2, <1>3 DEF HomeInv, StoredAt
<1> QED
  BY <1>4, <1>5, <1>6, <1>7, <1>8, <1>9 DEF HomeInv

LEMMA JournalHome ==
  ASSUME TypeOK, HomeInv, NEW written \in BOOLEAN, NEW reported \in BOOLEAN,
         WriteJournal(written, reported)
  PROVE  HomeInv'
<1>1. /\ UNCHANGED <<adapter, slots, live, tool, beside>> /\ main.pc = "note"
      /\ journal' = IF written THEN [pending |-> TRUE, backup |-> main.saved] ELSE journal
      /\ adapter = "claude-code" /\ ~journal.pending
  BY HomeTyped DEF WriteJournal, HomeInv, JournalAt
<1>2. shared' = shared /\ promised' = promised /\ slot' = slot /\ Files' = Files
  BY <1>1 DEF slots, Files
(* A Claude Code started since the command looked leaves it no promise.    *)
<1>3. ~beside => ~main.raced /\ ~tool /\ live = main.saved
  BY <1>1 DEF HomeInv, Alone, LiveAt, Looked
<1>4. shared = {} /\ ~beside => OneAccount(live)
  BY <1>1 DEF HomeInv, Paired
<1>5. written => journal'.pending /\ journal'.backup = main.saved
  BY <1>1
<1>6. CASE ~reported
  <2>1. main' = NotSwitching
    BY <1>6 DEF WriteJournal
  <2>2. CASE ~written
    BY <1>1, <1>2, <2>1, <2>2, EndsQuietly
  <2>3. CASE written
    <3>1. \A f \in File : live'[f] # Torn /\ journal'.backup[f] # Torn
      BY <1>1, <1>5, <2>3 DEF HomeInv, Undamaged
    <3>2. shared = {} /\ ~beside
            => OneAccount(IF journal'.pending THEN journal'.backup ELSE live')
      BY <1>3, <1>4, <1>5, <2>3
    <3> QED
      BY <1>1, <1>2, <1>3, <2>1, <3>1, <3>2, Ends
  <2> QED
    BY <2>2, <2>3
<1>7. CASE reported
  <2>1. /\ main'.pc = "write" /\ main'.todo = Files
        /\ main'.bytes = main.bytes /\ main'.stored = main.stored
        /\ main'.saved = main.saved
        /\ main'.account = main.account /\ main'.raced = main.raced
        /\ written
    BY <1>7, HomeTyped DEF WriteJournal, Switching
  <2>2. Moves /\ Moves'
    BY <1>1, <2>1 DEF Moves
  <2>3. JournalAt'
    BY <1>1, <1>5, <2>1 DEF JournalAt
  <2>4. Undamaged'
    BY <1>1, <1>2, <1>5, <2>1, <2>2 DEF HomeInv, Undamaged
  <2>5. Alone'
    BY <1>1, <1>3, <2>1 DEF HomeInv, Alone, Looked
  <2>6. LiveAt'
    BY <1>1, <1>2, <2>1 DEF HomeInv, LiveAt
  <2>7. Paired'
    <3>1. shared = {} /\ ~beside => OneAccount(journal'.backup)
      BY <1>3, <1>4, <1>5, <2>1
    <3> QED
      BY <1>1, <1>2, <1>5, <2>1, <2>2, <3>1 DEF HomeInv, Paired, OneAccount
  <2>8. StoredAt'
    BY <1>2, <2>1, <2>2 DEF HomeInv, StoredAt
  <2> QED
    BY <2>3, <2>4, <2>5, <2>6, <2>7, <2>8 DEF HomeInv
<1> QED
  BY <1>6, <1>7

(* abort_switch is reached from any of the writes and looks.               *)
LEMMA Aborts ==
  ASSUME TypeOK, HomeInv, main.pc \in {"write", "verify", "commit"}, main' = Abort,
         UNCHANGED <<adapter, slots, tool, journal, beside>>,
         \A f \in File : live'[f] # Torn,
         ~main.raced => \A f \in File :
           live'[f] \in {main.saved[f]} \cup (IF f \in Files THEN {main.bytes[f]} ELSE {})
  PROVE  HomeInv'
<1>1. /\ main'.pc = "abort" /\ main'.todo = Files /\ main'.bytes = main.bytes
      /\ ~main'.stored /\ main'.saved = main.saved
      /\ main'.account = main.account /\ main'.raced = main.raced
  BY HomeTyped DEF Abort, Switching
<1>2. shared' = shared /\ Files' = Files
  BY DEF slots, Files
<1>3. Moves /\ Moves'
  BY <1>1 DEF Moves
<1>4. JournalAt'
  BY <1>1 DEF HomeInv, JournalAt
<1>5. Undamaged'
  BY <1>1, <1>2, <1>3 DEF HomeInv, Undamaged
<1>6. Alone'
  BY <1>1 DEF HomeInv, Alone, Looked
<1>7. LiveAt'
  BY <1>1, <1>2 DEF LiveAt
<1>8. Paired'
  <2>1. adapter = "claude-code" => journal.pending
    BY DEF HomeInv, JournalAt
  <2> QED
    BY <1>1, <1>2, <1>3, <2>1 DEF HomeInv, Paired, OneAccount
<1>9. StoredAt'
  BY <1>1 DEF StoredAt
<1> QED
  BY <1>4, <1>5, <1>6, <1>7, <1>8, <1>9 DEF HomeInv

LEMMA WriteHome ==
  ASSUME TypeOK, HomeInv, NEW f \in File, NEW replaced \in BOOLEAN, NEW reported \in BOOLEAN,
         WriteLive(f, replaced, reported)
  PROVE  HomeInv'
<1>1. /\ UNCHANGED <<adapter, slots, tool, journal, beside>> /\ main.pc = "write"
      /\ f \in main.todo /\ f \in Files
      /\ live' = IF replaced THEN Moved(f) ELSE live
  BY DEF WriteLive, WritesNext, HomeInv, LiveAt
<1>2. shared' = shared /\ promised' = promised /\ slot' = slot /\ Files' = Files
  BY <1>1 DEF slots, Files
<1>3. Moves
  BY <1>1 DEF Moves
<1>4. \A g \in File : live'[g] = IF replaced /\ g = f THEN main.bytes[g] ELSE live[g]
  BY <1>1, HomeTyped DEF Moved
<1>5. \A g \in File : live'[g] # Torn
  <2>1. main.bytes[f] # Torn
    BY <1>1, <1>3, ContentParts DEF HomeInv, Undamaged
  <2> QED
    BY <1>4, <2>1 DEF HomeInv, Undamaged
<1>6. CASE ~reported
  <2>1. main' = Abort
    BY <1>6 DEF WriteLive
  <2>2. ~main.raced => \A g \in File :
          live'[g] \in {main.saved[g]} \cup (IF g \in Files THEN {main.bytes[g]} ELSE {})
    BY <1>1, <1>4 DEF HomeInv, LiveAt
  <2> QED
    BY <1>1, <1>5, <2>1, <2>2, Aborts
<1>7. CASE reported
  <2>1. /\ main'.pc = IF main.todo = {f} THEN "verify" ELSE "write"
        /\ main'.todo = main.todo \ {f} /\ main'.bytes = main.bytes
        /\ main'.stored = main.stored /\ main'.saved = main.saved
        /\ main'.account = main.account /\ main'.raced = main.raced
        /\ replaced
    BY <1>7, HomeTyped DEF WriteLive, Switching
  <2>2. Moves'
    BY <2>1 DEF Moves
  <2>3. JournalAt'
    BY <1>1, <2>1 DEF HomeInv, JournalAt
  <2>4. Undamaged'
    BY <1>1, <1>2, <1>3, <1>5, <2>1, <2>2 DEF HomeInv, Undamaged
  <2>5. Alone'
    BY <1>1, <2>1 DEF HomeInv, Alone, Looked
  <2>6. LiveAt'
    <3>1. main'.todo \subseteq Files /\ (main'.pc = "verify" => main'.todo = {})
      BY <2>1 DEF HomeInv, LiveAt
    <3>2. ~main.raced => \A g \in File :
            live'[g] = IF g \in Files \ main'.todo THEN main'.bytes[g] ELSE main'.saved[g]
      BY <1>1, <1>4, <2>1 DEF HomeInv, LiveAt
    <3> QED
      BY <1>2, <2>1, <3>1, <3>2 DEF LiveAt
  <2>7. Paired'
    <3>1. adapter = "claude-code" => journal.pending
      BY <1>1 DEF HomeInv, JournalAt
    <3> QED
      BY <1>1, <1>2, <1>3, <2>1, <2>2, <3>1 DEF HomeInv, Paired, OneAccount
  <2>8. StoredAt'
    BY <1>2, <1>3, <2>1, <2>2 DEF HomeInv, StoredAt
  <2> QED
    BY <2>3, <2>4, <2>5, <2>6, <2>7, <2>8 DEF HomeInv
<1> QED
  BY <1>6, <1>7

(* What has been written, as long as the vendor tool stays away.           *)
LEMMA Complete ==
  ASSUME TypeOK, HomeInv, main.pc \in {"verify", "commit"}
  PROVE  /\ ~main.raced => \A f \in File :
              live[f] \in {main.saved[f]} \cup (IF f \in Files THEN {main.bytes[f]} ELSE {})
         /\ ~main.raced => \A f \in Files : live[f] = main.bytes[f]
         /\ adapter = "claude-code" => journal.pending
BY HomeTyped DEF HomeInv, LiveAt, JournalAt

LEMMA VerifyHome ==
  ASSUME TypeOK, HomeInv, NEW readable \in BOOLEAN, Verify(readable)
  PROVE  HomeInv'
<1>1. /\ UNCHANGED <<adapter, slots, live, tool, journal, beside>> /\ main.pc = "verify"
      /\ \/ main' = Abort \/ main' = NotSwitching
         \/ main' = [main EXCEPT !.pc = "commit"] /\ adapter = "claude-code"
  BY DEF Verify
<1>2. shared' = shared /\ promised' = promised /\ slot' = slot /\ Files' = Files
  BY <1>1 DEF slots, Files
<1>3. CASE main' = Abort
  BY <1>1, <1>3, Complete, Stands, Aborts
<1>4. CASE main' = NotSwitching
  BY <1>1, <1>2, <1>4, EndsQuietly
<1>5. CASE main' = [main EXCEPT !.pc = "commit"] /\ adapter = "claude-code"
  <2>1. /\ main'.pc = "commit"
        /\ main'.todo = main.todo /\ main'.bytes = main.bytes
        /\ main'.stored = main.stored /\ main'.saved = main.saved
        /\ main'.account = main.account /\ main'.raced = main.raced
    BY <1>5, HomeTyped DEF Switching
  <2>2. Moves /\ Moves'
    BY <1>1, <2>1 DEF Moves
  <2>3. JournalAt'
    BY <1>1, <1>5, <2>1 DEF HomeInv, JournalAt
  <2>4. Undamaged'
    BY <1>1, <1>2, <2>1, <2>2 DEF HomeInv, Undamaged
  <2>5. Alone'
    BY <1>1, <2>1 DEF HomeInv, Alone, Looked
  <2>6. LiveAt'
    BY <1>1, <1>2, <2>1 DEF HomeInv, LiveAt
  <2>7. Paired'
    BY <1>1, <1>2, <2>1, <2>2 DEF HomeInv, Paired, OneAccount
  <2>8. StoredAt'
    BY <1>2, <2>1, <2>2 DEF HomeInv, StoredAt
  <2> QED
    BY <2>3, <2>4, <2>5, <2>6, <2>7, <2>8 DEF HomeInv
<1> QED
  BY <1>1, <1>3, <1>4, <1>5

LEMMA CommitHome ==
  ASSUME TypeOK, HomeInv, NEW removed \in BOOLEAN, Commit(removed)
  PROVE  HomeInv'
<1>1. /\ UNCHANGED <<adapter, slots, live, tool, beside>> /\ main.pc = "commit"
      /\ journal' = IF removed THEN NoJournal ELSE journal
      /\ main' = IF removed THEN NotSwitching ELSE Abort
  BY DEF Commit
<1>2. CASE ~removed
  BY <1>1, <1>2, Complete, Stands, Aborts
<1>3. CASE removed
  <2>1. ASSUME adapter = "claude-code", shared = {}, ~beside PROVE OneAccount(live)
    <3>1. ~main.raced /\ Files = File
      BY <2>1, HomeTyped DEF HomeInv, Alone
    <3>2. /\ "credentials" \in File /\ "identity" \in File
          /\ \A f \in File : live[f] = main.bytes[f] /\ main.bytes[f] \in Credential
      BY <1>1, <3>1, Complete, HomeTyped DEF HomeInv, Undamaged, Moves
    <3>3. main.bytes["credentials"] = main.bytes["identity"]
      BY <1>1, <2>1 DEF HomeInv, Paired, Moves
    <3> QED
      BY <3>2, <3>3 DEF OneAccount
  <2>2. main' = NotSwitching /\ shared' = shared /\ journal' = NoJournal /\ live' = live
    BY <1>1, <1>3 DEF slots
  <2>3. \A f \in File : live'[f] # Torn /\ journal'.backup[f] # Torn
    BY <2>2, Stands, NoBackup
  <2>4. ~journal'.pending
    BY <2>2, NoBackup
  <2> QED
    BY <1>1, <2>1, <2>2, <2>3, <2>4, Ends
<1> QED
  BY <1>2, <1>3

(* A restore puts back what was live before the switch.                    *)
LEMMA PutsBack ==
  ASSUME TypeOK, HomeInv, Restoring, NEW f \in File
  PROVE  /\ adapter = "claude-code" => journal.pending /\ Backup = journal.backup
         /\ main.pc = "abort" => Backup = main.saved
         /\ \A g \in File : PutBack(f)[g] = IF g = f THEN Backup[g] ELSE live[g]
         /\ \A g \in File : PutBack(f)[g] # Torn
<1>1. main.pc = "abort" => Backup = main.saved
  BY DEF Backup
<1>2. adapter = "claude-code" => journal.pending /\ Backup = journal.backup
  BY DEF HomeInv, JournalAt, Restoring, Backup
<1>3. Backup[f] # Torn
  BY DEF Backup, HomeInv, Undamaged
<1>4. \A g \in File : PutBack(f)[g] = IF g = f THEN Backup[g] ELSE live[g]
  BY HomeTyped DEF PutBack
<1>5. \A g \in File : PutBack(f)[g] # Torn
  BY <1>3, <1>4 DEF HomeInv, Undamaged
<1> QED
  BY <1>1, <1>2, <1>4, <1>5

LEMMA RestoreFileHome ==
  ASSUME TypeOK, HomeInv, NEW f \in File, RestoreFile(f)
  PROVE  HomeInv'
<1>1. /\ UNCHANGED <<adapter, slots, tool, journal, beside>> /\ Restoring
      /\ f \in main.todo /\ live' = PutBack(f)
      /\ main'.pc = main.pc /\ main'.todo = main.todo \ {f} /\ main'.bytes = main.bytes
      /\ main'.stored = main.stored /\ main'.saved = main.saved
      /\ main'.account = main.account /\ main'.raced = main.raced
  BY HomeTyped DEF RestoreFile, RestoresNext, Switching
<1>2. shared' = shared /\ promised' = promised /\ slot' = slot /\ Files' = Files
  BY <1>1 DEF slots, Files
<1>3. Moves' = Moves
  BY <1>1 DEF Moves
<1>4. /\ adapter = "claude-code" => journal.pending /\ Backup = journal.backup
      /\ main.pc = "abort" => Backup = main.saved
      /\ \A g \in File : live'[g] = IF g = f THEN Backup[g] ELSE live[g]
      /\ \A g \in File : live'[g] # Torn
  BY <1>1, PutsBack
<1>5. main.pc = "recover" => Backup = journal.backup
  BY DEF Backup
<1>6. JournalAt'
  BY <1>1 DEF HomeInv, JournalAt
<1>7. Undamaged'
  BY <1>1, <1>2, <1>3, <1>4 DEF HomeInv, Undamaged
<1>8. Alone'
  BY <1>1 DEF HomeInv, Alone, Looked
<1>9. LiveAt'
  <2>1. main.pc \in {"recover", "abort"}
    BY <1>1 DEF Restoring
  <2>2. main'.todo \subseteq Files /\ f \in Files /\ Files \subseteq File
    BY <1>1, HomeTyped DEF HomeInv, LiveAt
  <2>3. CASE main.pc = "abort"
    BY <1>1, <1>2, <1>4, <2>2, <2>3 DEF HomeInv, LiveAt
  <2>4. CASE main.pc = "recover"
    BY <1>1, <1>2, <1>4, <1>5, <2>2, <2>4 DEF HomeInv, LiveAt
  <2> QED
    BY <2>1, <2>3, <2>4
<1>10. Paired'
  BY <1>1, <1>2, <1>3, <1>4 DEF HomeInv, Paired, OneAccount
<1>11. StoredAt'
  BY <1>1, <1>2, <1>3 DEF HomeInv, StoredAt
<1> QED
  BY <1>6, <1>7, <1>8, <1>9, <1>10, <1>11 DEF HomeInv

LEMMA RestoreFailsHome ==
  ASSUME TypeOK, HomeInv, RestoreFails
  PROVE  HomeInv'
<1>1. /\ UNCHANGED <<adapter, slots, tool, journal, beside>> /\ Restoring
      /\ main' = NotSwitching
      /\ live' = live \/ \E f \in File : live' = PutBack(f)
  BY DEF RestoreFails
<1>2. \A f \in File : live'[f] # Torn
  BY <1>1, PutsBack, Stands
<1>3. adapter = "claude-code" => journal.pending
  BY <1>1 DEF HomeInv, JournalAt, Restoring
<1>4. shared' = shared /\ journal' = journal
  BY <1>1 DEF slots
<1>5. adapter = "claude-code" /\ shared = {} /\ ~beside
        => OneAccount(IF journal'.pending THEN journal'.backup ELSE live')
  BY <1>3, <1>4, Stands
<1> QED
  BY <1>1, <1>2, <1>4, <1>5, Stands, Ends

LEMMA RestoredHome ==
  ASSUME TypeOK, HomeInv, NEW removed \in BOOLEAN, Restored(removed)
  PROVE  HomeInv'
<1>1. /\ UNCHANGED <<adapter, slots, live, tool, beside>> /\ main' = NotSwitching
      /\ main.pc \in {"recover", "abort"} /\ main.todo = {}
      /\ journal' = IF removed THEN NoJournal ELSE journal
  BY DEF Restored, Restoring
<1>2. shared' = shared
  BY <1>1 DEF slots
<1>3. CASE ~removed
  BY <1>1, <1>2, <1>3, EndsQuietly
<1>4. CASE removed
  <2>1. ASSUME adapter = "claude-code", shared = {}, ~beside PROVE OneAccount(live)
    <3>1. Files = File /\ ~main.raced /\ journal.pending
      BY <1>1, <2>1, HomeTyped DEF HomeInv, Alone, JournalAt
    <3>2. \A f \in File : live[f] = journal.backup[f]
      BY <1>1, <2>1, <3>1 DEF HomeInv, LiveAt, JournalAt
    <3>3. OneAccount(journal.backup) /\ "credentials" \in File /\ "identity" \in File
      BY <2>1, <3>1, Stands, HomeTyped
    <3> QED
      BY <3>2, <3>3 DEF OneAccount
  <2>2. journal' = NoJournal /\ live' = live
    BY <1>1, <1>4
  <2>3. \A f \in File : live'[f] # Torn /\ journal'.backup[f] # Torn
    BY <2>2, Stands, NoBackup
  <2>4. ~journal'.pending
    BY <2>2, NoBackup
  <2> QED
    BY <1>1, <1>2, <2>1, <2>2, <2>3, <2>4, Ends
<1> QED
  BY <1>3, <1>4

LEMMA ToolStartsHome ==
  ASSUME TypeOK, HomeInv, ToolStarts
  PROVE  HomeInv'
<1>1. /\ UNCHANGED <<adapter, slots, live, journal>> /\ ~tool /\ tool'
      /\ main' = IF Looked THEN [main EXCEPT !.raced = TRUE] ELSE main
      /\ beside' = (beside \/ (adapter = "claude-code" /\ (Looked \/ journal.pending)))
  BY DEF ToolStarts
<1>2. /\ main'.pc = main.pc /\ main'.todo = main.todo /\ main'.bytes = main.bytes
      /\ main'.stored = main.stored /\ main'.saved = main.saved
      /\ main'.account = main.account
      /\ Looked => main'.raced
      /\ ~Looked => main'.raced = main.raced
  BY <1>1, HomeTyped DEF Switching
<1>3. shared' = shared /\ promised' = promised /\ slot' = slot /\ Files' = Files
  BY <1>1 DEF slots, Files
<1>4. Moves' = Moves /\ Looked' = Looked
  BY <1>2 DEF Moves, Looked
<1>5. JournalAt'
  BY <1>1, <1>2 DEF HomeInv, JournalAt
<1>6. Undamaged'
  BY <1>1, <1>2, <1>3, <1>4 DEF HomeInv, Undamaged
<1>7. Alone'
  <2>1. Looked' => main'.raced
    BY <1>2, <1>4
  <2>2. adapter = "claude-code" /\ main'.raced => beside'
    BY <1>1, <1>2 DEF HomeInv, Alone
  <2>3. journal.pending => beside'
    BY <1>1, HomeTyped DEF HomeInv, JournalAt
  <2> QED
    BY <1>1, <2>1, <2>2, <2>3 DEF Alone
<1>8. LiveAt'
  BY <1>1, <1>2, <1>3 DEF HomeInv, LiveAt, Looked
<1>9. Paired'
  BY <1>1, <1>2, <1>3, <1>4 DEF HomeInv, Paired, OneAccount
<1>10. StoredAt'
  BY <1>2, <1>3, <1>4 DEF HomeInv, StoredAt
<1> QED
  BY <1>5, <1>6, <1>7, <1>8, <1>9, <1>10 DEF HomeInv

LEMMA ToolHome ==
  ASSUME TypeOK, HomeInv, ToolStops \/ \E credential \in Credential : ToolSignsIn(credential)
  PROVE  HomeInv'
<1>1. UNCHANGED <<adapter, slots, journal, main, beside>> /\ tool
  BY DEF ToolStops, ToolSignsIn
<1>2. shared' = shared /\ promised' = promised /\ slot' = slot /\ Files' = Files
      /\ Moves' = Moves
  BY <1>1 DEF slots, Files, Moves
(* Whoever finds the vendor tool running is not in a switch that is alone. *)
<1>3. /\ Looked => main.raced
      /\ main.pc = "recover" => beside
      /\ journal.pending => beside
  BY <1>1 DEF HomeInv, Alone, JournalAt
<1>4. CASE ToolStops
  <2>1. live' = live /\ ~tool'
    BY <1>4 DEF ToolStops
  <2> QED
    BY <1>1, <1>2, <2>1 DEF HomeInv, JournalAt, Undamaged, Alone, Looked, LiveAt, Paired,
       OneAccount, StoredAt
<1>5. ASSUME NEW credential \in Credential, ToolSignsIn(credential) PROVE HomeInv'
  <2>1. /\ tool' = tool
        /\ \A f \in File : live'[f] = IF f \in Files THEN credential ELSE None
    BY <1>5 DEF ToolSignsIn
  <2>2. JournalAt' /\ Alone' /\ StoredAt'
    BY <1>1, <1>2, <2>1 DEF HomeInv, JournalAt, Alone, Looked, StoredAt
  <2>3. Undamaged'
    BY <1>1, <1>2, <2>1, ContentParts DEF HomeInv, Undamaged
  <2>4. LiveAt'
    BY <1>1, <1>2, <1>3 DEF HomeInv, LiveAt, Looked
  <2>5. adapter = "claude-code" => OneAccount(live')
    BY <2>1, HomeTyped DEF OneAccount
  <2>6. Paired'
    BY <1>1, <1>2, <1>3, <2>5 DEF HomeInv, Paired
  <2> QED
    BY <2>2, <2>3, <2>4, <2>6 DEF HomeInv
<1> QED
  BY <1>4, <1>5

LEMMA HomeStep ==
  ASSUME TypeOK, SlotInv, HomeInv, [Next]_vars
  PROVE  HomeInv'
<1>1. CASE UNCHANGED vars
  <2>1. UNCHANGED <<adapter, home>> /\ shared \subseteq shared'
    BY <1>1 DEF vars, slots
  <2>2. StoredAt'
    BY <1>1 DEF vars, slots, home, HomeInv, StoredAt, Moves, Files
  <2> QED
    BY <2>1, <2>2, HomeSame
<1>2. CASE \/ \E w \in Worker : AddStep(w)
           \/ \E c \in Login : LoginStep(c)
           \/ \E a \in Account, left \in Leftovers : DeleteAccount(a, left)
  BY <1>2, HomeBySlots
<1>3. CASE SwitchStep
  <2>1. CASE Refuses
    BY <2>1, EndsQuietly DEF Refuses, slots
  <2> QED
    BY <1>3, <2>1, StartsHome, LoadHome, SnapshotHome, JournalHome, WriteHome, VerifyHome,
       CommitHome, RestoreFileHome, RestoreFailsHome, RestoredHome DEF SwitchStep
<1>4. CASE ToolStep
  BY <1>4, ToolStartsHome, ToolHome DEF ToolStep
<1>5. ASSUME NEW orphans \in SUBSET Login, Crash(orphans) PROVE HomeInv'
  BY <1>5, EndsQuietly DEF Crash
<1> QED
  BY <1>1, <1>2, <1>3, <1>4, <1>5 DEF Next

-----------------------------------------------------------------------------
(***************************************************************************)
(* The inductive invariant.                                                *)
(***************************************************************************)
LEMMA InitInv == Init => IInv
<1> SUFFICES ASSUME Init PROVE IInv
  OBVIOUS
<1>1. TypeOK
  <2>1. NoFiles \in Contents /\ None \in Content
    BY ContentParts DEF NoFiles, Contents
  <2>2. slot \in [Account -> Slot]
    BY <2>1 DEF Init, NoSlot, Slot
  <2>3. /\ add \in [Worker -> Adding] /\ login \in [Login -> Child]
        /\ \A w \in Worker : add[w] = NotAdding
    BY DEF Init, NotAdding, Adding, NotRunning, Child
  <2>4. live \in Contents /\ tool \in BOOLEAN /\ main \in Switching
    BY <2>1 DEF Init, NotSwitching, Switching
  <2>5. journal \in Journal /\ beside \in BOOLEAN
    BY <2>1 DEF Init, NoJournal, Journal
  <2>6. Looked <=> main.account # NoAccount
    BY DEF Init, NotSwitching, Looked
  <2> QED
    BY <2>2, <2>3, <2>4, <2>5, <2>6, Bounds DEF Init, TypeOK, NotAdding
<1>2. None # Torn /\ None \notin Credential
  BY ContentParts
<1>3. SlotInv
  BY <1>2, Absences DEF Init, SlotInv, Waiting, OneUser, Settled, Homes, Written,
     PairOfOneSignIn, NoSlot, NoFiles, NotAdding, NotRunning
<1>4. /\ main.pc = "idle" /\ ~main.raced /\ main.todo = {} /\ ~journal.pending /\ ~tool
      /\ \A f \in File : live[f] = None /\ main.saved[f] = None /\ journal.backup[f] = None
  BY DEF Init, NotSwitching, NoJournal, NoFiles
<1>5. "credentials" \in File
  BY DEF File
<1>6. HomeInv
  BY <1>2, <1>4, <1>5 DEF HomeInv, JournalAt, Undamaged, Alone, LiveAt, Paired, StoredAt,
     Moves, Looked, OneAccount
<1> QED
  BY <1>1, <1>3, <1>6 DEF IInv

LEMMA StepInv == IInv /\ [Next]_vars => IInv'
BY TypeStep, SlotStep, HomeStep DEF IInv

LEMMA Inductive == Spec => []IInv
BY InitInv, StepInv, PTL DEF Spec

(* Every variable keeps its type: a worker works on an account from the    *)
(* moment prepare_managed_dir lets it in until its add has answered.       *)
THEOREM TypeCorrect == Spec => []TypeOK
BY Inductive, PTL DEF IInv

(* require_auth_json and require_managed_identity let no add answer ok     *)
(* over anything but usable files, and prepare_managed_dir lets nobody     *)
(* into a directory that holds some.                                       *)
THEOREM StoredHeld == Spec => []KeepsStored
<1>1. IInv => KeepsStored
  BY DEF IInv, SlotInv, Settled, KeepsStored
<1> QED
  BY <1>1, Inductive, PTL

(* The files of one directory are written by one sign-in: a directory      *)
(* without the vendor's files is all that prepare_managed_dir reuses.      *)
THEOREM PairHeld == Spec => []PairOfOneSignIn
BY Inductive, PTL DEF IInv, SlotInv

(* Between the two writes of a Claude Code switch, after a failed or half  *)
(* reported one, in the middle of abort_switch or recover and after a      *)
(* crash at any of these places, either the live pair is of one account or *)
(* the journal is there and names a backup whose pair is.                  *)
THEOREM LiveHeld == Spec => []LiveIsWhole
<1>1. IInv => LiveIsWhole
  BY DEF IInv, HomeInv, Undamaged, Paired, LiveIsWhole
<1> QED
  BY <1>1, Inductive, PTL

(* Neither verification nor clear_journal lets a switch answer ok over     *)
(* files that are not those of the account, or under a journal: nothing    *)
(* that the adds on other threads do to the slots in the meantime changes  *)
(* what has been read of a stored one.                                     *)
THEOREM SwitchedStaysHeld == Spec => SwitchedStays
<1> DEFINE Stayed ==
      main.pc \in {"verify", "commit"} /\ main'.pc = "idle" /\ crashes' = crashes
        /\ main.stored /\ ~main.raced
        => main.account \in Matching' /\ ~journal'.pending
<1>1. ASSUME IInv, [Next]_vars,
             main.pc \in {"verify", "commit"}, main'.pc = "idle", crashes' = crashes,
             main.stored, ~main.raced
      PROVE  main.account \in Matching' /\ ~journal'.pending
  <2> DEFINE a == main.account
  <2>1. TypeOK /\ SlotInv /\ HomeInv
    BY <1>1 DEF IInv
  <2>2. SwitchStep
    <3>1. main' # main
      BY <1>1
    <3> QED
      BY <1>1, <2>1, <3>1, SlotsType, Bounds DEF Next, Crash, TypeOK, vars, home,
         ToolStep, ToolStarts, Looked, ToolStops, ToolSignsIn, Switching
  <2>3. /\ live' = live /\ ~journal'.pending
    <3>1. CASE \E readable \in BOOLEAN : Verify(readable)
      BY <1>1, <2>1, <3>1, HomeTyped DEF Verify, HomeInv, JournalAt, Abort
    <3>2. CASE \E removed \in BOOLEAN : Commit(removed)
      BY <1>1, <3>2, NoBackup, <2>1, HomeTyped DEF Commit, Abort, Switching
    <3> QED
      BY <1>1, <2>2, <3>1, <3>2 DEF SwitchStep, StartRecovery, StartSwitch, Refuses, Load,
         SnapshotTaken, WriteJournal, WriteLive, RestoreFile, RestoreFails, Restored,
         Restoring
  <2>4. UNCHANGED <<adapter, slots>>
    BY <2>1, <2>2, HomeType
  <2>5. /\ a \in promised \ shared /\ a \in Account
        /\ \A f \in Files : slot[a].file[f] = main.bytes[f] /\ live[f] = main.bytes[f]
                            /\ main.bytes[f] \in Credential
    BY <1>1, <2>1, Complete DEF HomeInv, StoredAt, Undamaged, Moves, TypeOK
  <2>6. slot[a].dir /\ slot[a].file["credentials"] # Torn
    <3>1. "credentials" \in Files /\ "credentials" \in File
      BY <2>1, HomeTyped
    <3>2. slot[a].file["credentials"] \in Credential
      BY <2>5, <3>1
    <3>3. NoFiles["credentials"] = None
      BY <3>1 DEF NoFiles
    <3> QED
      BY <2>1, <2>5, <3>2, <3>3, ContentParts DEF SlotInv, Homes
  <2>7. a \in Matching
    BY <2>1, <2>5, <2>6, HomeTyped DEF Matching, ListedUsable, Listed, Usable, LiveReadable
  <2>8. Matching' = Matching
    BY <2>3, <2>4 DEF slots, Matching, ListedUsable, Listed, Usable, LiveReadable, Files
  <2> QED
    BY <2>3, <2>7, <2>8
<1>2. IInv /\ [Next]_vars => [Stayed]_vars
  BY <1>1
<1> QED
  BY <1>2, Inductive, PTL DEF Spec, SwitchedStays

(* activate_account answers an error only over the live files it found, or *)
(* says that abort_switch could not restore them.                          *)
THEOREM RefusedHeld == Spec => RefusedChangesNothing
<1> DEFINE Kept == \/ live' = main.saved
                   \/ main.pc \in {"verify", "commit"}
                      /\ \A f \in Files : live'[f] = main.bytes[f]
                   \/ RestoreFailed
           Refused ==
             main.pc \in {"note", "write", "verify", "commit", "abort"} /\ main'.pc = "idle"
               /\ ~main.raced /\ crashes' = crashes => Kept
<1>1. ASSUME IInv, [Next]_vars,
             main.pc \in {"note", "write", "verify", "commit", "abort"}, main'.pc = "idle",
             ~main.raced, crashes' = crashes
      PROVE  Kept
  <2>1. TypeOK /\ HomeInv
    BY <1>1 DEF IInv
  <2>2. SwitchStep
    <3>1. main' # main
      BY <1>1
    <3> QED
      BY <1>1, <2>1, <3>1, SlotsType, Bounds DEF Next, Crash, TypeOK, vars, home,
         ToolStep, ToolStarts, Looked, ToolStops, ToolSignsIn, Switching
  <2>3. CASE \E written, reported \in BOOLEAN : WriteJournal(written, reported)
    BY <1>1, <2>1, <2>3 DEF WriteJournal, HomeInv, LiveAt
  <2>4. ASSUME NEW f \in File, NEW replaced \in BOOLEAN, NEW reported \in BOOLEAN,
               WriteLive(f, replaced, reported)
        PROVE  FALSE
    BY <1>1, <2>1, <2>4, HomeTyped DEF WriteLive, Abort, Switching
  <2>5. CASE \E readable \in BOOLEAN : Verify(readable)
    BY <1>1, <2>1, <2>5, Complete DEF Verify
  <2>6. CASE \E removed \in BOOLEAN : Commit(removed)
    BY <1>1, <2>1, <2>6, Complete DEF Commit
  <2>7. CASE RestoreFails
    BY <1>1, <2>7 DEF RestoreFails, Restoring, RestoreFailed
  <2>8. CASE \E removed \in BOOLEAN : Restored(removed)
    <3>1. live' = live /\ main.pc = "abort" /\ main.todo = {}
      BY <1>1, <2>8 DEF Restored, Restoring
    <3>2. \A f \in File : live[f] = main.saved[f]
      BY <1>1, <2>1, <3>1 DEF HomeInv, LiveAt
    <3> QED
      BY <2>1, <3>1, <3>2, HomeTyped
  <2>9. ASSUME NEW f \in File, RestoreFile(f) PROVE FALSE
    BY <1>1, <2>1, <2>9, HomeTyped DEF RestoreFile, Restoring, Switching
  <2> QED
    BY <1>1, <2>2, <2>3, <2>4, <2>5, <2>6, <2>7, <2>8, <2>9 DEF SwitchStep, StartRecovery,
       StartSwitch, Refuses, Load, SnapshotTaken
<1>2. IInv /\ [Next]_vars => [Refused]_vars
  BY <1>1
<1> QED
  BY <1>2, Inductive, PTL DEF Spec, RefusedChangesNothing

(* activate_account takes its backup before the first write and refuses    *)
(* while the vendor tool runs: what it or abort_switch replaces is in that *)
(* backup, or is what the switch itself has written.                       *)
THEOREM BackedUpHeld == Spec => ReplacedIsBackedUp
<1> DEFINE Kept == \A f \in File : live'[f] # live[f]
                     => live[f] \in {main.saved[f], main.bytes[f]} \/ main.raced
           BackedUp == ~tool /\ main.pc # "recover" => Kept
<1>1. ASSUME IInv, [Next]_vars, ~tool, main.pc # "recover", ~main.raced,
             NEW f \in File, live'[f] # live[f]
      PROVE  live[f] \in {main.saved[f], main.bytes[f]}
  <2>1. TypeOK /\ HomeInv
    BY <1>1 DEF IInv
  <2>2. SwitchStep
    BY <1>1, <2>1, SlotsType DEF Next, Crash, vars, home, ToolStep, ToolStarts, ToolStops,
       ToolSignsIn
  <2>3. main.pc \in {"write", "abort"}
    BY <1>1, <2>2 DEF SwitchStep, StartRecovery, StartSwitch, Refuses, Load, SnapshotTaken,
       WriteJournal, WriteLive, Verify, Commit, RestoreFile, RestoreFails, Restored, Restoring
  <2> QED
    BY <1>1, <2>1, <2>3 DEF HomeInv, LiveAt
<1>2. IInv /\ [Next]_vars => [BackedUp]_vars
  BY <1>1
<1> QED
  BY <1>2, Inductive, PTL DEF Spec, ReplacedIsBackedUp
=============================================================================
