--------------------------- MODULE StoredAccounts ---------------------------
(***************************************************************************)
(* The core-owned life of a stored account: a row of the durable registry  *)
(* stored-accounts.json, the credential-store entry or vendor home the row *)
(* stands for, and the four operations that move both -- add, select,      *)
(* delete, launch.                                                         *)
(*                                                                         *)
(* Processes, as the desktop schedules them:                               *)
(*   - an add runs on a blocking worker thread, one per invocation;        *)
(*   - select, delete and launch are synchronous commands: the main thread *)
(*     runs one of them at a time, to its end;                             *)
(*   - the user interface lets one mutation out at a time (`gate`), and    *)
(*     forgets that it did when the webview is reloaded;                   *)
(*   - vendor processes (a login child, a launched tool) outlive a crash.  *)
(* Every registry call is one atomic step: it runs under the process-wide  *)
(* STORED_ACCOUNTS_LOCK and replaces the document by a rename.  A write    *)
(* whose directory sync fails has happened although the caller sees an     *)
(* error.  Identities are (provider, id) pairs: the members of Key.        *)
(***************************************************************************)
EXTENDS Naturals, FiniteSets

CONSTANTS
  Key,            \* account identities
  NoKey,          \* no identity
  Provider,       \* launch-environment providers
  ProviderOf,     \* the provider of an identity
  Kinds,          \* the material classes a provider's account plans offer
  Guarded,        \* providers whose adapter guards and gates its homes (Grok)
  Worker,         \* blocking worker threads
  ReloadAllowed,  \* may the webview be reloaded under an outstanding command
  RecoverAtStart, \* does start-up run StoredAccountRegistry::recover
  MaxCrashes      \* bound on crashes

Material == {"CredentialStore", "VendorHome"}

ASSUME IdentityAssumption ==
  /\ NoKey \notin Key
  /\ ProviderOf \in [Key -> Provider]
  /\ Kinds \in [Provider -> SUBSET Material]
  /\ Guarded \subseteq Provider
  /\ \A p \in Guarded : Kinds[p] = {"VendorHome"}
ASSUME ProcessAssumption ==
  /\ "main" \notin Worker /\ "none" \notin Worker
  /\ ReloadAllowed \in BOOLEAN /\ RecoverAtStart \in BOOLEAN
  /\ MaxCrashes \in Nat

VARIABLES
  lifecycle,  \* registry: state of the row of an identity, or "Absent"
  material,   \* registry: material class of the row, or "None"
  selected,   \* registry: identities whose row has is_selected
  secrets,    \* identities with an entry in the credential store
  homes,      \* vendor home of an identity
  guard,      \* ACTIVE_HOME_OPERATIONS: homes a manager operation is using
  add,        \* the add transaction of each worker
  main,       \* the synchronous command on the main thread
  gate,       \* the mutation the user interface waits for
  up,         \* is the application running
  tool,       \* the launched tool of an account with a guarded home
  orphans,    \* homes with a login child whose application has died
  crashes     \* crashes so far

registry == <<lifecycle, material, selected>>
vendor == <<tool, orphans>>
vars == <<lifecycle, material, selected, secrets, homes, guard, add, main,
          gate, up, tool, orphans, crashes>>

AddPc == {"idle", "begun", "approach", "login", "verify", "provisioned"}
MainPc == {"idle", "current", "target", "select",
           "validate", "mark", "erase", "finish", "prepare", "spawn"}

IdleAdd == [pc |-> "idle", key |-> NoKey, material |-> "None"]
IdleMain == [pc |-> "idle", key |-> NoKey, material |-> "None",
             seen |-> "Absent"]

Lifecycle == {"Absent", "Pending", "Complete", "Deleting"}
AddRecord == {IdleAdd} \cup
  [pc : AddPc \ {"idle"}, key : Key, material : Material]
MainRecord == {IdleMain} \cup
  [pc : MainPc \ {"idle"}, key : Key, material : Material,
   seen : Lifecycle \ {"Absent"}]

(* Every variable holds what the program can hold: a row has a material    *)
(* class exactly when it exists, and a command that runs names a row it    *)
(* has read.                                                               *)
TypeOK ==
  /\ lifecycle \in [Key -> Lifecycle]
  /\ material \in [Key -> Material \cup {"None"}]
  /\ \A k \in Key : lifecycle[k] = "Absent" <=> material[k] = "None"
  /\ selected \in SUBSET Key
  /\ secrets \in SUBSET Key
  /\ homes \in [Key -> {"none", "empty", "creds", "ready"}]
  /\ guard \in SUBSET Key
  /\ add \in [Worker -> AddRecord]
  /\ main \in MainRecord
  /\ gate \in Worker \cup {"main", "none"}
  /\ up \in BOOLEAN
  /\ tool \in [Key -> {"none", "started", "registered"}]
  /\ orphans \in SUBSET Key
  /\ crashes \in Nat

Init ==
  /\ lifecycle = [k \in Key |-> "Absent"]
  /\ material = [k \in Key |-> "None"]
  /\ selected = {} /\ secrets = {}
  /\ homes = [k \in Key |-> "none"]
  /\ guard = {}
  /\ add = [w \in Worker |-> IdleAdd]
  /\ main = IdleMain
  /\ gate = "none" /\ up = TRUE
  /\ tool = [k \in Key |-> "none"]
  /\ orphans = {} /\ crashes = 0

-----------------------------------------------------------------------------
(***************************************************************************)
(* The registry document.                                                  *)
(***************************************************************************)
IsGuarded(k) == ProviderOf[k] \in Guarded
Peers(k) == {j \in Key : ProviderOf[j] = ProviderOf[k]}
SelectedOf(p) == {k \in selected : ProviderOf[k] = p /\ lifecycle[k] = "Complete"}

(* validate_document: read and write both refuse anything else.            *)
ValidDocument(state, chosen) ==
  /\ \A k \in chosen : state[k] = "Complete"
  /\ \A j, k \in chosen : ProviderOf[j] = ProviderOf[k] => j = k

WriteDocument(state, class, chosen) ==
  /\ ValidDocument(state, chosen)
  /\ lifecycle' = state /\ material' = class /\ selected' = chosen

-----------------------------------------------------------------------------
(***************************************************************************)
(* What an adapter checks of an account's home.                            *)
(***************************************************************************)
(* gate_managed_home: the directory, no live registered session, and with  *)
(* requireAuth a usable auth file.                                         *)
GateHome(k, requireAuth) ==
  /\ homes[k] # "none"
  /\ tool[k] # "registered"
  /\ requireAuth => homes[k] = "ready"

(* launch_spec: an API-key account is not looked at beyond its settings.   *)
LaunchValidates(k, class) ==
  class = "VendorHome" =>
    /\ homes[k] = "ready"
    /\ IsGuarded(k) => k \notin guard /\ GateHome(k, TRUE)

(* validate_stored_account_delete: a missing home passes only for a row    *)
(* that is Pending; an existing one goes through the gate where there is   *)
(* one.                                                                    *)
DeleteValidates(k, class, state) ==
  class = "VendorHome" =>
    \/ homes[k] = "none" /\ state = "Pending"
    \/ /\ homes[k] # "none"
       /\ IsGuarded(k) => k \notin guard /\ GateHome(k, FALSE)

-----------------------------------------------------------------------------
(***************************************************************************)
(* Add: begin_add, provision, store the secret, complete_add.              *)
(***************************************************************************)
UiFree == up /\ gate = "none"

SetPc(w, pc) == add' = [add EXCEPT ![w].pc = pc]

AddEnds(w) ==
  /\ add' = [add EXCEPT ![w] = IdleAdd]
  /\ gate' = IF gate = w THEN "none" ELSE gate

(* A worker inside the Grok adapter holds the home of its account.         *)
Holds(w) ==
  /\ add[w].pc \in {"approach", "login", "verify"}
  /\ IsGuarded(add[w].key)

(* begin_add: the Pending row is durable before anything else exists.  A   *)
(* write that reports an error after its rename ends the add here.         *)
BeginAdd(w, k, class) ==
  /\ UiFree
  /\ add[w].pc = "idle"
  /\ class \in Kinds[ProviderOf[k]]
  /\ lifecycle[k] = "Absent"
  /\ WriteDocument([lifecycle EXCEPT ![k] = "Pending"],
                   [material EXCEPT ![k] = class], selected)
  /\ \/ /\ add' = [add EXCEPT ![w] = [pc |-> "begun", key |-> k,
                                      material |-> class]]
        /\ gate' = w
     \/ UNCHANGED <<add, gate>>
  /\ UNCHANGED <<secrets, homes, guard, main, up, vendor, crashes>>

(* Mutant: the result of the put is not looked at.                         *)
PutSecretUnchecked(w) ==
  /\ add[w].pc = "begun" /\ add[w].material = "CredentialStore"
  /\ SetPc(w, "provisioned")
  /\ UNCHANGED <<registry, secrets, homes, guard, main, gate, up, vendor, crashes>>

(* import_api_key and CredentialStore::put.                                *)
PutSecret(w) ==
  /\ add[w].pc = "begun" /\ add[w].material = "CredentialStore"
  /\ secrets' = secrets \cup {add[w].key}
  /\ SetPc(w, "provisioned")
  /\ UNCHANGED <<registry, homes, guard, main, gate, up, vendor, crashes>>

(* Mutant: the home is inserted into the active set unconditionally.       *)
OpenHomeShared(w) ==
  LET k == add[w].key IN
  /\ add[w].pc = "begun" /\ add[w].material = "VendorHome"
  /\ guard' = IF IsGuarded(k) THEN guard \cup {k} ELSE guard
  /\ homes' = [homes EXCEPT ![k] = IF @ = "none" THEN "empty" ELSE @]
  /\ SetPc(w, IF homes[k] \in {"creds", "ready"} THEN "verify" ELSE "approach")
  /\ UNCHANGED <<registry, secrets, main, gate, up, vendor, crashes>>

(* The home is claimed (Grok), created if missing, and looked into: auth   *)
(* material left by an earlier login is adopted without a second one.      *)
OpenHome(w) ==
  LET k == add[w].key IN
  /\ add[w].pc = "begun" /\ add[w].material = "VendorHome"
  /\ IsGuarded(k) => k \notin guard
  /\ guard' = IF IsGuarded(k) THEN guard \cup {k} ELSE guard
  /\ homes' = [homes EXCEPT ![k] = IF @ = "none" THEN "empty" ELSE @]
  /\ SetPc(w, IF homes[k] \in {"creds", "ready"} THEN "verify" ELSE "approach")
  /\ UNCHANGED <<registry, secrets, main, gate, up, vendor, crashes>>

StartLogin(w) ==
  LET k == add[w].key IN
  /\ add[w].pc = "approach"
  /\ IsGuarded(k) => GateHome(k, FALSE)
  /\ SetPc(w, "login")
  /\ UNCHANGED <<registry, secrets, homes, guard, main, gate, up, vendor, crashes>>

(* The vendor's login has written its credential; Gemini's home still      *)
(* lacks the settings that make the credential the effective one.          *)
LoginSucceeds(w) ==
  LET k == add[w].key IN
  /\ add[w].pc = "login"
  /\ homes' = [homes EXCEPT ![k] =
                 IF IsGuarded(k) \/ @ = "ready" THEN "ready" ELSE "creds"]
  /\ SetPc(w, "verify")
  /\ UNCHANGED <<registry, secrets, guard, main, gate, up, vendor, crashes>>

(* Grok: the gate again, then the guard is dropped.  Gemini: the           *)
(* credential file is checked and the managed settings are written.        *)
VerifyHome(w) ==
  LET k == add[w].key IN
  /\ add[w].pc = "verify"
  /\ IF IsGuarded(k)
     THEN GateHome(k, TRUE) /\ guard' = guard \ {k} /\ UNCHANGED homes
     ELSE /\ homes[k] \in {"creds", "ready"}
          /\ homes' = [homes EXCEPT ![k] = "ready"]
          /\ UNCHANGED guard
  /\ SetPc(w, "provisioned")
  /\ UNCHANGED <<registry, secrets, main, gate, up, vendor, crashes>>

CompleteAdd(w) ==
  LET k == add[w].key IN
  /\ add[w].pc = "provisioned"
  /\ lifecycle[k] = "Pending"
  /\ WriteDocument([lifecycle EXCEPT ![k] = "Complete"], material, selected)
  /\ AddEnds(w)
  /\ UNCHANGED <<secrets, homes, guard, main, up, vendor, crashes>>

(* Mutant: a failed add rolls the row of its identity back.                *)
AddFailsRollsBack(w) ==
  LET k == add[w].key IN
  /\ add[w].pc # "idle"
  /\ WriteDocument([lifecycle EXCEPT ![k] = "Absent"],
                   [material EXCEPT ![k] = "None"], selected \ {k})
  /\ guard' = IF Holds(w) THEN guard \ {k} ELSE guard
  /\ AddEnds(w)
  /\ UNCHANGED <<secrets, homes, main, up, vendor, crashes>>

(* Mutant: an error leaves the interface busy.                             *)
AddFailsBusy(w) ==
  /\ add[w].pc # "idle"
  /\ guard' = IF Holds(w) THEN guard \ {add[w].key} ELSE guard
  /\ add' = [add EXCEPT ![w] = IdleAdd]
  /\ UNCHANGED <<registry, secrets, homes, main, gate, up, vendor, crashes>>

(* Every error return of the add: the row stays as it is, the guard is     *)
(* dropped with the stack frame that holds it.                             *)
AddFails(w) ==
  /\ add[w].pc # "idle"
  /\ guard' = IF Holds(w) THEN guard \ {add[w].key} ELSE guard
  /\ AddEnds(w)
  /\ UNCHANGED <<registry, secrets, homes, main, up, vendor, crashes>>

AddStep(w) ==
  \/ PutSecret(w) \/ OpenHome(w) \/ StartLogin(w) \/ LoginSucceeds(w)
  \/ VerifyHome(w) \/ CompleteAdd(w) \/ AddFails(w)

-----------------------------------------------------------------------------
(***************************************************************************)
(* The main thread: select, delete, launch.                                *)
(***************************************************************************)
MainStarts(pc, k) ==
  /\ UiFree
  /\ main.pc = "idle"
  /\ main' = [pc |-> pc, key |-> k, material |-> material[k],
              seen |-> lifecycle[k]]
  /\ gate' = "main"

MainEnds ==
  /\ main' = IdleMain
  /\ gate' = IF gate = "main" THEN "none" ELSE gate

MainGoesTo(pc) == main' = [main EXCEPT !.pc = pc] /\ UNCHANGED gate

(* select_launch_account: `complete`, then `selected`.                     *)
StartSelect(k) ==
  /\ lifecycle[k] = "Complete"
  /\ MainStarts("current", k)
  /\ UNCHANGED <<registry, secrets, homes, guard, add, up, vendor, crashes>>

(* The account being switched away from must itself pass launch_spec.      *)
CheckCurrent ==
  /\ main.pc = "current"
  /\ \A c \in SelectedOf(ProviderOf[main.key]) \ {main.key} :
       LaunchValidates(c, material[c])
  /\ MainGoesTo("target")
  /\ UNCHANGED <<registry, secrets, homes, guard, add, up, vendor, crashes>>

CheckTarget ==
  /\ main.pc = "target"
  /\ LaunchValidates(main.key, main.material)
  /\ MainGoesTo("select")
  /\ UNCHANGED <<registry, secrets, homes, guard, add, up, vendor, crashes>>

SelectComplete ==
  /\ main.pc = "select"
  /\ lifecycle[main.key] = "Complete"
  /\ WriteDocument(lifecycle, material,
                   (selected \ Peers(main.key)) \cup {main.key})
  /\ MainEnds
  /\ UNCHANGED <<secrets, homes, guard, add, up, vendor, crashes>>

(* delete_managed_account: the row is read once, in any state.             *)
StartDelete(k) ==
  /\ lifecycle[k] # "Absent"
  /\ MainStarts("validate", k)
  /\ UNCHANGED <<registry, secrets, homes, guard, add, up, vendor, crashes>>

ValidateDelete ==
  /\ main.pc = "validate"
  /\ DeleteValidates(main.key, main.material, main.seen)
  /\ MainGoesTo("mark")
  /\ UNCHANGED <<registry, secrets, homes, guard, add, up, vendor, crashes>>

(* Mutant: begin_delete only clears the selection.                         *)
BeginDeleteKeepsRow ==
  /\ main.pc = "mark"
  /\ lifecycle[main.key] # "Absent"
  /\ WriteDocument(lifecycle, material, selected \ {main.key})
  /\ MainGoesTo("erase") \/ MainEnds
  /\ UNCHANGED <<secrets, homes, guard, add, up, vendor, crashes>>

(* Mutant: a row that is already Deleting is refused.                      *)
BeginDeleteOnce ==
  /\ main.pc = "mark"
  /\ lifecycle[main.key] \in {"Pending", "Complete"}
  /\ WriteDocument([lifecycle EXCEPT ![main.key] = "Deleting"], material,
                   selected \ {main.key})
  /\ MainGoesTo("erase") \/ MainEnds
  /\ UNCHANGED <<secrets, homes, guard, add, up, vendor, crashes>>

BeginDelete ==
  /\ main.pc = "mark"
  /\ lifecycle[main.key] # "Absent"
  /\ WriteDocument([lifecycle EXCEPT ![main.key] = "Deleting"], material,
                   selected \ {main.key})
  /\ MainGoesTo("erase") \/ MainEnds
  /\ UNCHANGED <<secrets, homes, guard, add, up, vendor, crashes>>

(* CredentialStore::delete; a vendor home is retained.                     *)
EraseSecret ==
  /\ main.pc = "erase"
  /\ secrets' = IF main.material = "CredentialStore"
                THEN secrets \ {main.key} ELSE secrets
  /\ MainGoesTo("finish")
  /\ UNCHANGED <<registry, homes, guard, add, up, vendor, crashes>>

FinishDelete ==
  /\ main.pc = "finish"
  /\ lifecycle[main.key] = "Deleting"
  /\ WriteDocument([lifecycle EXCEPT ![main.key] = "Absent"],
                   [material EXCEPT ![main.key] = "None"], selected)
  /\ MainEnds
  /\ UNCHANGED <<secrets, homes, guard, add, up, vendor, crashes>>

(* launch_provider: the selected row is read once and used to the end.     *)
StartLaunch(p) ==
  \E k \in SelectedOf(p) :
    /\ MainStarts("prepare", k)
    /\ UNCHANGED <<registry, secrets, homes, guard, add, up, vendor, crashes>>

PrepareLaunch ==
  /\ main.pc = "prepare"
  /\ LaunchValidates(main.key, main.material)
  /\ MainGoesTo("spawn")
  /\ UNCHANGED <<registry, secrets, homes, guard, add, up, vendor, crashes>>

(* spawn_launch: the secret is fetched immediately before the spawn.  What *)
(* the child does matters only where a home is gated on its session.       *)
SpawnLaunch ==
  /\ main.pc = "spawn"
  /\ main.material = "CredentialStore" => main.key \in secrets
  /\ tool' = [tool EXCEPT ![main.key] =
                IF IsGuarded(main.key) /\ @ = "none" THEN "started" ELSE @]
  /\ MainEnds
  /\ UNCHANGED <<registry, secrets, homes, guard, add, up, orphans, crashes>>

(* Every error return of a synchronous command.                            *)
MainFails ==
  /\ main.pc # "idle"
  /\ MainEnds
  /\ UNCHANGED <<registry, secrets, homes, guard, add, up, vendor, crashes>>

MainStep ==
  \/ CheckCurrent \/ CheckTarget \/ SelectComplete
  \/ ValidateDelete \/ BeginDelete \/ EraseSecret \/ FinishDelete
  \/ PrepareLaunch \/ SpawnLaunch \/ MainFails

-----------------------------------------------------------------------------
(***************************************************************************)
(* The environment: vendor processes, the webview, crashes and start-up.   *)
(***************************************************************************)
(* A launched tool records its session in its home, and later exits.       *)
ToolRegisters(k) ==
  /\ tool[k] = "started"
  /\ tool' = [tool EXCEPT ![k] = "registered"]
  /\ UNCHANGED <<registry, secrets, homes, guard, add, main, gate, up, orphans,
                 crashes>>

ToolExits(k) ==
  /\ tool[k] # "none"
  /\ tool' = [tool EXCEPT ![k] = "none"]
  /\ UNCHANGED <<registry, secrets, homes, guard, add, main, gate, up, orphans,
                 crashes>>

(* The user signs out with the vendor's own tool.                          *)
VendorLogout(k) ==
  /\ homes[k] = "ready"
  /\ homes' = [homes EXCEPT ![k] = "empty"]
  /\ UNCHANGED <<registry, secrets, guard, add, main, gate, up, vendor, crashes>>

(* A login child that outlived its application ends, with or without auth. *)
OrphanLogin(k) ==
  /\ k \in orphans
  /\ orphans' = orphans \ {k}
  /\ homes' \in {homes, [homes EXCEPT ![k] = "ready"]}
  /\ UNCHANGED <<registry, secrets, guard, add, main, gate, up, tool, crashes>>

(* A fresh webview starts with busyRef = false; the command it forgot goes *)
(* on in the core.                                                         *)
Reload ==
  /\ ReloadAllowed /\ up
  /\ gate # "none"
  /\ gate' = "none"
  /\ UNCHANGED <<registry, secrets, homes, guard, add, main, up, vendor, crashes>>

Crash ==
  /\ up /\ crashes < MaxCrashes
  /\ up' = FALSE /\ crashes' = crashes + 1
  /\ orphans' = orphans \cup {add[w].key : w \in {v \in Worker :
                                add[v].pc = "login" /\ IsGuarded(add[v].key)}}
  /\ add' = [w \in Worker |-> IdleAdd] /\ main' = IdleMain
  /\ guard' = {} /\ gate' = "none"
  /\ UNCHANGED <<registry, secrets, homes, tool>>

(* Mutant: recovery erases every credential-backed row.                    *)
ErasableAnyState == {k \in Key : material[k] = "CredentialStore"}

(* recover: what it erases, what it forgets.  A Pending vendor home stays. *)
Erasable == {k \in Key : /\ lifecycle[k] \in {"Pending", "Deleting"}
                         /\ material[k] = "CredentialStore"}
Forgettable == Erasable \cup {k \in Key : lifecycle[k] = "Deleting"}

(* Mutant: recovery forgets rows without erasing their secrets.            *)
RecoverWithoutErasing ==
  /\ UNCHANGED secrets
  /\ WriteDocument([k \in Key |-> IF k \in Forgettable THEN "Absent"
                                  ELSE lifecycle[k]],
                   [k \in Key |-> IF k \in Forgettable THEN "None"
                                  ELSE material[k]], selected)

Recover ==
  /\ secrets' = secrets \ Erasable
  /\ WriteDocument([k \in Key |-> IF k \in Forgettable THEN "Absent"
                                  ELSE lifecycle[k]],
                   [k \in Key |-> IF k \in Forgettable THEN "None"
                                  ELSE material[k]], selected)

(* A store or write error aborts with some secrets erased and every row    *)
(* kept.                                                                   *)
RecoverAborts ==
  /\ \E erased \in SUBSET Erasable : secrets' = secrets \ erased
  /\ UNCHANGED registry

Start ==
  /\ ~up /\ up' = TRUE
  /\ IF RecoverAtStart THEN Recover \/ RecoverAborts
     ELSE UNCHANGED <<registry, secrets>>
  /\ UNCHANGED <<homes, guard, add, main, gate, vendor, crashes>>

-----------------------------------------------------------------------------
Next ==
  \/ \E w \in Worker, k \in Key, class \in Material : BeginAdd(w, k, class)
  \/ \E w \in Worker : AddStep(w)
  \/ \E k \in Key : StartSelect(k) \/ StartDelete(k)
  \/ \E p \in Provider : StartLaunch(p)
  \/ MainStep
  \/ \E k \in Key : ToolRegisters(k) \/ ToolExits(k) \/ VendorLogout(k)
                    \/ OrphanLogin(k)
  \/ Reload \/ Crash \/ Start

Spec == Init /\ [][Next]_vars

-----------------------------------------------------------------------------
(***************************************************************************)
(* Safety, for every schedule: also with the webview reloaded under an     *)
(* outstanding command and several adds running at once.                   *)
(***************************************************************************)
(* A launch reads the selected row once and spawns from that copy.  The    *)
(* copy is still the registry's row, selected and complete, at the spawn:  *)
(* no worker thread can deselect, withdraw or replace it in between.       *)
LaunchKeepsSelection ==
  main.pc \in {"prepare", "spawn"} =>
    /\ main.key \in selected
    /\ lifecycle[main.key] = "Complete"
    /\ material[main.key] = main.material

(* From begin_delete to finish_delete the row of the account being deleted *)
(* stays Deleting and keeps the material class the delete read before it,  *)
(* so the step that decides about the secret decides for the right row.    *)
DeleteOwnsRow ==
  main.pc \in {"erase", "finish"} =>
    /\ lifecycle[main.key] = "Deleting"
    /\ material[main.key] = main.material

(* What a launch or a deletion has read of its row is still so when it     *)
(* acts on it.                                                             *)
ReadRowStands == LaunchKeepsSelection /\ DeleteOwnsRow

(* A Grok home in ACTIVE_HOME_OPERATIONS is being used by exactly one add, *)
(* and an add between its guard and its last gate is in that set: of the   *)
(* adds of one run of the application no two log in in the same home, and  *)
(* no guard leaks.  The set is in memory: the login child of an add that a *)
(* crash ended is not in it (orphans), and a later add may log in beside.  *)
HomeGuardExact ==
  /\ \A k \in guard : \E w \in Worker : Holds(w) /\ add[w].key = k
  /\ \A w \in Worker : Holds(w) => add[w].key \in guard
  /\ \A v, w \in Worker : Holds(v) /\ Holds(w) /\ add[v].key = add[w].key
                            => v = w

(* A secret leaves the credential store only after its account has stopped *)
(* being Complete: nothing selectable ever loses its secret.               *)
WithdrawBeforeErase ==
  [][\A k \in secrets : k \notin secrets' => lifecycle[k] # "Complete"]_vars

(***************************************************************************)
(* Safety, while the user interface really lets one mutation out at a time *)
(* (ReloadAllowed = FALSE), across crashes.                                *)
(***************************************************************************)
HasMaterial(k) ==
  IF material[k] = "CredentialStore" THEN k \in secrets ELSE homes[k] # "none"

(* A Complete row has the material its class names: provisioning succeeded *)
(* for this row, not for an earlier one of the same identity.              *)
UsableHasMaterial ==
  \A k \in Key : lifecycle[k] = "Complete" => HasMaterial(k)

(* Every secret in the store is named by a credential-backed row, so       *)
(* deletion and recovery can find it whatever step was interrupted.        *)
NoOrphanSecret ==
  \A k \in secrets : lifecycle[k] # "Absent" /\ material[k] = "CredentialStore"

(* The registry keeps its promise: see AccountPromise.                     *)
Promise ==
  INSTANCE AccountPromise WITH
    usable <- {k \in Key : lifecycle[k] = "Complete"},
    backed <- {k \in Key : /\ lifecycle[k] = "Complete"
                           /\ material[k] = "CredentialStore"},
    chosen <- selected,
    held <- secrets

KeepsPromise == Promise!Spec

-----------------------------------------------------------------------------
(***************************************************************************)
(* Liveness.  Fair: the threads that run a command, and start-up.  Not     *)
(* fair: the user's first wish, crashes, reloads, vendor tools.            *)
(***************************************************************************)
Fairness ==
  /\ WF_vars(MainStep) /\ WF_vars(Start)
  /\ \A w \in Worker : WF_vars(AddStep(w))

(* Identities whose secret may be in the credential store.                 *)
Entrusted == {k \in Key : "CredentialStore" \in Kinds[ProviderOf[k]]}

(* A user who wants such an account gone asks again whenever it is still   *)
(* there, and the store and the disk do not refuse for ever.               *)
Persistence ==
  \A k \in Entrusted :
    /\ SF_vars(StartDelete(k) /\ lifecycle[k] = "Deleting")
    /\ SF_vars(main.key = k /\ ValidateDelete)
    /\ SF_vars(main.key = k /\ BeginDelete /\ main'.pc = "erase")
    /\ SF_vars(main.key = k /\ EraseSecret)
    /\ SF_vars(main.key = k /\ FinishDelete)

FairSpec == Spec /\ Fairness
PersistentSpec == Spec /\ Fairness /\ Persistence

(* Whatever the mutation meets -- errors, a home an add or a tool is       *)
(* using, a row that is gone, a command left over from an earlier page --  *)
(* the user interface is released: none waits for ever.  A vendor login is *)
(* assumed to end.                                                         *)
InterfaceIsReleased == gate # "none" ~> gate = "none"

(* A credential-backed deletion, once begun, is finished through errors    *)
(* and crashes by asking again: the Deleting row does not hold the         *)
(* identity for ever.                                                      *)
DeletionFinishes ==
  \A k \in Key :
    lifecycle[k] = "Deleting" /\ material[k] = "CredentialStore"
      ~> lifecycle[k] = "Absent"

=============================================================================
