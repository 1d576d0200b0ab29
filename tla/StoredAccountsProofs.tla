------------------------ MODULE StoredAccountsProofs ------------------------
(***************************************************************************)
(* Theorems about StoredAccounts, for every set of identities, providers   *)
(* and worker threads and every number of crashes.                         *)
(***************************************************************************)
EXTENDS StoredAccounts, TLAPS

USE IdentityAssumption, ProcessAssumption

-----------------------------------------------------------------------------
(***************************************************************************)
(* Type correctness.                                                       *)
(***************************************************************************)
(* Every add step keeps every variable in its type.                        *)
LEMMA AddType ==
  ASSUME TypeOK, NEW w \in Worker, AddStep(w)
  PROVE  TypeOK'
<1> USE DEF TypeOK, registry, vendor, SetPc, AddEnds, AddRecord, IdleAdd,
           AddPc, Lifecycle, Material
<1>1. CASE PutSecret(w)
  BY <1>1 DEF PutSecret
<1>2. CASE OpenHome(w)
  BY <1>2 DEF OpenHome
<1>3. CASE StartLogin(w)
  BY <1>3 DEF StartLogin
<1>4. CASE LoginSucceeds(w)
  BY <1>4 DEF LoginSucceeds
<1>5. CASE VerifyHome(w)
  <2>1. add[w].key \in Key
    BY <1>5 DEF VerifyHome
  <2>2. add' \in [Worker -> AddRecord]
    BY <1>5, <2>1 DEF VerifyHome
  <2>3. homes' \in [Key -> {"none", "empty", "creds", "ready"}] /\ guard' \in SUBSET Key
    <3>1. homes \in [Key -> {"none", "empty", "creds", "ready"}] /\ guard \in SUBSET Key
      BY DEF TypeOK
    <3>2. homes' = homes \/ homes' = [homes EXCEPT ![add[w].key] = "ready"]
      BY <1>5 DEF VerifyHome
    <3>3. guard' = guard \/ guard' = guard \ {add[w].key}
      BY <1>5 DEF VerifyHome
    <3> HIDE DEF TypeOK
    <3> QED
      BY <2>1, <3>1, <3>2, <3>3
  <2> QED
    BY <1>5, <2>2, <2>3 DEF VerifyHome
<1>6. CASE CompleteAdd(w)
  BY <1>6 DEF CompleteAdd, WriteDocument
<1>7. CASE AddFails(w)
  BY <1>7 DEF AddFails
<1> QED
  BY <1>1, <1>2, <1>3, <1>4, <1>5, <1>6, <1>7 DEF AddStep

(* Every step of the main thread keeps every variable in its type.         *)
LEMMA MainType ==
  ASSUME TypeOK, MainStep
  PROVE  TypeOK'
<1> USE DEF TypeOK, registry, vendor, MainEnds, MainGoesTo, MainRecord,
           IdleMain, MainPc, Lifecycle, Material
<1>1. CASE CheckCurrent
  BY <1>1 DEF CheckCurrent
<1>2. CASE CheckTarget
  BY <1>2 DEF CheckTarget
<1>3. CASE SelectComplete
  BY <1>3 DEF SelectComplete, WriteDocument, Peers
<1>4. CASE ValidateDelete
  BY <1>4 DEF ValidateDelete
<1>5. CASE BeginDelete
  BY <1>5 DEF BeginDelete, WriteDocument
<1>6. CASE EraseSecret
  BY <1>6 DEF EraseSecret
<1>7. CASE FinishDelete
  BY <1>7 DEF FinishDelete, WriteDocument
<1>8. CASE PrepareLaunch
  BY <1>8 DEF PrepareLaunch
<1>9. CASE SpawnLaunch
  BY <1>9 DEF SpawnLaunch
<1>10. CASE MainFails
  BY <1>10 DEF MainFails
<1> QED
  BY <1>1, <1>2, <1>3, <1>4, <1>5, <1>6, <1>7, <1>8, <1>9, <1>10 DEF MainStep

(* A command that starts on the main thread names a row that exists.       *)
LEMMA StartType ==
  ASSUME TypeOK, NEW k \in Key, NEW pc \in MainPc \ {"idle"},
         lifecycle[k] # "Absent", MainStarts(pc, k),
         UNCHANGED <<registry, secrets, homes, guard, add, up, vendor, crashes>>
  PROVE  TypeOK'
<1>1. material[k] \in Material /\ lifecycle[k] \in Lifecycle \ {"Absent"}
  BY DEF TypeOK
<1>2. main' \in MainRecord /\ gate' \in Worker \cup {"main", "none"}
  BY <1>1 DEF MainStarts, MainRecord
<1> QED
  BY <1>2 DEF TypeOK, registry, vendor

(* Crashes, start-up and the environment keep every type.                  *)
LEMMA EnvironmentType ==
  ASSUME TypeOK,
         \/ \E k \in Key : ToolRegisters(k) \/ ToolExits(k) \/ VendorLogout(k)
                           \/ OrphanLogin(k)
         \/ Reload \/ Crash \/ Start
  PROVE  TypeOK'
<1> USE DEF TypeOK, registry, vendor
<1>1. ASSUME NEW k \in Key, ToolRegisters(k) \/ ToolExits(k) PROVE TypeOK'
  BY <1>1 DEF ToolRegisters, ToolExits
<1>2. ASSUME NEW k \in Key, VendorLogout(k) \/ OrphanLogin(k) PROVE TypeOK'
  BY <1>2 DEF VendorLogout, OrphanLogin
<1>3. CASE Reload
  BY <1>3 DEF Reload
<1>4. CASE Crash
  <2>1. \A w \in Worker : add[w].pc = "login" => add[w].key \in Key
    BY DEF AddRecord, IdleAdd
  <2>2. orphans' \in SUBSET Key
    BY <1>4, <2>1 DEF Crash
  <2>3. add' \in [Worker -> AddRecord] /\ main' \in MainRecord
    BY <1>4 DEF Crash, AddRecord, MainRecord
  <2>4. crashes' \in Nat /\ guard' \in SUBSET Key
    BY <1>4 DEF Crash
  <2> QED
    BY <1>4, <2>2, <2>3, <2>4 DEF Crash
<1>5. CASE Start
  <2>1. UNCHANGED <<homes, guard, add, main, gate, vendor, crashes>> /\ up' = TRUE
    BY <1>5 DEF Start
  <2>2. CASE Recover
    <3>1. /\ lifecycle' \in [Key -> Lifecycle]
          /\ material' \in [Key -> Material \cup {"None"}]
          /\ \A k \in Key : lifecycle'[k] = "Absent" <=> material'[k] = "None"
      BY <2>2 DEF Recover, WriteDocument, Lifecycle
    <3>2. selected' \in SUBSET Key /\ secrets' \in SUBSET Key
      BY <2>2 DEF Recover, WriteDocument
    <3> QED
      BY <2>1, <3>1, <3>2
  <2>3. CASE RecoverAborts
    BY <2>1, <2>3 DEF RecoverAborts
  <2>4. CASE UNCHANGED <<registry, secrets>>
    BY <2>1, <2>4
  <2> QED
    BY <1>5, <2>2, <2>3, <2>4 DEF Start
<1> QED
  BY <1>1, <1>2, <1>3, <1>4, <1>5

LEMMA TypeInit == Init => TypeOK
BY DEF Init, TypeOK, Lifecycle, AddRecord, MainRecord

LEMMA TypeStep ==
  ASSUME TypeOK, [Next]_vars
  PROVE  TypeOK'
<1>1. ASSUME NEW w \in Worker, NEW k \in Key, NEW class \in Material,
             BeginAdd(w, k, class)
      PROVE  TypeOK'
  BY <1>1 DEF BeginAdd, WriteDocument, TypeOK, vendor, Lifecycle, AddRecord,
              AddPc, Material
<1>2. ASSUME NEW w \in Worker, AddStep(w) PROVE TypeOK'
  BY <1>2, AddType
<1>3. ASSUME NEW k \in Key, StartSelect(k) PROVE TypeOK'
  BY <1>3, StartType DEF StartSelect, MainPc
<1>4. ASSUME NEW k \in Key, StartDelete(k) PROVE TypeOK'
  BY <1>4, StartType DEF StartDelete, MainPc
<1>5. ASSUME NEW p \in Provider, StartLaunch(p) PROVE TypeOK'
  BY <1>5, StartType DEF StartLaunch, SelectedOf, TypeOK, MainPc
<1>6. CASE MainStep
  BY <1>6, MainType
<1>7. CASE \/ \E k \in Key : ToolRegisters(k) \/ ToolExits(k) \/ VendorLogout(k)
                             \/ OrphanLogin(k)
           \/ Reload \/ Crash \/ Start
  BY <1>7, EnvironmentType
<1>8. CASE UNCHANGED vars
  BY <1>8 DEF vars, TypeOK
<1> QED
  BY <1>1, <1>2, <1>3, <1>4, <1>5, <1>6, <1>7, <1>8 DEF Next

(* Whatever the schedule, every variable keeps its type.                   *)
THEOREM TypeCorrect == Spec => []TypeOK
<1> QED
  BY TypeInit, TypeStep, PTL DEF Spec

-----------------------------------------------------------------------------
(***************************************************************************)
(* What the main thread knows of the row it works on, for every schedule.  *)
(* LaunchKeepsSelection and DeleteOwnsRow are not inductive: a delete must *)
(* know its row exists before it marks it, and start-up may rewrite rows   *)
(* only because nothing runs while the application is down.                *)
(***************************************************************************)
MainRow ==
  /\ main.pc # "idle" => /\ lifecycle[main.key] # "Absent"
                         /\ material[main.key] = main.material
  /\ main.pc \in {"current", "target", "select", "prepare", "spawn"}
       => lifecycle[main.key] = "Complete"
  /\ main.pc \in {"prepare", "spawn"} => main.key \in selected
  /\ main.pc \in {"erase", "finish"} => lifecycle[main.key] = "Deleting"

Stopped ==
  ~up => /\ main = IdleMain /\ add = [w \in Worker |-> IdleAdd]
         /\ gate = "none" /\ guard = {}

RowInv == TypeOK /\ MainRow /\ Stopped

(* An add step changes no row but turns a Pending one Complete, and runs   *)
(* only while the application is up.                                       *)
LEMMA AddRows ==
  ASSUME RowInv, NEW w \in Worker, AddStep(w)
  PROVE  /\ \/ UNCHANGED registry
            \/ /\ lifecycle[add[w].key] = "Pending"
               /\ lifecycle' = [lifecycle EXCEPT ![add[w].key] = "Complete"]
               /\ UNCHANGED <<material, selected>>
         /\ add[w].pc # "idle"
         /\ up /\ UNCHANGED <<main, up>>
<1>1. add[w].pc # "idle" /\ UNCHANGED <<main, up>>
  BY DEF AddStep, PutSecret, OpenHome, StartLogin, LoginSucceeds, VerifyHome,
         CompleteAdd, AddFails
<1>2. up
  BY <1>1 DEF RowInv, Stopped, TypeOK, IdleAdd
<1>3. \/ UNCHANGED registry
      \/ /\ lifecycle[add[w].key] = "Pending"
         /\ lifecycle' = [lifecycle EXCEPT ![add[w].key] = "Complete"]
         /\ UNCHANGED <<material, selected>>
  BY DEF AddStep, PutSecret, OpenHome, StartLogin, LoginSucceeds, VerifyHome,
         CompleteAdd, AddFails, WriteDocument
<1> QED
  BY <1>1, <1>2, <1>3

LEMMA AddMainRow ==
  ASSUME RowInv, NEW w \in Worker, AddStep(w)
  PROVE  MainRow' /\ Stopped'
<1>1. up' /\ UNCHANGED main
  BY AddRows
<1>2. CASE UNCHANGED registry
  BY <1>1, <1>2 DEF RowInv, MainRow, Stopped, registry
<1>3. CASE /\ lifecycle[add[w].key] = "Pending"
           /\ lifecycle' = [lifecycle EXCEPT ![add[w].key] = "Complete"]
           /\ UNCHANGED <<material, selected>>
  <2>1. add[w].key \in Key
    BY AddRows DEF RowInv, TypeOK, AddRecord, IdleAdd
  <2>2. main.pc # "idle" => main.key \in Key
    BY DEF RowInv, TypeOK, MainRecord, IdleMain
  <2>3. \A k \in Key : /\ lifecycle[k] \in {"Complete", "Deleting"}
                           => lifecycle'[k] = lifecycle[k]
                       /\ lifecycle[k] # "Absent" => lifecycle'[k] # "Absent"
    BY <1>3, <2>1 DEF RowInv, TypeOK
  <2> QED
    BY <1>1, <1>3, <2>2, <2>3 DEF RowInv, MainRow, Stopped
<1> QED
  BY <1>2, <1>3, AddRows

LEMMA StepMainRow ==
  ASSUME RowInv, MainStep
  PROVE  MainRow' /\ Stopped'
<1> USE DEF RowInv, MainRow, MainEnds, MainGoesTo, IdleMain, registry
<1>1. main.pc # "idle" /\ UNCHANGED <<up, add>>
  BY DEF MainStep, CheckCurrent, CheckTarget, SelectComplete, ValidateDelete,
         BeginDelete, EraseSecret, FinishDelete, PrepareLaunch, SpawnLaunch,
         MainFails
<1>2. main.key \in Key /\ up
  BY <1>1 DEF TypeOK, MainRecord, Stopped
<1>3. Stopped'
  BY <1>1, <1>2 DEF Stopped
<1>4. CASE CheckCurrent \/ CheckTarget \/ PrepareLaunch
  <2>1. CASE CheckCurrent
    BY <1>2, <1>3, <2>1 DEF CheckCurrent, TypeOK, MainRecord
  <2>2. CASE CheckTarget
    BY <1>2, <1>3, <2>2 DEF CheckTarget, TypeOK, MainRecord
  <2>3. CASE PrepareLaunch
    BY <1>2, <1>3, <2>3 DEF PrepareLaunch, TypeOK, MainRecord
  <2> QED
    BY <1>4, <2>1, <2>2, <2>3
<1>5. CASE SelectComplete \/ FinishDelete \/ SpawnLaunch \/ MainFails
  BY <1>3, <1>5 DEF SelectComplete, FinishDelete, SpawnLaunch, MainFails
<1>6. CASE ValidateDelete
  BY <1>2, <1>3, <1>6 DEF ValidateDelete, TypeOK, MainRecord
<1>7. CASE BeginDelete
  BY <1>2, <1>3, <1>7 DEF BeginDelete, WriteDocument, TypeOK, MainRecord
<1>8. CASE EraseSecret
  BY <1>2, <1>3, <1>8 DEF EraseSecret, TypeOK, MainRecord
<1> QED
  BY <1>4, <1>5, <1>6, <1>7, <1>8 DEF MainStep

(* The row invariant is inductive.                                         *)
LEMMA RowInductive == RowInv /\ [Next]_vars => RowInv'
<1> SUFFICES ASSUME RowInv, [Next]_vars PROVE MainRow' /\ Stopped'
  BY TypeStep DEF RowInv
<1> USE DEF RowInv, registry
<1>1. ASSUME NEW w \in Worker, NEW k \in Key, NEW class \in Material,
             BeginAdd(w, k, class)
      PROVE  MainRow' /\ Stopped'
  <2>1. main.pc # "idle" => main.key \in Key
    BY DEF TypeOK, MainRecord, IdleMain
  <2>2. \A j \in Key : lifecycle[j] # "Absent" =>
          lifecycle'[j] = lifecycle[j] /\ material'[j] = material[j]
    BY <1>1 DEF BeginAdd, WriteDocument, TypeOK
  <2>3. UNCHANGED <<main, selected, up>> /\ up
    BY <1>1 DEF BeginAdd, WriteDocument, UiFree
  <2> QED
    BY <2>1, <2>2, <2>3 DEF MainRow, Stopped
<1>2. ASSUME NEW w \in Worker, AddStep(w) PROVE MainRow' /\ Stopped'
  BY <1>2, AddMainRow
<1>3. ASSUME NEW k \in Key, StartSelect(k) \/ StartDelete(k)
      PROVE  MainRow' /\ Stopped'
  BY <1>3 DEF StartSelect, StartDelete, MainStarts, MainRow, Stopped, UiFree,
              TypeOK, MainRecord
<1>4. ASSUME NEW p \in Provider, StartLaunch(p) PROVE MainRow' /\ Stopped'
  BY <1>4 DEF StartLaunch, SelectedOf, MainStarts, MainRow, Stopped, UiFree,
              TypeOK, MainRecord
<1>5. CASE MainStep
  BY <1>5, StepMainRow
<1>6. ASSUME NEW k \in Key,
             ToolRegisters(k) \/ ToolExits(k) \/ VendorLogout(k) \/ OrphanLogin(k)
      PROVE  MainRow' /\ Stopped'
  BY <1>6 DEF ToolRegisters, ToolExits, VendorLogout, OrphanLogin, MainRow, Stopped
<1>7. CASE Reload
  BY <1>7 DEF Reload, MainRow, Stopped
<1>8. CASE Crash
  BY <1>8 DEF Crash, MainRow, Stopped, IdleMain
<1>9. CASE Start
  BY <1>9 DEF Start, MainRow, Stopped, IdleMain, TypeOK
<1>10. CASE UNCHANGED vars
  BY <1>10 DEF vars, MainRow, Stopped
<1> QED
  BY <1>1, <1>2, <1>3, <1>4, <1>5, <1>6, <1>7, <1>8, <1>9, <1>10 DEF Next

THEOREM RowsInvariant == Spec => []RowInv
<1>1. Init => RowInv
  BY TypeInit DEF Init, RowInv, MainRow, Stopped, IdleMain
<1> QED
  BY <1>1, RowInductive, PTL DEF Spec

(* A launch spawns from a row that is still selected and complete, and a   *)
(* delete erases for the row it marked, under every schedule.              *)
THEOREM RowsHeld == Spec => []ReadRowStands
<1>1. RowInv => ReadRowStands
  BY DEF RowInv, MainRow, ReadRowStands, LaunchKeepsSelection, DeleteOwnsRow
<1> QED
  BY <1>1, RowsInvariant, PTL

-----------------------------------------------------------------------------
(***************************************************************************)
(* The guarded homes: exact accounting under every schedule.  The property *)
(* is inductive over the types; a crash forgets both sides of it at once.  *)
(***************************************************************************)
LEMMA AddGuard ==
  ASSUME TypeOK, HomeGuardExact, NEW w \in Worker, AddStep(w)
  PROVE  HomeGuardExact'
<1> USE DEF HomeGuardExact, Holds, IsGuarded, SetPc, AddEnds
<1>1. CASE PutSecret(w)
  BY <1>1 DEF PutSecret, TypeOK
<1>2. CASE OpenHome(w)
  <2>1. \A v \in Worker \ {w} : add'[v] = add[v]
    BY <1>2 DEF OpenHome
  <2>2. /\ add[w].key = add'[w].key /\ ~Holds(w)
        /\ add'[w].pc \in {"verify", "approach"}
    BY <1>2 DEF OpenHome, TypeOK, AddRecord, IdleAdd
  <2>3. CASE IsGuarded(add[w].key)
    BY <1>2, <2>1, <2>2, <2>3 DEF OpenHome
  <2>4. CASE ~IsGuarded(add[w].key)
    BY <1>2, <2>1, <2>2, <2>4 DEF OpenHome
  <2> QED
    BY <2>3, <2>4
<1>3. CASE StartLogin(w)
  BY <1>3 DEF StartLogin, TypeOK
<1>4. CASE LoginSucceeds(w)
  BY <1>4 DEF LoginSucceeds, TypeOK
<1>5. CASE VerifyHome(w)
  <2>1. \A v \in Worker \ {w} : add'[v] = add[v]
    BY <1>5 DEF VerifyHome
  <2>2. ~Holds(w)'
    BY <1>5 DEF VerifyHome, TypeOK
  <2>3. CASE IsGuarded(add[w].key)
    <3>1. Holds(w) /\ guard' = guard \ {add[w].key}
      BY <1>5, <2>3 DEF VerifyHome
    <3> QED
      BY <2>1, <2>2, <3>1
  <2>4. CASE ~IsGuarded(add[w].key)
    <3>1. ~Holds(w) /\ guard' = guard
      BY <1>5, <2>4 DEF VerifyHome
    <3> QED
      BY <2>1, <2>2, <3>1
  <2> QED
    BY <2>3, <2>4
<1>6. CASE CompleteAdd(w)
  BY <1>6 DEF CompleteAdd, TypeOK, IdleAdd
<1>7. CASE AddFails(w)
  <2>1. \A v \in Worker \ {w} : add'[v] = add[v]
    BY <1>7 DEF AddFails
  <2>2. ~Holds(w)'
    BY <1>7 DEF AddFails, TypeOK, IdleAdd
  <2> QED
    BY <1>7, <2>1, <2>2 DEF AddFails
<1> QED
  BY <1>1, <1>2, <1>3, <1>4, <1>5, <1>6, <1>7 DEF AddStep

(* No two adds are ever between the guard and the last gate of one home,   *)
(* and the set of active homes is exactly the homes in use.                *)
THEOREM GuardHeld == Spec => []HomeGuardExact
<1>1. Init => HomeGuardExact
  BY DEF Init, HomeGuardExact, Holds, IdleAdd
<1>2. ASSUME TypeOK, HomeGuardExact, [Next]_vars PROVE HomeGuardExact'
  <2>1. ASSUME NEW w \in Worker, NEW k \in Key, NEW class \in Material,
               BeginAdd(w, k, class)
        PROVE  HomeGuardExact'
    BY <1>2, <2>1 DEF BeginAdd, HomeGuardExact, Holds, IsGuarded, TypeOK
  <2>2. ASSUME NEW w \in Worker, AddStep(w) PROVE HomeGuardExact'
    BY <1>2, <2>2, AddGuard
  <2>3. CASE Crash
    BY <2>3 DEF Crash, HomeGuardExact, Holds, IdleAdd
  <2>4. CASE MainStep
    BY <1>2, <2>4
       DEF MainStep, CheckCurrent, CheckTarget, SelectComplete, ValidateDelete,
           BeginDelete, EraseSecret, FinishDelete, PrepareLaunch, SpawnLaunch,
           MainFails, HomeGuardExact, Holds, IsGuarded
  <2>5. CASE \/ \E k \in Key : \/ StartSelect(k) \/ StartDelete(k)
                              \/ ToolRegisters(k) \/ ToolExits(k)
                              \/ VendorLogout(k) \/ OrphanLogin(k)
             \/ \E p \in Provider : StartLaunch(p)
             \/ Reload \/ Start \/ UNCHANGED vars
    BY <1>2, <2>5
       DEF StartSelect, StartDelete, StartLaunch, ToolRegisters, ToolExits,
           VendorLogout, OrphanLogin, Reload, Start, vars, HomeGuardExact,
           Holds, IsGuarded
  <2> QED
    BY <1>2, <2>1, <2>2, <2>3, <2>4, <2>5 DEF Next
<1> QED
  BY <1>1, <1>2, TypeCorrect, PTL DEF Spec

-----------------------------------------------------------------------------
(***************************************************************************)
(* With one mutation at a time.  UsableHasMaterial and NoOrphanSecret rest *)
(* on each other and on what an add in flight may assume: that its row is  *)
(* still its own, which only the exclusivity of mutations gives it.        *)
(***************************************************************************)
Exclusive ==
  /\ \A w \in Worker : add[w].pc # "idle" => gate = w
  /\ main.pc # "idle" => gate = "main"

AddRow ==
  \A w \in Worker : add[w].pc # "idle" =>
    /\ lifecycle[add[w].key] = "Pending"
    /\ material[add[w].key] = add[w].material
    /\ add[w].pc \in {"approach", "login", "verify"}
         => add[w].material = "VendorHome" /\ homes[add[w].key] # "none"
    /\ add[w].pc = "provisioned" => HasMaterial(add[w].key)

SecretErased == main.pc = "finish" => main.key \notin secrets

GatedInv ==
  RowInv /\ Exclusive /\ AddRow /\ SecretErased /\ UsableHasMaterial
         /\ NoOrphanSecret

Gated ==
  Exclusive /\ AddRow /\ SecretErased /\ UsableHasMaterial /\ NoOrphanSecret

(* While an add moves, nothing else runs.                                  *)
LEMMA AddAlone ==
  ASSUME GatedInv, NEW w \in Worker, add[w].pc # "idle"
  PROVE  /\ add[w].key \in Key /\ add[w].material \in Material
         /\ main.pc = "idle" /\ gate = w
         /\ \A v \in Worker \ {w} : add[v].pc = "idle"
         /\ lifecycle[add[w].key] = "Pending"
         /\ material[add[w].key] = add[w].material
  BY DEF GatedInv, RowInv, TypeOK, AddRecord, IdleAdd, Exclusive, AddRow

(* While the main thread moves, no add does.                               *)
LEMMA MainAlone ==
  ASSUME GatedInv, main.pc # "idle"
  PROVE  /\ main.key \in Key /\ main.material \in Material /\ gate = "main"
         /\ \A w \in Worker : add[w].pc = "idle"
         /\ material[main.key] = main.material
  BY DEF GatedInv, RowInv, TypeOK, MainRecord, IdleMain, Exclusive, MainRow

LEMMA AddGated ==
  ASSUME GatedInv, NEW w \in Worker, AddStep(w)
  PROVE  Gated'
<1> DEFINE k == add[w].key
<1>1. add[w].pc # "idle" /\ UNCHANGED <<main, up>>
  BY AddRows DEF GatedInv
<1>2. /\ k \in Key /\ add[w].material \in Material
      /\ main.pc = "idle" /\ gate = w
      /\ \A v \in Worker \ {w} : add[v].pc = "idle"
      /\ lifecycle[k] = "Pending" /\ material[k] = add[w].material
  BY <1>1, AddAlone
<1>3. \A v \in Worker \ {w} : add'[v] = add[v]
  BY DEF AddStep, PutSecret, OpenHome, StartLogin, LoginSucceeds, VerifyHome,
         CompleteAdd, AddFails, SetPc, AddEnds, GatedInv, RowInv, TypeOK
<1> USE DEF Gated, GatedInv, RowInv, Exclusive, AddRow, SecretErased,
            UsableHasMaterial, NoOrphanSecret, HasMaterial, registry, SetPc,
            AddEnds
<1>4. CASE PutSecret(w)
  <2>1. add'[w] = [add[w] EXCEPT !.pc = "provisioned"]
    BY <1>4 DEF PutSecret, TypeOK
  <2> QED
    BY <1>1, <1>2, <1>3, <1>4, <2>1 DEF PutSecret, TypeOK, AddRecord
<1>5. CASE OpenHome(w)
  <2>1. /\ add'[w].pc \in {"verify", "approach"}
        /\ add'[w].key = k /\ add'[w].material = "VendorHome"
        /\ add[w].material = "VendorHome"
    BY <1>2, <1>5 DEF OpenHome, TypeOK, AddRecord, IdleAdd
  <2>2. \A j \in Key : homes[j] # "none" => homes'[j] # "none"
    BY <1>5 DEF OpenHome, TypeOK
  <2>3. homes'[k] # "none"
    BY <1>2, <1>5 DEF OpenHome, TypeOK
  <2>4. UNCHANGED <<lifecycle, material, selected, secrets, gate>>
    BY <1>5 DEF OpenHome
  <2> QED
    BY <1>1, <1>2, <1>3, <2>1, <2>2, <2>3, <2>4
<1>6. CASE StartLogin(w)
  <2>1. add'[w] = [add[w] EXCEPT !.pc = "login"]
    BY <1>6 DEF StartLogin, TypeOK
  <2> QED
    BY <1>1, <1>2, <1>3, <1>6, <2>1 DEF StartLogin, TypeOK, AddRecord
<1>7. CASE LoginSucceeds(w)
  <2>1. add'[w] = [add[w] EXCEPT !.pc = "verify"]
    BY <1>7 DEF LoginSucceeds, TypeOK
  <2>2. \A j \in Key : homes[j] # "none" => homes'[j] # "none"
    BY <1>7 DEF LoginSucceeds, TypeOK
  <2> QED
    BY <1>1, <1>2, <1>3, <1>7, <2>1, <2>2 DEF LoginSucceeds, TypeOK, AddRecord
<1>8. CASE VerifyHome(w)
  <2>1. /\ add'[w].pc = "provisioned" /\ add'[w].key = k
        /\ add'[w].material = add[w].material
    BY <1>8 DEF VerifyHome, TypeOK, AddRecord, IdleAdd
  <2>2. \A j \in Key : homes[j] # "none" => homes'[j] # "none"
    <3>1. CASE IsGuarded(k)
      BY <1>8, <3>1 DEF VerifyHome
    <3>2. CASE ~IsGuarded(k)
      BY <1>8, <3>2 DEF VerifyHome, TypeOK
    <3> QED
      BY <3>1, <3>2
  <2>3. add[w].material = "VendorHome" /\ homes[k] # "none"
    BY <1>8 DEF VerifyHome
  <2>4. UNCHANGED <<lifecycle, material, selected, secrets, gate>>
    BY <1>8 DEF VerifyHome
  <2> QED
    BY <1>1, <1>2, <1>3, <2>1, <2>2, <2>3, <2>4
<1>9. CASE CompleteAdd(w)
  <2>1. add'[w].pc = "idle"
    BY <1>9 DEF CompleteAdd, TypeOK, IdleAdd
  <2>2. HasMaterial(k)
    BY <1>9 DEF CompleteAdd
  <2>3. /\ lifecycle' = [lifecycle EXCEPT ![k] = "Complete"]
        /\ UNCHANGED <<material, secrets, homes>>
    BY <1>9 DEF CompleteAdd, WriteDocument
  <2> QED
    BY <1>1, <1>2, <1>3, <2>1, <2>2, <2>3 DEF TypeOK
<1>10. CASE AddFails(w)
  <2>1. add'[w].pc = "idle"
    BY <1>10 DEF AddFails, TypeOK, IdleAdd
  <2> QED
    BY <1>1, <1>2, <1>3, <1>10, <2>1 DEF AddFails
<1> QED
  BY <1>4, <1>5, <1>6, <1>7, <1>8, <1>9, <1>10 DEF AddStep

LEMMA MainGated ==
  ASSUME GatedInv, MainStep
  PROVE  Gated'
<1>1. main.pc # "idle" /\ UNCHANGED <<up, add, homes>>
  BY DEF MainStep, CheckCurrent, CheckTarget, SelectComplete, ValidateDelete,
         BeginDelete, EraseSecret, FinishDelete, PrepareLaunch, SpawnLaunch,
         MainFails
<1>2. /\ main.key \in Key /\ main.material \in Material /\ gate = "main"
      /\ \A w \in Worker : add[w].pc = "idle"
      /\ material[main.key] = main.material
  BY <1>1, MainAlone
<1> USE DEF Gated, GatedInv, RowInv, Exclusive, AddRow, SecretErased,
            UsableHasMaterial, NoOrphanSecret, HasMaterial, registry, MainEnds,
            MainGoesTo, IdleMain
<1>3. CASE CheckCurrent
  BY <1>1, <1>2, <1>3 DEF CheckCurrent, TypeOK, MainRecord
<1>4. CASE CheckTarget \/ ValidateDelete \/ PrepareLaunch
  BY <1>1, <1>2, <1>4 DEF CheckTarget, ValidateDelete, PrepareLaunch, TypeOK,
                          MainRecord
<1>5. CASE SelectComplete
  BY <1>1, <1>2, <1>5 DEF SelectComplete, WriteDocument
<1>6. CASE BeginDelete
  <2>1. /\ lifecycle' = [lifecycle EXCEPT ![main.key] = "Deleting"]
        /\ UNCHANGED <<material, secrets>>
    BY <1>6 DEF BeginDelete, WriteDocument
  <2>2. main'.pc # "finish" /\ (main'.pc # "idle" => gate' = "main")
    BY <1>2, <1>6 DEF BeginDelete, TypeOK, MainRecord
  <2> QED
    BY <1>1, <1>2, <2>1, <2>2 DEF TypeOK
<1>7. CASE EraseSecret
  <2>1. main' = [main EXCEPT !.pc = "finish"] /\ UNCHANGED <<gate, registry>>
    BY <1>7 DEF EraseSecret
  <2>2. lifecycle[main.key] = "Deleting"
    BY <1>7 DEF EraseSecret, MainRow
  <2>3. main.key \notin secrets' /\ secrets \ {main.key} \subseteq secrets'
        /\ secrets' \subseteq secrets
    BY <1>2, <1>7 DEF EraseSecret
  <2>4. main'.key = main.key /\ main'.pc = "finish"
    BY <2>1 DEF TypeOK, MainRecord
  <2> QED
    BY <1>1, <1>2, <2>1, <2>2, <2>3, <2>4
<1>8. CASE FinishDelete
  <2>1. /\ lifecycle' = [lifecycle EXCEPT ![main.key] = "Absent"]
        /\ material' = [material EXCEPT ![main.key] = "None"]
        /\ UNCHANGED secrets /\ main.key \notin secrets
    BY <1>8 DEF FinishDelete, WriteDocument
  <2> QED
    BY <1>1, <1>2, <1>8, <2>1 DEF FinishDelete, TypeOK
<1>9. CASE SpawnLaunch \/ MainFails
  BY <1>1, <1>2, <1>9 DEF SpawnLaunch, MainFails
<1> QED
  BY <1>3, <1>4, <1>5, <1>6, <1>7, <1>8, <1>9 DEF MainStep

LEMMA StartGated ==
  ASSUME GatedInv, NEW k \in Key, NEW pc \in MainPc \ {"finish"},
         MainStarts(pc, k),
         UNCHANGED <<registry, secrets, homes, guard, add, up, vendor, crashes>>
  PROVE  Gated'
  BY DEF MainStarts, UiFree, Gated, GatedInv, RowInv, TypeOK, Exclusive, AddRow,
         SecretErased, UsableHasMaterial, NoOrphanSecret, HasMaterial, registry

(* What an earlier run left is cleared or kept without losing a secret.    *)
LEMMA RestartGated ==
  ASSUME GatedInv, Start
  PROVE  Gated'
<1>1. /\ main.pc = "idle" /\ \A w \in Worker : add[w].pc = "idle"
      /\ UNCHANGED <<main, add, gate, homes>>
  BY DEF Start, GatedInv, RowInv, Stopped, IdleMain, IdleAdd
<1> USE DEF Gated, GatedInv, RowInv, Exclusive, AddRow, SecretErased,
            UsableHasMaterial, NoOrphanSecret, HasMaterial, registry
<1>2. CASE Recover
  <2>1. \A k \in Key : k \in Erasable => lifecycle[k] # "Complete"
    BY DEF Erasable
  <2>2. \A k \in Key : lifecycle[k] = "Deleting" /\ k \in secrets => k \in Erasable
    BY DEF Erasable
  <2>3. \A k \in Key \ Forgettable :
          lifecycle'[k] = lifecycle[k] /\ material'[k] = material[k]
    BY <1>2 DEF Recover, WriteDocument
  <2>4. \A k \in Forgettable : lifecycle'[k] = "Absent"
    BY <1>2 DEF Recover, WriteDocument, Forgettable, Erasable
  <2>5. secrets' = secrets \ Erasable
    BY <1>2 DEF Recover
  <2>6. \A k \in Forgettable : k \notin secrets'
    BY <2>2, <2>5 DEF Forgettable
  <2>7. UsableHasMaterial'
    BY <1>1, <2>1, <2>3, <2>4, <2>5
  <2>8. NoOrphanSecret'
    BY <1>1, <2>3, <2>5, <2>6 DEF TypeOK
  <2> QED
    BY <1>1, <2>7, <2>8
<1>3. CASE RecoverAborts
  BY <1>1, <1>3 DEF RecoverAborts, Erasable
<1>4. CASE UNCHANGED <<registry, secrets>>
  BY <1>1, <1>4
<1> QED
  BY <1>2, <1>3, <1>4 DEF Start

LEMMA GatedInductive ==
  ASSUME ReloadAllowed = FALSE, GatedInv, [Next]_vars
  PROVE  GatedInv'
<1> SUFFICES Gated'
  BY RowInductive DEF GatedInv, Gated
<1>1. ASSUME NEW w \in Worker, NEW k \in Key, NEW class \in Material,
             BeginAdd(w, k, class)
      PROVE  Gated'
  <2>1. /\ \A v \in Worker : add[v].pc = "idle"
        /\ main.pc = "idle" /\ UNCHANGED <<main, secrets, homes>>
    BY <1>1 DEF BeginAdd, UiFree, GatedInv, Exclusive
  <2>2. /\ lifecycle' = [lifecycle EXCEPT ![k] = "Pending"]
        /\ material' = [material EXCEPT ![k] = class]
        /\ lifecycle[k] = "Absent"
    BY <1>1 DEF BeginAdd, WriteDocument
  <2>3. \/ add' = [add EXCEPT ![w] = [pc |-> "begun", key |-> k,
                                     material |-> class]] /\ gate' = w
        \/ UNCHANGED <<add, gate>>
    BY <1>1 DEF BeginAdd
  <2> QED
    BY <2>1, <2>2, <2>3
       DEF Gated, GatedInv, RowInv, TypeOK, Exclusive, AddRow, SecretErased,
           UsableHasMaterial, NoOrphanSecret, HasMaterial
<1>2. ASSUME NEW w \in Worker, AddStep(w) PROVE Gated'
  BY <1>2, AddGated
<1>3. ASSUME NEW k \in Key, StartSelect(k) \/ StartDelete(k) PROVE Gated'
  BY <1>3, StartGated DEF StartSelect, StartDelete, MainPc
<1>4. ASSUME NEW p \in Provider, StartLaunch(p) PROVE Gated'
  BY <1>4, StartGated DEF StartLaunch, SelectedOf, MainPc, GatedInv, RowInv, TypeOK
<1>5. CASE MainStep
  BY <1>5, MainGated
<1>6. ASSUME NEW k \in Key,
             ToolRegisters(k) \/ ToolExits(k) \/ VendorLogout(k) \/ OrphanLogin(k)
      PROVE  Gated'
  <2>1. \A j \in Key : homes[j] # "none" => homes'[j] # "none"
    BY <1>6 DEF ToolRegisters, ToolExits, VendorLogout, OrphanLogin, GatedInv,
                RowInv, TypeOK
  <2>2. UNCHANGED <<registry, secrets, main, add, gate>>
    BY <1>6 DEF ToolRegisters, ToolExits, VendorLogout, OrphanLogin
  <2> QED
    BY <2>1, <2>2
       DEF Gated, GatedInv, RowInv, TypeOK, AddRecord, Exclusive, AddRow,
           SecretErased, UsableHasMaterial, NoOrphanSecret, HasMaterial,
           registry, IdleAdd
<1>7. CASE Crash
  BY <1>7 DEF Crash, IdleAdd, IdleMain, Gated, GatedInv, Exclusive, AddRow,
              SecretErased, UsableHasMaterial, NoOrphanSecret, HasMaterial,
              registry
<1>8. CASE Start
  BY <1>8, RestartGated
<1>9. CASE UNCHANGED vars
  BY <1>9 DEF vars, Gated, GatedInv, Exclusive, AddRow, SecretErased,
              UsableHasMaterial, NoOrphanSecret, HasMaterial
<1> QED
  BY <1>1, <1>2, <1>3, <1>4, <1>5, <1>6, <1>7, <1>8, <1>9 DEF Next, Reload

(* While the interface lets one mutation out at a time, a Complete row has *)
(* its material and every stored secret has its row, through every crash.  *)
THEOREM GatedHeld ==
  ASSUME ReloadAllowed = FALSE
  PROVE  Spec => [](UsableHasMaterial /\ NoOrphanSecret)
<1>1. Init => GatedInv
  BY TypeInit
     DEF Init, GatedInv, RowInv, MainRow, Stopped, IdleMain, IdleAdd, Exclusive,
         AddRow, SecretErased, UsableHasMaterial, NoOrphanSecret
<1>2. GatedInv /\ [Next]_vars => GatedInv'
  BY GatedInductive
<1>3. GatedInv => UsableHasMaterial /\ NoOrphanSecret
  BY DEF GatedInv
<1> QED
  BY <1>1, <1>2, <1>3, PTL DEF Spec

-----------------------------------------------------------------------------
(***************************************************************************)
(* Step properties: the secret store, and the abstract promise.            *)
(***************************************************************************)
(* Only the erasing step of a delete and start-up recovery remove secrets, *)
(* and neither does so for a row that is Complete.                         *)
LEMMA EraseStep ==
  ASSUME RowInv, [Next]_vars
  PROVE  \A k \in secrets : k \notin secrets' => lifecycle[k] # "Complete"
<1>1. CASE EraseSecret
  BY <1>1 DEF EraseSecret, RowInv, MainRow
<1>2. CASE Start
  BY <1>2 DEF Start, Recover, RecoverAborts, Erasable
<1>3. EraseSecret \/ Start \/ secrets \subseteq secrets'
  BY DEF Next, vars, BeginAdd, AddStep, PutSecret, OpenHome, StartLogin,
         LoginSucceeds, VerifyHome, CompleteAdd, AddFails, StartSelect,
         StartDelete, StartLaunch, MainStep, CheckCurrent, CheckTarget,
         SelectComplete, ValidateDelete, BeginDelete, FinishDelete,
         PrepareLaunch, SpawnLaunch, MainFails, ToolRegisters, ToolExits,
         VendorLogout, OrphanLogin, Reload, Crash
<1> QED
  BY <1>1, <1>2, <1>3

(* Nothing selectable ever loses its secret, under every schedule.         *)
THEOREM WithdrawHeld == Spec => WithdrawBeforeErase
<1>1. RowInv /\ [Next]_vars
        => [\A k \in secrets : k \notin secrets' => lifecycle[k] # "Complete"]_vars
  BY EraseStep
<1> QED
  BY <1>1, RowsInvariant, PTL DEF Spec, WithdrawBeforeErase

(* Every document on disk passes the validation that reads it back.        *)
LEMMA DocumentStep ==
  ASSUME TypeOK, ValidDocument(lifecycle, selected), [Next]_vars
  PROVE  ValidDocument(lifecycle, selected)'
<1>1. \/ \E state, class, chosen : WriteDocument(state, class, chosen)
      \/ UNCHANGED registry
  BY DEF Next, vars, registry, BeginAdd, AddStep, PutSecret, OpenHome, StartLogin,
         LoginSucceeds, VerifyHome, CompleteAdd, AddFails, StartSelect,
         StartDelete, StartLaunch, MainStep, CheckCurrent, CheckTarget,
         SelectComplete, ValidateDelete, BeginDelete, EraseSecret, FinishDelete,
         PrepareLaunch, SpawnLaunch, MainFails, ToolRegisters, ToolExits,
         VendorLogout, OrphanLogin, Reload, Crash, Start, Recover, RecoverAborts
<1> QED
  BY <1>1 DEF WriteDocument, ValidDocument, registry

usableRows == {k \in Key : lifecycle[k] = "Complete"}
backedRows == {k \in Key : lifecycle[k] = "Complete"
                           /\ material[k] = "CredentialStore"}

(* A step that changes neither the published rows, nor the selection, nor  *)
(* the secrets is a stutter of the promise.                                *)
LEMMA Stutter ==
  ASSUME UNCHANGED <<secrets, selected>>,
         \A k \in Key : /\ (lifecycle[k] = "Complete") = (lifecycle'[k] = "Complete")
                        /\ lifecycle[k] = "Complete" => material'[k] = material[k]
  PROVE  Promise!Next \/ UNCHANGED Promise!promise
<1>1. usableRows' = usableRows /\ backedRows' = backedRows
  BY DEF usableRows, backedRows
<1> QED
  BY <1>1 DEF Promise!promise, usableRows, backedRows

LEMMA AddPromise ==
  ASSUME GatedInv, NEW w \in Worker, AddStep(w)
  PROVE  Promise!Next \/ UNCHANGED Promise!promise
<1>1. PICK k \in Key : /\ k = add[w].key /\ lifecycle[k] = "Pending"
                       /\ material[k] = add[w].material
  BY AddRows, AddAlone DEF GatedInv
<1>2. CASE PutSecret(w)
  <2>1. Promise!Entrust(k)
    BY <1>1, <1>2 DEF PutSecret, Promise!Entrust, registry
  <2> QED
    BY <1>1, <2>1 DEF Promise!Next
<1>3. CASE CompleteAdd(w)
  <2>1. /\ lifecycle' = [lifecycle EXCEPT ![k] = "Complete"]
        /\ UNCHANGED <<material, selected, secrets>>
    BY <1>1, <1>3 DEF CompleteAdd, WriteDocument
  <2>2. k \in secrets <=> material[k] = "CredentialStore"
    BY <1>1, <1>3 DEF CompleteAdd, GatedInv, AddRow, HasMaterial, NoOrphanSecret
  <2>3. usableRows' = usableRows \cup {k} /\ k \notin usableRows
    BY <1>1, <2>1 DEF usableRows, GatedInv, RowInv, TypeOK
  <2>4. backedRows' = IF k \in secrets THEN backedRows \cup {k} ELSE backedRows
    BY <1>1, <2>1, <2>2 DEF backedRows, GatedInv, RowInv, TypeOK
  <2>5. Promise!Publish(k)
    BY <2>1, <2>3, <2>4 DEF Promise!Publish, usableRows, backedRows
  <2> QED
    BY <1>1, <2>5 DEF Promise!Next
<1>4. CASE ~PutSecret(w) /\ ~CompleteAdd(w)
  <2>1. UNCHANGED <<registry, secrets>>
    BY <1>4 DEF AddStep, OpenHome, StartLogin, LoginSucceeds, VerifyHome, AddFails
  <2> QED
    BY <2>1, Stutter DEF registry
<1> QED
  BY <1>2, <1>3, <1>4

LEMMA MainPromise ==
  ASSUME GatedInv, ValidDocument(lifecycle, selected), MainStep
  PROVE  Promise!Next \/ UNCHANGED Promise!promise
<1>1. PICK k \in Key : k = main.key
  BY MainAlone DEF MainStep, CheckCurrent, CheckTarget, SelectComplete,
     ValidateDelete, BeginDelete, EraseSecret, FinishDelete, PrepareLaunch,
     SpawnLaunch, MainFails
<1>2. CASE SelectComplete
  <2>1. /\ k \in usableRows /\ UNCHANGED <<lifecycle, material, secrets>>
        /\ selected' = (selected \ Peers(k)) \cup {k}
    BY <1>1, <1>2 DEF SelectComplete, WriteDocument, usableRows
  <2>2. selected' = {j \in selected : ProviderOf[j] # ProviderOf[k]} \cup {k}
    BY <2>1 DEF Peers, GatedInv, RowInv, TypeOK
  <2>3. Promise!Choose(k)
    BY <2>1, <2>2 DEF Promise!Choose, usableRows
  <2> QED
    BY <1>1, <2>3 DEF Promise!Next
<1>3. CASE BeginDelete
  <2>1. /\ lifecycle' = [lifecycle EXCEPT ![k] = "Deleting"]
        /\ selected' = selected \ {k} /\ UNCHANGED <<material, secrets>>
    BY <1>1, <1>3 DEF BeginDelete, WriteDocument
  <2>2. usableRows' = usableRows \ {k} /\ backedRows' = backedRows \ {k}
    BY <1>1, <2>1 DEF usableRows, backedRows, GatedInv, RowInv, TypeOK
  <2>3. CASE k \in usableRows
    <3>1. Promise!Withdraw(k)
      BY <2>1, <2>2, <2>3 DEF Promise!Withdraw, usableRows, backedRows
    <3> QED
      BY <1>1, <3>1 DEF Promise!Next
  <2>4. CASE k \notin usableRows
    <3>1. k \notin selected /\ k \notin backedRows
      BY <1>1, <2>4 DEF ValidDocument, usableRows, backedRows
    <3> QED
      BY <2>1, <2>2, <2>4, <3>1 DEF Promise!promise, usableRows, backedRows
  <2> QED
    BY <2>3, <2>4
<1>4. CASE EraseSecret
  <2>1. k \notin usableRows
    BY <1>1, <1>4 DEF EraseSecret, usableRows, GatedInv, RowInv, MainRow
  <2>2. /\ UNCHANGED <<lifecycle, material, selected>>
        /\ secrets' = secrets \ {k} \/ secrets' = secrets
    BY <1>1, <1>4 DEF EraseSecret, registry
  <2>3. Promise!Destroy
    <3> DEFINE gone == secrets \ secrets'
    <3>1. gone \in SUBSET (secrets \ usableRows) /\ secrets' = secrets \ gone
      BY <2>1, <2>2
    <3> QED
      BY <2>2, <3>1 DEF Promise!Destroy, usableRows
  <2> QED
    BY <2>3 DEF Promise!Next
<1>5. CASE FinishDelete
  <2>1. /\ lifecycle[k] = "Deleting" /\ UNCHANGED <<selected, secrets>>
        /\ lifecycle' = [lifecycle EXCEPT ![k] = "Absent"]
        /\ material' = [material EXCEPT ![k] = "None"]
    BY <1>1, <1>5 DEF FinishDelete, WriteDocument
  <2> QED
    BY <1>1, <2>1, Stutter DEF GatedInv, RowInv, TypeOK
<1>6. CASE \/ CheckCurrent \/ CheckTarget \/ ValidateDelete
           \/ PrepareLaunch \/ SpawnLaunch \/ MainFails
  BY <1>6, Stutter DEF CheckCurrent, CheckTarget, ValidateDelete, PrepareLaunch,
                       SpawnLaunch, MainFails, registry
<1> QED
  BY <1>2, <1>3, <1>4, <1>5, <1>6 DEF MainStep

LEMMA StartPromise ==
  ASSUME TypeOK, Start
  PROVE  Promise!Next \/ UNCHANGED Promise!promise
<1>1. \A k \in Erasable : k \notin usableRows
  BY DEF Erasable, usableRows
<1>2. CASE Recover
  <2>1. UNCHANGED selected /\ secrets' = secrets \ Erasable
    BY <1>2 DEF Recover, WriteDocument
  <2>2. \A k \in Key :
          /\ (lifecycle[k] = "Complete") = (lifecycle'[k] = "Complete")
          /\ lifecycle[k] = "Complete" => material'[k] = material[k]
    BY <1>2 DEF Recover, WriteDocument, Forgettable, Erasable, TypeOK
  <2>3. usableRows' = usableRows /\ backedRows' = backedRows
    BY <2>2 DEF usableRows, backedRows
  <2>4. secrets' = secrets \ (secrets \cap Erasable)
    BY <2>1
  <2>5. Promise!Destroy
    BY <1>1, <2>1, <2>3, <2>4 DEF Promise!Destroy, usableRows, backedRows
  <2> QED
    BY <2>5 DEF Promise!Next
<1>3. CASE RecoverAborts
  <2>1. PICK erased \in SUBSET Erasable : secrets' = secrets \ erased
    BY <1>3 DEF RecoverAborts
  <2>2. secrets' = secrets \ (secrets \cap erased)
    BY <2>1
  <2>3. UNCHANGED <<lifecycle, material, selected>>
    BY <1>3 DEF RecoverAborts, registry
  <2>4. Promise!Destroy
    BY <1>1, <2>1, <2>2, <2>3 DEF Promise!Destroy, usableRows
  <2> QED
    BY <2>4 DEF Promise!Next
<1>4. CASE UNCHANGED <<registry, secrets>>
  BY <1>4, Stutter DEF registry
<1> QED
  BY <1>2, <1>3, <1>4 DEF Start

(* Every step of the registry, its stores and its commands is a step of    *)
(* the promise or a stutter.                                               *)
LEMMA PromiseStep ==
  ASSUME GatedInv, ValidDocument(lifecycle, selected), [Next]_vars
  PROVE  [Promise!Next]_(Promise!promise)
<1>1. ASSUME NEW w \in Worker, NEW k \in Key, NEW class \in Material,
             BeginAdd(w, k, class)
      PROVE  Promise!Next \/ UNCHANGED Promise!promise
  BY <1>1, Stutter DEF BeginAdd, WriteDocument, GatedInv, RowInv, TypeOK
<1>2. ASSUME NEW w \in Worker, AddStep(w)
      PROVE  Promise!Next \/ UNCHANGED Promise!promise
  BY <1>2, AddPromise
<1>3. CASE MainStep
  BY <1>3, MainPromise
<1>4. CASE Start
  BY <1>4, StartPromise DEF GatedInv, RowInv
<1>5. CASE \/ \E k \in Key : \/ StartSelect(k) \/ StartDelete(k)
                            \/ ToolRegisters(k) \/ ToolExits(k)
                            \/ VendorLogout(k) \/ OrphanLogin(k)
           \/ \E p \in Provider : StartLaunch(p)
           \/ Reload \/ Crash \/ UNCHANGED vars
  <2>1. UNCHANGED <<registry, secrets>>
    BY <1>5 DEF StartSelect, StartDelete, StartLaunch, ToolRegisters, ToolExits,
                VendorLogout, OrphanLogin, Reload, Crash, vars, registry
  <2> QED
    BY <2>1, Stutter DEF registry
<1> QED
  BY <1>1, <1>2, <1>3, <1>4, <1>5 DEF Next

(* The detailed registry implements AccountPromise while the interface     *)
(* lets one mutation out at a time.                                        *)
THEOREM PromiseKept ==
  ASSUME ReloadAllowed = FALSE
  PROVE  Spec => KeepsPromise
<1>1. Init => GatedInv /\ ValidDocument(lifecycle, selected)
  BY TypeInit
     DEF Init, GatedInv, RowInv, MainRow, Stopped, IdleMain, IdleAdd, Exclusive,
         AddRow, SecretErased, UsableHasMaterial, NoOrphanSecret, ValidDocument
<1>2. GatedInv /\ ValidDocument(lifecycle, selected) /\ [Next]_vars
        => GatedInv' /\ ValidDocument(lifecycle, selected)'
  BY GatedInductive, DocumentStep DEF GatedInv, RowInv
<1>3. Init => Promise!Init
  BY DEF Init, Promise!Init
<1>4. GatedInv /\ ValidDocument(lifecycle, selected) /\ [Next]_vars
        => [Promise!Next]_(Promise!promise)
  BY PromiseStep
<1> QED
  BY <1>1, <1>2, <1>3, <1>4, PTL DEF Spec, KeepsPromise, Promise!Spec

=============================================================================
