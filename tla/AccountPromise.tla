--------------------------- MODULE AccountPromise ---------------------------
(***************************************************************************)
(* What the stored-account registry promises to whoever lists, selects and *)
(* launches accounts, with none of the machinery that keeps the promise:   *)
(*   - an account is published only when its secret is already held;       *)
(*   - a published account is withdrawn before its secret is destroyed;    *)
(*   - only a published account is chosen, and one per provider.           *)
(* A published account whose material is a vendor home is not `backed`:    *)
(* the application holds no secret for it.                                 *)
(***************************************************************************)
EXTENDS FiniteSets

CONSTANTS Key, ProviderOf

VARIABLES
  usable,  \* published accounts
  backed,  \* published accounts whose secret this application holds
  chosen,  \* accounts selected for launch
  held     \* accounts with a secret in the credential store

promise == <<usable, backed, chosen, held>>

Init == usable = {} /\ backed = {} /\ chosen = {} /\ held = {}

(* A secret arrives for an account nobody can use yet.                     *)
Entrust(k) ==
  /\ k \notin usable
  /\ held' = held \cup {k}
  /\ UNCHANGED <<usable, backed, chosen>>

Publish(k) ==
  /\ k \notin usable
  /\ usable' = usable \cup {k}
  /\ \/ k \in held /\ backed' = backed \cup {k}
     \/ k \notin held /\ UNCHANGED backed
  /\ UNCHANGED <<chosen, held>>

(* Choosing replaces the choice of the same provider and no other.         *)
Choose(k) ==
  /\ k \in usable
  /\ chosen' = {j \in chosen : ProviderOf[j] # ProviderOf[k]} \cup {k}
  /\ UNCHANGED <<usable, backed, held>>

Withdraw(k) ==
  /\ k \in usable
  /\ usable' = usable \ {k} /\ backed' = backed \ {k} /\ chosen' = chosen \ {k}
  /\ UNCHANGED held

(* Secrets are destroyed only for accounts that are not usable.            *)
Destroy ==
  /\ \E gone \in SUBSET (held \ usable) : held' = held \ gone
  /\ UNCHANGED <<usable, backed, chosen>>

Next ==
  \/ \E k \in Key : Entrust(k) \/ Publish(k) \/ Choose(k) \/ Withdraw(k)
  \/ Destroy

Spec == Init /\ [][Next]_promise
=============================================================================
