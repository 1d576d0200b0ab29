-------------------------- MODULE MCStoredAccounts --------------------------
(***************************************************************************)
(* Small instances of StoredAccounts for TLC: Gemini offers an API-key and *)
(* an OAuth plan and guards nothing, Grok offers a guarded vendor home.    *)
(***************************************************************************)
EXTENDS StoredAccounts, TLC

CONSTANTS gemini, grok,   \* providers
          g1, g2, x1, x2  \* identities of gemini and of grok

MCKinds == gemini :> Material @@ grok :> {"VendorHome"}
MCProviderOf == [k \in Key |-> IF k \in {g1, g2} THEN gemini ELSE grok]

(* Worker threads are interchangeable.                                     *)
Workers == Permutations(Worker)

(* Only the plan that entrusts a secret to the credential store.           *)
MCApiKeyOnly == gemini :> {"CredentialStore"} @@ grok :> {"VendorHome"}
=============================================================================
