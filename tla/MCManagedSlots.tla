--------------------------- MODULE MCManagedSlots ---------------------------
(***************************************************************************)
(* Small instances of ManagedSlots for TLC: two accounts, of which one     *)
(* credential each, or the same, may be obtained.                          *)
(***************************************************************************)
EXTENDS ManagedSlots, TLC

(* Accounts, workers, children and credentials are interchangeable.        *)
Interchangeable ==
  Permutations(Account) \cup Permutations(Worker) \cup Permutations(Login)
    \cup Permutations(Credential)
=============================================================================
