-------------------------- MODULE MCRelayLifecycle --------------------------
(***************************************************************************)
(* Small instances of RelayLifecycle for TLC: the Relay page and one the   *)
(* user has left, each with a command, a relay that runs or starts and one *)
(* that drains.                                                            *)
(***************************************************************************)
EXTENDS RelayLifecycle
=============================================================================
