--------------------------- MODULE MCClaudeSwitch ---------------------------
(***************************************************************************)
(* A small instance of ClaudeSwitch for TLC: two stored accounts.  They    *)
(* are interchangeable, so the one signed in at the start, if any, is a.   *)
(* A home without credentials has no settings either, or Claude Code has   *)
(* written both.                                                           *)
(***************************************************************************)
EXTENDS ClaudeSwitch

CONSTANTS a, b

MCInit ==
  /\ Init
  /\ \A f \in File : disk.live[f].of # b
  /\ disk.live["settings"] = Missing <=> disk.live["credentials"] = Missing

MCSpec == MCInit /\ [][Next]_vars
MCFairSpec == MCSpec /\ Fairness
=============================================================================
