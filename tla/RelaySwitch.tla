---------------------------- MODULE RelaySwitch ------------------------------
(***************************************************************************)
(* What the relay is to a user: a switch.  It is off, or on with the rules *)
(* it was started with.  Other rules need another start, a stop says that  *)
(* the relay was turned off, and the relay may fail by itself.             *)
(***************************************************************************)
CONSTANTS Rules, Off

VARIABLE running   \* the rules the relay runs with, or Off

TurnOn(r) == running = Off /\ running' = r
TurnOff == running # Off /\ running' = Off

Spec == running = Off /\ [][TurnOff \/ \E r \in Rules : TurnOn(r)]_running
=============================================================================
