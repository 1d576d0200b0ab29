----------------------------- MODULE PairPromise -----------------------------
(***************************************************************************)
(* What a switch of a two-file identity promises to whoever asked for it,  *)
(* with none of the files, backups and journals that keep the promise:     *)
(* the pair of identities in force changes in one step, to the account     *)
(* that was asked for and only together with the answer "ok"; any other    *)
(* answer, and an end without one, leaves the pair as it was.  A power     *)
(* loss may undo the last switch, and nothing but the last.                *)
(***************************************************************************)
CONSTANTS Account, Nobody

VARIABLES
  active,   \* the pair in force, as <<credentials, identity>>
  durable,  \* the pairs a power loss may leave in force
  asked,    \* the account a switch is under way to, or Nobody
  answer    \* what the last switch was answered

promise == <<active, durable, asked, answer>>

Owners == Account \cup {Nobody}

Init ==
  /\ active \in Owners \X Owners /\ durable = {active}
  /\ asked = Nobody /\ answer = "none"

(* Whatever happens meanwhile only settles what a power loss may do.       *)
Settles == UNCHANGED active /\ durable' \subseteq durable /\ active \in durable'

Settle == Settles /\ UNCHANGED <<asked, answer>>

Ask(a) ==
  /\ asked = Nobody
  /\ asked' = a /\ answer' = "none"
  /\ Settles

Commit ==
  /\ asked # Nobody
  /\ active' = <<asked, asked>> /\ asked' = Nobody /\ answer' = "ok"
  /\ durable' = {active, active'}

Refuse ==
  /\ asked # Nobody
  /\ asked' = Nobody /\ answer' = "error"
  /\ Settles

(* The asker is gone, and with it the answer.                              *)
Vanish == asked' = Nobody /\ answer' = "none" /\ Settles

PowerLoss ==
  /\ asked' = Nobody /\ answer' = "none"
  /\ active' \in durable /\ durable' = {active'}

Next ==
  \/ \E a \in Account : Ask(a)
  \/ Commit \/ Refuse \/ Vanish \/ Settle \/ PowerLoss

Spec == Init /\ [][Next]_promise
=============================================================================
