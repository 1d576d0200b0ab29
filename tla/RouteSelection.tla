--------------------------- MODULE RouteSelection ---------------------------
(***************************************************************************)
(* The account router of src-tauri/src/router: which rule, and so which    *)
(* account, serves the next attempt of a request.  It does no I/O.         *)
(*   - A rule matches a set of model names (one name, or the names with a  *)
(*     prefix); a pattern with a misplaced star is Malformed.              *)
(*   - Time is counted in seconds from 1; 0 stands for "no deadline".      *)
(*   - A quota listing is a set of snapshots, or Unusable: absent, twice   *)
(*     present, without signal, or failed.                                 *)
(***************************************************************************)
EXTENDS Naturals, Sequences, FiniteSets

CONSTANTS
  AnyModel,   \* the model of a snapshot that covers every model
  Malformed,  \* a field the router refuses
  NoCeiling,  \* a rule without max_utilization
  Unusable    \* a provider whose quota says nothing

FieldsOf(rule) == {rule.match, rule.provider, rule.target, rule.ceiling}

(* validate_rules: the whole document, before any rule is looked at.       *)
ValidRules(rules) == \A i \in DOMAIN rules : Malformed \notin FieldsOf(rules[i])

(* model_matches                                                           *)
Matching(rules, model) == {i \in DOMAIN rules : model \in rules[i].match}

(* resolve_account: the one target of the rule's provider.                 *)
TargetsOf(targets, provider) ==
  {i \in DOMAIN targets : targets[i].provider = provider}

Resolves(targets, provider) ==
  \E i \in DOMAIN targets : TargetsOf(targets, provider) = {i}

AccountOf(targets, provider) ==
  {targets[i].account : i \in TargetsOf(targets, provider)}

(* The throttle table is keyed by provider and account.                    *)
KeysOf(targets, provider) ==
  {<<provider, account>> : account \in AccountOf(targets, provider)}

(* A second of grace: what is_throttled must not give.                     *)
ThrottledLate(throttle, key, now) == throttle[key] > now + 1

(* is_throttled                                                            *)
Throttled(throttle, key, now) == throttle[key] > now

(* applicable_quota: the snapshots of an account that cover the target     *)
(* model.  One invalid snapshot spoils the provider's whole listing.       *)
Applicable(listing, account, model) ==
  IF listing = Unusable \/ \E s \in listing : ~s.valid
  THEN {}
  ELSE {s \in listing : s.account = account /\ s.model \in {AnyModel, model}}

(* The quota gate: the largest applicable utilization is at most the       *)
(* ceiling, and no applicable snapshot at all closes the gate.             *)
WithinCeiling(rule, snapshots) ==
  \/ rule.ceiling = NoCeiling
  \/ /\ snapshots # {}
     /\ \A s \in snapshots : s.utilization <= rule.ceiling

(* The latest of a set of times, or 0 if it has none.                      *)
Latest(times) ==
  IF \E t \in times : \A u \in times : u <= t
  THEN CHOOSE t \in times : \A u \in times : u <= t
  ELSE 0

(* The latest applicable reset after now, or 0.                            *)
ResetOf(snapshots, now) ==
  Latest({s.reset : s \in {t \in snapshots : t.reset > now}})

(* A matching rule is passed over for exactly two reasons.                 *)
PassedOver(rule, targets, throttle, quotas, now) ==
  \/ \E key \in KeysOf(targets, rule.provider) : Throttled(throttle, key, now)
  \/ \E account \in AccountOf(targets, rule.provider) :
       ~WithinCeiling(rule,
          Applicable(quotas[rule.provider], account, rule.target))

(* select_next: the rules at which its loop can stop.  It returns at the   *)
(* first of them -- with an error if the rule's account does not resolve,  *)
(* else with a selection.                                                  *)
Stops(rules, targets, throttle, quotas, model, start, now) ==
  {i \in Matching(rules, model) :
     /\ i >= start
     /\ Resolves(targets, rules[i].provider)
          => ~PassedOver(rules[i], targets, throttle, quotas, now)}

IsFirst(i, stops) == i \in stops /\ \A j \in stops : i <= j

(* retain: what a selection at `now` leaves of the throttle table.         *)
Prune(throttle, now) ==
  [key \in DOMAIN throttle |-> IF throttle[key] > now THEN throttle[key] ELSE 0]

(* The last observation wins: what record_rate_limit must not do.          *)
RecordOverwrites(throttle, key, until) == [throttle EXCEPT ![key] = until]

(* record_rate_limit: an observation may extend a throttle, never shorten  *)
(* it.                                                                     *)
Record(throttle, key, until) ==
  [throttle EXCEPT ![key] = IF @ > until THEN @ ELSE until]
=============================================================================
