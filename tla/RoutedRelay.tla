----------------------------- MODULE RoutedRelay -----------------------------
(***************************************************************************)
(* The rule-driven relay: concurrent requests, each trying the routing     *)
(* rules in order until an upstream answers with anything but HTTP 429,    *)
(* and the throttle table they share.                                      *)
(*                                                                         *)
(* A request is an async task: it holds the router's mutex only inside     *)
(* select_next and record_rate_limit, and reads the clock before it waits  *)
(* for the mutex.  Its quota listing is read once, when it arrives.  Its   *)
(* client may go at any await, which drops the task where it stands.       *)
(***************************************************************************)
EXTENDS RouteSelection

CONSTANTS
  Request,      \* places for requests in flight
  Model,        \* inbound model names
  Key,          \* <<provider, account>> pairs
  Documents,    \* rule documents a relay may be started with
  Catalogs,     \* account targets the environment may configure
  Listings,     \* quota results the providers may publish
  RetryAfter,   \* usable Retry-After values; NoRetry is none
  NoRetry,
  Fallback,     \* ROUTE_FALLBACK_THROTTLE
  MaxClock      \* bound on the clock

ASSUME TimeAssumption ==
  /\ Fallback \in Nat \ {0} /\ MaxClock \in Nat
  /\ NoRetry \notin Nat /\ RetryAfter \subseteq Nat \cup {NoRetry}
ASSUME CatalogAssumption ==
  \A c \in Catalogs : \A i \in DOMAIN c : <<c[i].provider, c[i].account>> \in Key
ASSUME DocumentAssumption ==
  \A d \in Documents : DOMAIN d \subseteq Nat \ {0}
ASSUME ListingAssumption ==
  \A l \in Listings, d \in Documents : \A i \in DOMAIN d :
    \/ l[d[i].provider] = Unusable
    \/ \A s \in l[d[i].provider] : s.reset \in Nat

VARIABLES
  serving,    \* has RoutedServerState::new accepted a document
  rules,      \* the rules in force
  targets,    \* the account targets in force
  published,  \* what the quota source would say now
  clock,      \* now
  throttle,   \* RouterState::throttled_until; 0 is no entry
  req,        \* the request tasks
  observed    \* history: the latest deadline recorded for an account

vars == <<serving, rules, targets, published, clock, throttle, req, observed>>
config == <<serving, rules, targets>>

Refusals == {"Unmatched", "NoEligible", "Misconfigured"}
Answers == Refusals \cup {"RateLimited", "Upstream", "Failed"}
Pc == {"idle", "clock", "select", "send", "sent", "record", "done"}

ReqRecord ==
  [pc : Pc, model : Model \cup {AnyModel}, quotas : Listings \cup {Unusable},
   start : Nat \ {0}, at : Nat, rule : Nat, reset : Nat, until : Nat,
   limited : BOOLEAN, tried : SUBSET Nat, answer : Answers \cup {"None"}]

(* at: the clock as read; rule, reset, until: of the attempt under way;    *)
(* tried: history, the rules attempted.                                    *)
Idle == [pc |-> "idle", model |-> AnyModel, quotas |-> Unusable, start |-> 1,
         at |-> 0, rule |-> 0, reset |-> 0, until |-> 0,
         limited |-> FALSE, tried |-> {}, answer |-> "None"]

Init ==
  /\ serving = FALSE /\ rules = <<>> /\ targets = <<>>
  /\ published \in Listings
  /\ clock = 1
  /\ throttle = [key \in Key |-> 0] /\ observed = [key \in Key |-> 0]
  /\ req = [r \in Request |-> Idle]

-----------------------------------------------------------------------------
(* A catalog may bind a provider twice: a bug RoutedServerState::new must  *)
(* not have.                                                               *)
AcceptsAmbiguous(document, catalog) ==
  /\ ValidRules(document)
  /\ \A i \in DOMAIN document :
       \E j \in DOMAIN catalog : catalog[j].provider = document[i].provider

(* RoutedServerState::new: valid rules, one target per provider, and a     *)
(* target for the provider of every rule.                                  *)
Accepts(document, catalog) ==
  /\ ValidRules(document)
  /\ \A i, j \in DOMAIN catalog : catalog[i].provider = catalog[j].provider => i = j
  /\ \A i \in DOMAIN document :
       \E j \in DOMAIN catalog : catalog[j].provider = document[i].provider

(* start_routed: what is accepted is fixed for the life of the listener.   *)
StartRouted(document, catalog) ==
  /\ ~serving
  /\ Accepts(document, catalog)
  /\ serving' = TRUE /\ rules' = document /\ targets' = catalog
  /\ UNCHANGED <<published, clock, throttle, req, observed>>

(* A request with a readable model arrives; the quotas are read here, once.*)
Receive(r, model) ==
  /\ serving /\ req[r].pc = "idle"
  /\ req' = [req EXCEPT ![r] =
       [Idle EXCEPT !.pc = "clock", !.model = model, !.quotas = published]]
  /\ UNCHANGED <<config, published, clock, throttle, observed>>

(* `now` is taken before the router's mutex is waited for.                 *)
ReadClock(r) ==
  /\ req[r].pc = "clock"
  /\ req' = [req EXCEPT ![r].pc = "select", ![r].at = clock]
  /\ UNCHANGED <<config, published, clock, throttle, observed>>

Answered(c, answer) ==
  [c EXCEPT !.pc = "done", !.answer = answer, !.at = 0, !.rule = 0, !.reset = 0]

(* last_rate_limit.unwrap_or_else(routed_selection_error)                  *)
Refused(c, refusal) ==
  Answered(c, IF c.limited THEN "RateLimited" ELSE refusal)

(* The account a rule of the relay in force is served by.                  *)
KeyOf(i) ==
  CHOOSE key \in Key : key \in KeysOf(targets, rules[i].provider)

(* The rule, its account and its quota reset are fixed with the selection. *)
Chosen(c, i) ==
  [c EXCEPT !.pc = "send", !.at = 0, !.rule = i,
            !.reset = ResetOf(Applicable(c.quotas[rules[i].provider],
                                         KeyOf(i)[2], rules[i].target), c.at)]

Select(r) ==
  LET c == req[r]
      live == Prune(throttle, c.at)
      stops == Stops(rules, targets, live, c.quotas, c.model, c.start, c.at)
  IN
  /\ c.pc = "select"
  /\ throttle' = live
  /\ \/ \E i \in stops :
          /\ IsFirst(i, stops)
          /\ req' = [req EXCEPT ![r] =
               IF Resolves(targets, rules[i].provider)
               THEN Chosen(c, i) ELSE Refused(c, "Misconfigured")]
     \/ /\ stops = {}
        /\ req' = [req EXCEPT ![r] =
             Refused(c, IF Matching(rules, c.model) = {}
                        THEN "Unmatched" ELSE "NoEligible")]
  /\ UNCHANGED <<config, published, clock, observed>>

(* The request is translated and on its way: it spends the account's quota.*)
Send(r) ==
  /\ req[r].pc = "send"
  /\ req' = [req EXCEPT ![r].pc = "sent", ![r].tried = @ \cup {req[r].rule}]
  /\ UNCHANGED <<config, published, clock, throttle, observed>>

(* A translation error before the attempt, or a network error in it.       *)
Fails(r) ==
  /\ req[r].pc \in {"send", "sent"}
  /\ req' = [req EXCEPT ![r] = Answered(@, "Failed")]
  /\ UNCHANGED <<config, published, clock, throttle, observed>>

(* Any status but 429 ends the request, a success and an error alike.      *)
UpstreamAnswers(r) ==
  /\ req[r].pc = "sent"
  /\ req' = [req EXCEPT ![r] = Answered(@, "Upstream")]
  /\ UNCHANGED <<config, published, clock, throttle, observed>>

(* rate_limit_deadline: the later of Retry-After and a reset still ahead,  *)
(* else the fallback.                                                      *)
Deadline(retry, reset, at) ==
  LET given == {at + s : s \in {retry} \ {NoRetry}} \cup {t \in {reset} : t > at} IN
  IF given = {} THEN at + Fallback ELSE Latest(given)

(* A 429: the deadline is computed from a second reading of the clock.     *)
RateLimited(r, retry) ==
  /\ req[r].pc = "sent"
  /\ req' = [req EXCEPT ![r].pc = "record", ![r].reset = 0,
                        ![r].until = Deadline(retry, req[r].reset, clock)]
  /\ UNCHANGED <<config, published, clock, throttle, observed>>

LimitAndResume(r, start) ==
  LET c == req[r] IN
  /\ c.pc = "record"
  /\ throttle' = Record(throttle, KeyOf(c.rule), c.until)
  /\ observed' = [observed EXCEPT ![KeyOf(c.rule)] = Latest({@, c.until})]
  /\ req' = [req EXCEPT ![r] =
       [c EXCEPT !.pc = "clock", !.start = start, !.limited = TRUE,
                 !.rule = 0, !.until = 0]]
  /\ UNCHANGED <<config, published, clock>>

(* A mutant: the loop resumes at the rule it began with.                   *)
RecordLimitRestarts(r) == LimitAndResume(r, req[r].start)

(* The throttle is recorded, and the loop goes on after the rule.          *)
RecordLimit(r) == LimitAndResume(r, req[r].rule + 1)

(* The client has gone, with its answer or without waiting for it.         *)
Leave(r) ==
  /\ req[r].pc # "idle"
  /\ req' = [req EXCEPT ![r] = Idle]
  /\ UNCHANGED <<config, published, clock, throttle, observed>>

Tick ==
  /\ clock < MaxClock
  /\ clock' = clock + 1
  /\ UNCHANGED <<config, published, throttle, req, observed>>

Publish(listing) ==
  /\ published' = listing
  /\ UNCHANGED <<config, clock, throttle, req, observed>>

Step(r) == ReadClock(r) \/ Select(r) \/ Send(r) \/ RecordLimit(r)

Upstream(r) ==
  Fails(r) \/ UpstreamAnswers(r) \/ \E retry \in RetryAfter : RateLimited(r, retry)

Next ==
  \/ \E document \in Documents, catalog \in Catalogs : StartRouted(document, catalog)
  \/ \E r \in Request, model \in Model : Receive(r, model)
  \/ \E r \in Request : Step(r) \/ Upstream(r) \/ Leave(r)
  \/ Tick
  \/ \E listing \in Listings : Publish(listing)

Spec == Init /\ [][Next]_vars

-----------------------------------------------------------------------------
TypeOK ==
  /\ serving \in BOOLEAN
  /\ published \in Listings
  /\ clock \in Nat \ {0}
  /\ throttle \in [Key -> Nat] /\ observed \in [Key -> Nat]
  /\ req \in [Request -> ReqRecord]

(* The throttle table forgets nothing that is still ahead: whatever order  *)
(* requests record their deadlines in, and whatever stale `now` they prune *)
(* with, the latest unexpired deadline of every account is in it.          *)
ThrottleRemembers ==
  \A key \in Key : observed[key] > clock => throttle[key] = observed[key]

(* No attempt is chosen for an account before the latest deadline recorded *)
(* for it by any request.                                                  *)
NoAttemptInsideDeadline ==
  [][\A r \in Request :
       req[r].pc = "select" /\ req'[r].pc = "send"
         => observed[KeyOf(req'[r].rule)] <= clock]_vars

(* A request goes down the rules: every attempt is at a matching rule      *)
(* below all it has tried, so no rule is spent on twice.                   *)
AttemptsDescend ==
  [][\A r \in Request :
       req[r].pc = "select" /\ req'[r].pc = "send"
         => /\ req[r].model \in rules[req'[r].rule].match
            /\ \A i \in req[r].tried : i < req'[r].rule]_vars

(* A refusal of the relay's own means that no account was asked, and a 429 *)
(* that one was: the client is never told "no route" about quota it spent. *)
RefusalMeansUntouched ==
  \A r \in Request : req[r].pc = "done" =>
    /\ req[r].answer \in Refusals => req[r].tried = {}
    /\ req[r].answer = "RateLimited" => req[r].tried # {}

(* What RoutedServerState::new accepts never fails to resolve later: the   *)
(* errors of resolve_account cannot reach a client.                        *)
NeverMisconfigured == \A r \in Request : req[r].answer # "Misconfigured"

(* What a client is told is so: of what was spent, and of the rules.       *)
AnswersAreTrue == RefusalMeansUntouched /\ NeverMisconfigured

-----------------------------------------------------------------------------
(* Request tasks are scheduled and the router's mutex is never held across *)
(* an await; of an upstream it is assumed that it answers or fails, since  *)
(* the HTTP client has no timeout of its own.                              *)
FairSpec ==
  Spec /\ \A r \in Request : WF_vars(Step(r)) /\ WF_vars(Upstream(r))

(* Every request comes to an end, however often it meets a 429 -- also one *)
(* whose Retry-After has already passed.                                   *)
RequestsEnd ==
  \A r \in Request : req[r].pc = "clock" ~> req[r].pc \in {"done", "idle"}
=============================================================================
