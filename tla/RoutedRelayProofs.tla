-------------------------- MODULE RoutedRelayProofs --------------------------
(***************************************************************************)
(* What holds of RoutedRelay for every rule document, catalog of accounts, *)
(* quota listing and number of concurrent requests.                        *)
(***************************************************************************)
EXTENDS RoutedRelay, TLAPS

(* What is in force was accepted.                                          *)
ConfigInv ==
  IF serving
  THEN rules \in Documents /\ targets \in Catalogs /\ Accepts(rules, targets)
  ELSE rules = <<>> /\ targets = <<>>

(* A request has read the quotas; its clock reading is not ahead of the    *)
(* clock; an attempt under way is at a rule of the document.               *)
Placed(c) ==
  /\ c.pc \in {"clock", "select", "send", "sent", "record"} => c.quotas \in Listings
  /\ c.pc = "select" => c.at <= clock
  /\ c.pc \in {"send", "sent", "record"} => c.rule \in DOMAIN rules
  /\ c.answer # "Misconfigured"

(* The rules tried lie behind the request, and `limited` remembers them.   *)
Accounted(c) ==
  /\ c.pc \in {"clock", "select"} => \A i \in c.tried : i < c.start
  /\ c.pc = "send" => \A i \in c.tried : i < c.rule
  /\ c.pc \in {"sent", "record"} => \A i \in c.tried : i <= c.rule
  /\ c.pc \in {"clock", "select", "send"} => (c.limited <=> c.tried # {})
  /\ c.pc \in {"sent", "record"} => c.tried # {}
  /\ c.pc = "done" =>
       /\ c.answer \in Refusals => c.tried = {}
       /\ c.answer = "RateLimited" => c.tried # {}

RequestInv(c) == c \in ReqRecord /\ Placed(c) /\ Accounted(c)

(* The table is never ahead of what was observed, and behind it only where *)
(* the deadline has passed.                                                *)
ThrottleInv ==
  \A key \in Key :
    /\ throttle[key] <= observed[key]
    /\ throttle[key] = observed[key] \/ observed[key] <= clock

IInv ==
  /\ TypeOK /\ ConfigInv /\ ThrottleInv
  /\ \A r \in Request : RequestInv(req[r])

-----------------------------------------------------------------------------
(* The latest of some times is a time.                                     *)
LEMMA LatestIsTime ==
  ASSUME NEW S \in SUBSET Nat PROVE Latest(S) \in Nat
BY DEF Latest

(* The latest of two times is one of them, and before neither.             *)
LEMMA LatestOfTwo ==
  ASSUME NEW a \in Nat, NEW b \in Nat
  PROVE  Latest({a, b}) = IF a > b THEN a ELSE b
<1>1. \E t \in {a, b} : \A u \in {a, b} : u <= t
  OBVIOUS
<1>2. PICK m \in {a, b} : m = Latest({a, b}) /\ \A u \in {a, b} : u <= m
  BY <1>1 DEF Latest
<1> QED
  BY <1>2

(* record_rate_limit keeps the later deadline of an account, and touches   *)
(* no other.                                                               *)
LEMMA RecordKeepsLater ==
  ASSUME NEW table \in [Key -> Nat], NEW key \in Key, NEW until \in Nat
  PROVE  /\ Record(table, key, until) \in [Key -> Nat]
         /\ \A k \in Key : Record(table, key, until)[k] =
              IF k = key THEN Latest({table[key], until}) ELSE table[k]
<1>1. Latest({table[key], until}) = IF table[key] > until THEN table[key] ELSE until
  BY LatestOfTwo
<1> QED
  BY <1>1 DEF Record

(* retain drops the deadlines that are not after `now`, and no others.     *)
LEMMA PruneKeepsAhead ==
  ASSUME NEW table \in [Key -> Nat], NEW now \in Nat
  PROVE  /\ Prune(table, now) \in [Key -> Nat]
         /\ \A k \in Key : Prune(table, now)[k] =
              IF table[k] > now THEN table[k] ELSE 0
BY DEF Prune

(* The deadline of a 429 is a time.                                        *)
LEMMA DeadlineIsTime ==
  ASSUME NEW retry \in RetryAfter, NEW reset \in Nat, NEW at \in Nat
  PROVE  Deadline(retry, reset, at) \in Nat
<1> DEFINE given == {at + s : s \in {retry} \ {NoRetry}} \cup {t \in {reset} : t > at}
<1>1. given \in SUBSET Nat
  BY TimeAssumption
<1>2. Latest(given) \in Nat
  BY <1>1, LatestIsTime
<1>3. at + Fallback \in Nat
  BY TimeAssumption
<1> QED
  BY <1>2, <1>3 DEF Deadline

(* The reset fixed with a selection is a time.                             *)
LEMMA ResetIsTime ==
  ASSUME ConfigInv, NEW l \in Listings, NEW i \in DOMAIN rules,
         NEW account, NEW model, NEW now \in Nat
  PROVE  ResetOf(Applicable(l[rules[i].provider], account, model), now) \in Nat
<1> DEFINE snapshots == Applicable(l[rules[i].provider], account, model)
           resets == {s.reset : s \in {t \in snapshots : t.reset > now}}
<1>1. rules \in Documents
  BY DEF ConfigInv
<1>2. \A s \in snapshots : s.reset \in Nat
  BY <1>1, ListingAssumption DEF Applicable
<1>3. resets \in SUBSET Nat
  BY <1>2
<1> QED
  BY <1>3, LatestIsTime DEF ResetOf

(* A rule in force has exactly one target, and so one account.             *)
LEMMA RulesResolve ==
  ASSUME ConfigInv, NEW i \in DOMAIN rules
  PROVE  /\ Resolves(targets, rules[i].provider)
         /\ KeyOf(i) \in Key
         /\ KeyOf(i) \in KeysOf(targets, rules[i].provider)
<1>1. serving /\ targets \in Catalogs /\ Accepts(rules, targets)
  BY DEF ConfigInv
<1>2. PICK j \in DOMAIN targets : targets[j].provider = rules[i].provider
  BY <1>1 DEF Accepts
<1>3. TargetsOf(targets, rules[i].provider) = {j}
  BY <1>1, <1>2 DEF Accepts, TargetsOf
<1>4. <<rules[i].provider, targets[j].account>> \in KeysOf(targets, rules[i].provider)
  BY <1>3 DEF KeysOf, AccountOf
<1>5. <<rules[i].provider, targets[j].account>> \in Key
  BY <1>1, <1>2, CatalogAssumption
<1>6. \E key \in Key : key \in KeysOf(targets, rules[i].provider)
  BY <1>4, <1>5
<1>7. Resolves(targets, rules[i].provider)
  BY <1>3 DEF Resolves
<1> QED
  BY <1>6, <1>7 DEF KeyOf

-----------------------------------------------------------------------------
(* An action of one request changes that request alone.                    *)
Moves(r, c) == req' = [req EXCEPT ![r] = c]

LEMMA MovesOne ==
  ASSUME TypeOK, NEW r \in Request, NEW c, Moves(r, c)
  PROVE  /\ req'[r] = c
         /\ \A q \in Request \ {r} : req'[q] = req[q]
         /\ c \in ReqRecord => req' \in [Request -> ReqRecord]
BY DEF TypeOK, Moves

LEMMA IdleInv == RequestInv(Idle)
BY DEF Idle, RequestInv, ReqRecord, Placed, Accounted, Pc

LEMMA InitInv == Init => IInv
<1> SUFFICES ASSUME Init PROVE IInv
  OBVIOUS
<1>1. TypeOK
  <2>1. Idle \in ReqRecord
    BY IdleInv DEF RequestInv
  <2>2. req \in [Request -> ReqRecord]
    BY <2>1 DEF Init
  <2>3. serving \in BOOLEAN
    BY DEF Init
  <2>4. published \in Listings /\ clock \in Nat \ {0}
    BY DEF Init
  <2>5. throttle \in [Key -> Nat] /\ observed \in [Key -> Nat]
    BY DEF Init
  <2> QED
    BY <2>2, <2>3, <2>4, <2>5 DEF TypeOK
<1>2. ConfigInv /\ ThrottleInv
  BY DEF Init, ConfigInv, ThrottleInv
<1>3. \A r \in Request : RequestInv(req[r])
  BY IdleInv DEF Init
<1> QED
  BY <1>1, <1>2, <1>3 DEF IInv

(* What Select does, once: it prunes the table, and either chooses the     *)
(* first rule it can stop at or refuses the request.                       *)
LEMMA SelectEither ==
  ASSUME IInv, NEW r \in Request, Select(r)
  PROVE  \/ \E i \in DOMAIN rules :
              /\ Moves(r, Chosen(req[r], i))
              /\ i >= req[r].start /\ req[r].model \in rules[i].match
              /\ ~PassedOver(rules[i], targets, Prune(throttle, req[r].at),
                             req[r].quotas, req[r].at)
         \/ \E refusal \in {"Unmatched", "NoEligible"} :
              Moves(r, Refused(req[r], refusal))
<1> DEFINE c == req[r]
           live == Prune(throttle, c.at)
           stops == Stops(rules, targets, live, c.quotas, c.model, c.start, c.at)
<1>1. CASE stops = {}
  BY <1>1 DEF Select, Moves, IsFirst
<1>2. CASE stops # {}
  <2>1. PICK i \in stops :
          req' = [req EXCEPT ![r] =
            IF Resolves(targets, rules[i].provider)
            THEN Chosen(c, i) ELSE Refused(c, "Misconfigured")]
    BY <1>2 DEF Select
  <2>2. i \in DOMAIN rules /\ i >= c.start /\ c.model \in rules[i].match
    BY <2>1 DEF Stops, Matching
  <2>3. Resolves(targets, rules[i].provider)
    BY <2>2, RulesResolve DEF IInv
  <2>4. ~PassedOver(rules[i], targets, live, c.quotas, c.at)
    BY <2>1, <2>3 DEF Stops
  <2> QED
    BY <2>1, <2>2, <2>3, <2>4 DEF Moves
<1> QED
  BY <1>1, <1>2

(* A chosen attempt is a request record at its rule.                       *)
LEMMA ChosenType ==
  ASSUME IInv, NEW r \in Request, req[r].pc = "select", NEW i \in DOMAIN rules
  PROVE  /\ Chosen(req[r], i) \in ReqRecord
         /\ Chosen(req[r], i).pc = "send" /\ Chosen(req[r], i).rule = i
         /\ Chosen(req[r], i).tried = req[r].tried
         /\ Chosen(req[r], i).limited = req[r].limited
         /\ Chosen(req[r], i).answer = req[r].answer
         /\ Chosen(req[r], i).quotas = req[r].quotas
<1> DEFINE c == req[r]
           reset == ResetOf(Applicable(c.quotas[rules[i].provider],
                                       KeyOf(i)[2], rules[i].target), c.at)
<1>1. c \in ReqRecord /\ c.at \in Nat
  BY DEF IInv, TypeOK, ReqRecord
<1>2. c.quotas \in Listings
  BY DEF IInv, RequestInv, Placed
<1>3. reset \in Nat
  BY <1>1, <1>2, ResetIsTime DEF IInv
<1>4. i \in Nat
  BY DocumentAssumption DEF IInv, ConfigInv
<1>5. PICK d \in ReqRecord : d = c
  BY <1>1
<1>6. PICK n \in Nat : n = reset
  BY <1>3
<1>7. Chosen(c, i) = [d EXCEPT !.pc = "send", !.at = 0, !.rule = i, !.reset = n]
  BY <1>5, <1>6 DEF Chosen
<1>8. [d EXCEPT !.pc = "send", !.at = 0, !.rule = i, !.reset = n] \in ReqRecord
  BY <1>4 DEF ReqRecord, Pc
<1>9. /\ Chosen(c, i).pc = "send" /\ Chosen(c, i).rule = i
      /\ Chosen(c, i).tried = d.tried /\ Chosen(c, i).limited = d.limited
      /\ Chosen(c, i).answer = d.answer /\ Chosen(c, i).quotas = d.quotas
  BY <1>7 DEF ReqRecord
<1> QED
  BY <1>5, <1>7, <1>8, <1>9

(* An answered request is a request record.                                *)
LEMMA AnsweredType ==
  ASSUME NEW c \in ReqRecord, NEW answer \in Answers
  PROVE  /\ Answered(c, answer) \in ReqRecord
         /\ Answered(c, answer).pc = "done" /\ Answered(c, answer).answer = answer
         /\ Answered(c, answer).tried = c.tried
BY DEF Answered, ReqRecord, Pc

-----------------------------------------------------------------------------
(* A step of request r that leaves the configuration and the clock alone   *)
(* keeps the invariant if the new record and the new table do their part.  *)
LEMMA RequestStep ==
  ASSUME IInv, NEW r \in Request, NEW c, Moves(r, c), RequestInv(c),
         UNCHANGED <<serving, rules, targets, published, clock>>,
         throttle' \in [Key -> Nat], observed' \in [Key -> Nat], ThrottleInv'
  PROVE  IInv'
<1>1. c \in ReqRecord
  BY DEF RequestInv
<1>2. /\ req'[r] = c
      /\ \A q \in Request \ {r} : req'[q] = req[q]
      /\ req' \in [Request -> ReqRecord]
  BY <1>1, MovesOne DEF IInv
<1>3. TypeOK'
  BY <1>2 DEF IInv, TypeOK
<1>4. ConfigInv'
  BY DEF IInv, ConfigInv
<1>5. ASSUME NEW q \in Request PROVE RequestInv(req[q])'
  <2>1. CASE q = r
    BY <1>2, <2>1 DEF RequestInv, Placed, Accounted
  <2>2. CASE q # r
    BY <1>2, <2>2 DEF IInv, RequestInv, Placed, Accounted
  <2> QED
    BY <2>1, <2>2
<1> QED
  BY <1>3, <1>4, <1>5 DEF IInv

(* The same with the throttle table and its history untouched.             *)
LEMMA QuietStep ==
  ASSUME IInv, NEW r \in Request, NEW c, Moves(r, c), RequestInv(c),
         UNCHANGED <<config, published, clock, throttle, observed>>
  PROVE  IInv'
<1>1. throttle' \in [Key -> Nat] /\ observed' \in [Key -> Nat]
  BY DEF IInv, TypeOK
<1>2. ThrottleInv'
  BY DEF IInv, ThrottleInv
<1> QED
  BY <1>1, <1>2, RequestStep DEF config

-----------------------------------------------------------------------------
LEMMA SelectInv ==
  ASSUME IInv, NEW r \in Request, Select(r) PROVE IInv'
<1> DEFINE c == req[r]
<1>1. c \in ReqRecord /\ Placed(c) /\ Accounted(c) /\ c.pc = "select"
  BY DEF Select, IInv, RequestInv
<1>2. /\ throttle \in [Key -> Nat] /\ observed \in [Key -> Nat]
      /\ clock \in Nat /\ c.at \in Nat /\ c.at <= clock
  BY <1>1 DEF IInv, TypeOK, ReqRecord, Placed
<1>3. throttle' = Prune(throttle, c.at) /\ UNCHANGED <<config, published, clock, observed>>
  BY DEF Select
<1>4. /\ throttle' \in [Key -> Nat]
      /\ \A k \in Key : throttle'[k] = IF throttle[k] > c.at THEN throttle[k] ELSE 0
  BY <1>2, <1>3, PruneKeepsAhead
<1>5. ThrottleInv'
  <2> SUFFICES ASSUME NEW key \in Key
               PROVE  /\ throttle'[key] <= observed'[key]
                      /\ throttle'[key] = observed'[key] \/ observed'[key] <= clock'
    BY DEF ThrottleInv
  <2>1. throttle[key] <= observed[key]
        /\ (throttle[key] = observed[key] \/ observed[key] <= clock)
    BY DEF IInv, ThrottleInv
  <2> QED
    BY <1>2, <1>3, <1>4, <2>1
<1>6. CASE \E i \in DOMAIN rules :
             Moves(r, Chosen(c, i)) /\ i >= c.start
  <2>1. PICK i \in DOMAIN rules : Moves(r, Chosen(c, i)) /\ i >= c.start
    BY <1>6
  <2>2. i \in Nat
    BY DocumentAssumption DEF IInv, ConfigInv
  <2>3. PICK d : d = Chosen(c, i)
    OBVIOUS
  <2>4. /\ d \in ReqRecord /\ d.pc = "send" /\ d.rule = i /\ d.tried = c.tried
        /\ d.limited = c.limited /\ d.answer = c.answer /\ d.quotas = c.quotas
    BY <1>1, <2>3, ChosenType
  <2>5. \A j \in d.tried : j < d.rule
    BY <1>1, <2>1, <2>2, <2>4 DEF Accounted, ReqRecord
  <2>6. RequestInv(d)
    BY <1>1, <2>4, <2>5 DEF RequestInv, Placed, Accounted
  <2> QED
    BY <1>2, <1>3, <1>4, <1>5, <2>1, <2>3, <2>6, RequestStep DEF config
<1>7. CASE \E refusal \in {"Unmatched", "NoEligible"} : Moves(r, Refused(c, refusal))
  <2>1. PICK refusal \in {"Unmatched", "NoEligible"} : Moves(r, Refused(c, refusal))
    BY <1>7
  <2>2. PICK answer \in {"Unmatched", "NoEligible", "RateLimited"} :
          /\ Refused(c, refusal) = Answered(c, answer)
          /\ answer = "RateLimited" <=> c.limited
    BY DEF Refused
  <2>3. PICK d : d = Answered(c, answer)
    OBVIOUS
  <2>4. d \in ReqRecord /\ d.pc = "done" /\ d.answer = answer /\ d.tried = c.tried
    BY <1>1, <2>3, AnsweredType DEF Answers, Refusals
  <2>5. RequestInv(d)
    BY <1>1, <2>2, <2>4 DEF RequestInv, Placed, Accounted, Refusals
  <2> QED
    BY <1>2, <1>3, <1>4, <1>5, <2>1, <2>2, <2>3, <2>5, RequestStep DEF config
<1> QED
  BY <1>6, <1>7, SelectEither

(* Where RecordLimit leaves a request: past the rule, and limited.         *)
Resumed(c) ==
  [c EXCEPT !.pc = "clock", !.start = c.rule + 1, !.limited = TRUE,
            !.rule = 0, !.until = 0]

LEMMA ResumedInv ==
  ASSUME NEW c, RequestInv(c), c.pc = "record" PROVE RequestInv(Resumed(c))
<1>1. c \in ReqRecord /\ Placed(c) /\ Accounted(c)
  BY DEF RequestInv
<1>2. Resumed(c) \in ReqRecord
  <2>1. PICK n \in Nat \ {0} : n = c.rule + 1
    BY <1>1 DEF ReqRecord
  <2>2. [c EXCEPT !.pc = "clock", !.start = n, !.limited = TRUE,
                  !.rule = 0, !.until = 0] \in ReqRecord
    BY <1>1, <2>1 DEF ReqRecord, Pc
  <2> QED
    BY <2>1, <2>2 DEF Resumed
<1>3. /\ Resumed(c).pc = "clock" /\ Resumed(c).start = c.rule + 1
      /\ Resumed(c).limited = TRUE /\ Resumed(c).tried = c.tried
      /\ Resumed(c).quotas = c.quotas /\ Resumed(c).answer = c.answer
  BY <1>1 DEF Resumed, ReqRecord
<1>4. Placed(Resumed(c))
  BY <1>1, <1>3 DEF Placed
<1>5. c.rule \in Nat /\ c.tried \in SUBSET Nat
  BY <1>1 DEF ReqRecord
<1>6. c.tried # {} /\ \A i \in c.tried : i <= c.rule
  BY <1>1 DEF Accounted
<1>7. Accounted(Resumed(c))
  <2>1. \A i \in c.tried : i < c.rule + 1
    BY <1>5, <1>6
  <2> QED
    BY <1>3, <1>6, <2>1 DEF Accounted
<1> QED
  BY <1>2, <1>4, <1>7 DEF RequestInv

LEMMA RecordLimitInv ==
  ASSUME IInv, NEW r \in Request, RecordLimit(r) PROVE IInv'
<1> DEFINE c == req[r]
<1>1. c \in ReqRecord /\ Placed(c) /\ c.pc = "record" /\ RequestInv(c)
  BY DEF RecordLimit, LimitAndResume, IInv, RequestInv
<1>2. KeyOf(c.rule) \in Key
  BY <1>1, RulesResolve DEF IInv, Placed
<1>3. PICK key \in Key : key = KeyOf(c.rule)
  BY <1>2
<1>4. PICK until \in Nat : until = c.until
  BY <1>1 DEF ReqRecord
<1>5. throttle \in [Key -> Nat] /\ observed \in [Key -> Nat] /\ clock \in Nat
  BY DEF IInv, TypeOK
<1>6. /\ throttle' = Record(throttle, key, until)
      /\ observed' = [observed EXCEPT ![key] = Latest({@, until})]
      /\ Moves(r, Resumed(c)) /\ UNCHANGED <<config, published, clock>>
  BY <1>3, <1>4 DEF RecordLimit, LimitAndResume, Moves, Resumed
<1>7. /\ throttle' \in [Key -> Nat]
      /\ \A k \in Key : throttle'[k] =
           IF k = key THEN Latest({throttle[key], until}) ELSE throttle[k]
  <2>1. /\ Record(throttle, key, until) \in [Key -> Nat]
        /\ \A k \in Key : Record(throttle, key, until)[k] =
             IF k = key THEN Latest({throttle[key], until}) ELSE throttle[k]
    <3> HIDE DEF c
    <3> QED
      BY <1>3, <1>4, <1>5, RecordKeepsLater
  <2> QED
    BY <1>6, <2>1
<1>8. /\ Latest({throttle[key], until})
           = IF throttle[key] > until THEN throttle[key] ELSE until
      /\ Latest({observed[key], until})
           = IF observed[key] > until THEN observed[key] ELSE until
  BY <1>3, <1>4, <1>5, LatestOfTwo
<1>9. /\ observed' \in [Key -> Nat]
      /\ \A k \in Key : observed'[k] =
           IF k = key THEN Latest({observed[key], until}) ELSE observed[k]
  BY <1>3, <1>4, <1>5, <1>6, <1>8
<1>10. ThrottleInv'
  <2> SUFFICES ASSUME NEW k \in Key
               PROVE  /\ throttle'[k] <= observed'[k]
                      /\ throttle'[k] = observed'[k] \/ observed'[k] <= clock'
    BY DEF ThrottleInv
  <2>1. throttle[k] <= observed[k]
        /\ (throttle[k] = observed[k] \/ observed[k] <= clock)
    BY DEF IInv, ThrottleInv
  <2>2. clock' = clock
    BY <1>6
  <2> QED
    BY <1>3, <1>4, <1>5, <1>7, <1>8, <1>9, <2>1, <2>2
<1>11. RequestInv(Resumed(c))
  BY <1>1, ResumedInv
<1> QED
  BY <1>6, <1>7, <1>9, <1>10, <1>11, RequestStep DEF config

(* An answer that is not a refusal ends a request whatever it has tried.   *)
LEMMA AnsweredInv ==
  ASSUME NEW c, RequestInv(c), NEW answer \in {"Failed", "Upstream"}
  PROVE  RequestInv(Answered(c, answer))
<1>1. c \in ReqRecord
  BY DEF RequestInv
<1>2. PICK d : d = Answered(c, answer)
  OBVIOUS
<1>3. d \in ReqRecord /\ d.pc = "done" /\ d.answer = answer
  BY <1>1, <1>2, AnsweredType DEF Answers
<1>4. Placed(d) /\ Accounted(d)
  BY <1>3 DEF Placed, Accounted, Refusals
<1> QED
  BY <1>2, <1>3, <1>4 DEF RequestInv

LEMMA ReadClockInv ==
  ASSUME IInv, NEW r \in Request, ReadClock(r) PROVE IInv'
<1>1. PICK c : c = req[r]
  OBVIOUS
<1>2. PICK d : d = [c EXCEPT !.pc = "select", !.at = clock]
  OBVIOUS
<1>3. c \in ReqRecord /\ Placed(c) /\ Accounted(c) /\ c.pc = "clock"
  BY <1>1 DEF ReadClock, IInv, RequestInv
<1>4. clock \in Nat
  BY DEF IInv, TypeOK
<1>5. /\ d \in ReqRecord /\ d.pc = "select" /\ d.at = clock /\ d.tried = c.tried
      /\ d.start = c.start /\ d.limited = c.limited /\ d.answer = c.answer
      /\ d.quotas = c.quotas
  BY <1>2, <1>3, <1>4 DEF ReqRecord, Pc
<1>6. Moves(r, d) /\ UNCHANGED <<config, published, clock, throttle, observed>>
  BY <1>1, <1>2 DEF ReadClock, Moves, IInv, TypeOK
<1>7. RequestInv(d)
  BY <1>3, <1>4, <1>5 DEF RequestInv, Placed, Accounted
<1> QED
  BY <1>6, <1>7, QuietStep

LEMMA SendInv ==
  ASSUME IInv, NEW r \in Request, Send(r) PROVE IInv'
<1>1. PICK c : c = req[r]
  OBVIOUS
<1>2. PICK d : d = [c EXCEPT !.pc = "sent", !.tried = @ \cup {c.rule}]
  OBVIOUS
<1>3. c \in ReqRecord /\ Placed(c) /\ Accounted(c) /\ c.pc = "send"
  BY <1>1 DEF Send, IInv, RequestInv
<1>4. c.rule \in Nat /\ c.tried \in SUBSET Nat
  BY <1>3 DEF ReqRecord
<1>5. /\ d \in ReqRecord /\ d.pc = "sent" /\ d.tried = c.tried \cup {c.rule}
      /\ d.rule = c.rule /\ d.answer = c.answer /\ d.quotas = c.quotas
  BY <1>2, <1>3, <1>4 DEF ReqRecord, Pc
<1>6. Moves(r, d) /\ UNCHANGED <<config, published, clock, throttle, observed>>
  BY <1>1, <1>2 DEF Send, Moves, IInv, TypeOK
<1>7. Placed(d)
  BY <1>3, <1>5 DEF Placed
<1>8. Accounted(d)
  <2>1. \A i \in d.tried : i <= d.rule
    BY <1>3, <1>4, <1>5 DEF Accounted
  <2> QED
    BY <1>5, <2>1 DEF Accounted
<1> QED
  BY <1>5, <1>6, <1>7, <1>8, QuietStep DEF RequestInv

LEMMA UpstreamInv ==
  ASSUME IInv, NEW r \in Request, Upstream(r) PROVE IInv'
<1>1. RequestInv(req[r])
  BY DEF IInv
<1>2. CASE Fails(r)
  <2>1. Moves(r, Answered(req[r], "Failed"))
        /\ UNCHANGED <<config, published, clock, throttle, observed>>
    BY <1>2 DEF Fails, Moves, IInv, TypeOK
  <2> QED
    BY <1>1, <2>1, AnsweredInv, QuietStep
<1>3. CASE UpstreamAnswers(r)
  <2>1. Moves(r, Answered(req[r], "Upstream"))
        /\ UNCHANGED <<config, published, clock, throttle, observed>>
    BY <1>3 DEF UpstreamAnswers, Moves, IInv, TypeOK
  <2> QED
    BY <1>1, <2>1, AnsweredInv, QuietStep
<1>4. ASSUME NEW retry \in RetryAfter, RateLimited(r, retry) PROVE IInv'
  <2>1. PICK c : c = req[r]
    OBVIOUS
  <2>2. c \in ReqRecord /\ Placed(c) /\ Accounted(c) /\ c.pc = "sent"
    BY <1>1, <1>4, <2>1 DEF RateLimited, RequestInv
  <2>3. c.reset \in Nat /\ clock \in Nat
    BY <2>2 DEF ReqRecord, IInv, TypeOK
  <2>4. PICK deadline \in Nat : deadline = Deadline(retry, c.reset, clock)
    BY <2>3, DeadlineIsTime
  <2>5. PICK d : d = [c EXCEPT !.pc = "record", !.reset = 0, !.until = deadline]
    OBVIOUS
  <2>6. /\ d \in ReqRecord /\ d.pc = "record" /\ d.tried = c.tried
        /\ d.rule = c.rule /\ d.answer = c.answer /\ d.quotas = c.quotas
    BY <2>2, <2>4, <2>5 DEF ReqRecord, Pc
  <2>7. Moves(r, d) /\ UNCHANGED <<config, published, clock, throttle, observed>>
    BY <1>4, <2>1, <2>4, <2>5 DEF RateLimited, Moves, IInv, TypeOK
  <2>8. RequestInv(d)
    BY <2>2, <2>6 DEF RequestInv, Placed, Accounted
  <2> QED
    BY <2>7, <2>8, QuietStep
<1> QED
  BY <1>2, <1>3, <1>4 DEF Upstream

(* The steps that belong to no request task.                               *)
LEMMA OutsideInv ==
  ASSUME IInv,
         \/ \E document \in Documents, catalog \in Catalogs :
              StartRouted(document, catalog)
         \/ \E r \in Request, model \in Model : Receive(r, model)
         \/ \E r \in Request : Leave(r)
         \/ Tick
         \/ \E listing \in Listings : Publish(listing)
  PROVE  IInv'
<1>1. ASSUME NEW document \in Documents, NEW catalog \in Catalogs,
             StartRouted(document, catalog)
      PROVE  IInv'
  <2>1. TypeOK'
    BY <1>1 DEF StartRouted, IInv, TypeOK
  <2>2. ConfigInv' /\ ThrottleInv'
    BY <1>1 DEF StartRouted, IInv, ConfigInv, ThrottleInv, Accepts
  <2>3. ASSUME NEW r \in Request PROVE RequestInv(req[r])'
    BY <1>1 DEF StartRouted, IInv, ConfigInv, RequestInv, Placed, Accounted
  <2> QED
    BY <2>1, <2>2, <2>3 DEF IInv
<1>2. ASSUME NEW r \in Request, NEW model \in Model, Receive(r, model)
      PROVE  IInv'
  <2>1. PICK d : d = [Idle EXCEPT !.pc = "clock", !.model = model, !.quotas = published]
    OBVIOUS
  <2>2. Idle \in ReqRecord /\ published \in Listings
    BY IdleInv DEF RequestInv, IInv, TypeOK
  <2>3. d \in ReqRecord
    BY <2>1, <2>2 DEF ReqRecord, Pc
  <2>4. /\ d.pc = "clock" /\ d.tried = {} /\ d.quotas = published
        /\ d.limited = FALSE /\ d.answer = "None"
    BY <2>1 DEF Idle
  <2>5. RequestInv(d)
    BY <2>2, <2>3, <2>4 DEF RequestInv, Placed, Accounted
  <2>6. Moves(r, d) /\ UNCHANGED <<config, published, clock, throttle, observed>>
    BY <1>2, <2>1 DEF Receive, Moves
  <2> QED
    BY <2>5, <2>6, QuietStep
<1>3. ASSUME NEW r \in Request, Leave(r) PROVE IInv'
  BY <1>3, IdleInv, QuietStep DEF Leave, Moves
<1>4. CASE Tick
  <2>1. clock \in Nat /\ clock' = clock + 1
        /\ UNCHANGED <<config, published, throttle, req, observed>>
    BY <1>4 DEF Tick, IInv, TypeOK
  <2>2. TypeOK' /\ ConfigInv'
    BY <2>1 DEF config, IInv, TypeOK, ConfigInv
  <2>3. ThrottleInv'
    BY <2>1 DEF IInv, TypeOK, ThrottleInv
  <2>4. ASSUME NEW r \in Request PROVE RequestInv(req[r])'
    <3>1. RequestInv(req[r]) /\ req'[r] = req[r] /\ rules' = rules
      BY <2>1 DEF config, IInv
    <3>2. req[r].at \in Nat
      BY <3>1 DEF RequestInv, ReqRecord
    <3>3. Placed(req[r])'
      BY <2>1, <3>1, <3>2 DEF RequestInv, Placed
    <3> QED
      BY <2>1, <3>1, <3>3 DEF RequestInv, Accounted
  <2> QED
    BY <2>2, <2>3, <2>4 DEF IInv
<1>5. ASSUME NEW listing \in Listings, Publish(listing) PROVE IInv'
  <2>1. published' = listing /\ UNCHANGED <<config, clock, throttle, req, observed>>
    BY <1>5 DEF Publish
  <2>2. TypeOK' /\ ConfigInv' /\ ThrottleInv'
    BY <2>1 DEF config, IInv, TypeOK, ConfigInv, ThrottleInv
  <2>3. ASSUME NEW r \in Request PROVE RequestInv(req[r])'
    BY <2>1 DEF config, IInv, RequestInv, Placed, Accounted
  <2> QED
    BY <2>2, <2>3 DEF IInv
<1> QED
  BY <1>1, <1>2, <1>3, <1>4, <1>5

LEMMA NextInv == IInv /\ [Next]_vars => IInv'
<1> SUFFICES ASSUME IInv, [Next]_vars PROVE IInv'
  OBVIOUS
<1>1. CASE UNCHANGED vars
  BY <1>1 DEF vars, IInv, TypeOK, ConfigInv, ThrottleInv, RequestInv, Placed, Accounted
<1>2. ASSUME NEW r \in Request, Step(r) PROVE IInv'
  BY <1>2, ReadClockInv, SelectInv, SendInv, RecordLimitInv DEF Step
<1>3. ASSUME NEW r \in Request, Upstream(r) PROVE IInv'
  BY <1>3, UpstreamInv
<1> QED
  BY <1>1, <1>2, <1>3, OutsideInv DEF Next

(* The invariant all the results below rest on.                            *)
THEOREM Invariant == Spec => []IInv
BY InitInv, NextInv, PTL DEF Spec

-----------------------------------------------------------------------------
(* Every variable keeps its type; among them, every deadline recorded is a *)
(* time, and every rule index names a rule or nothing.                     *)
THEOREM TypeCorrect == Spec => []TypeOK
<1>1. IInv => TypeOK
  BY DEF IInv
<1> QED
  BY <1>1, Invariant, PTL

(* No order of pruning and recording, by any number of requests, makes the *)
(* throttle table forget a deadline that is still ahead.                   *)
THEOREM ThrottleHeld == Spec => []ThrottleRemembers
<1>1. IInv => ThrottleRemembers
  BY DEF IInv, TypeOK, ThrottleInv, ThrottleRemembers
<1> QED
  BY <1>1, Invariant, PTL

(* What a client is told matches what was spent, and a relay that started  *)
(* never fails a request for its configuration.                            *)
THEOREM AnswersHeld == Spec => []AnswersAreTrue
<1>1. IInv => AnswersAreTrue
  BY DEF IInv, RequestInv, Placed, Accounted, AnswersAreTrue,
         RefusalMeansUntouched, NeverMisconfigured
<1> QED
  BY <1>1, Invariant, PTL

(* Only Select chooses an attempt, and it chooses a matching rule at or    *)
(* after the start whose account's throttle, pruned at the request's       *)
(* reading of the clock, has run out.                                      *)
LEMMA AttemptIsSelected ==
  ASSUME IInv, Next, NEW r \in Request,
         req[r].pc = "select", req'[r].pc = "send"
  PROVE  \E i \in DOMAIN rules :
           /\ req'[r].rule = i /\ i >= req[r].start
           /\ req[r].model \in rules[i].match
           /\ Prune(throttle, req[r].at)[KeyOf(i)] <= req[r].at
<1>1. req \in [Request -> ReqRecord]
  BY DEF IInv, TypeOK
<1>2. Select(r)
  <2>1. ASSUME NEW q \in Request, Step(q) \/ Upstream(q) \/ Leave(q), q # r
        PROVE  req'[r] = req[r]
    BY <1>1, <2>1 DEF Step, Upstream, Leave, ReadClock, Select, Send, RecordLimit,
         LimitAndResume, Fails, UpstreamAnswers, RateLimited
  <2>2. ~Leave(r)
    BY <1>1 DEF Leave, Idle
  <2>3. ~Upstream(r) /\ ~ReadClock(r) /\ ~Send(r) /\ ~RecordLimit(r)
    BY DEF Upstream, Fails, UpstreamAnswers, RateLimited, ReadClock, Send,
           RecordLimit, LimitAndResume
  <2>4. ASSUME NEW q \in Request, NEW model \in Model, Receive(q, model)
        PROVE  FALSE
    BY <1>1, <2>4 DEF Receive, Idle
  <2>5. Step(r)
    BY <2>1, <2>2, <2>3, <2>4 DEF Next, StartRouted, Tick, Publish
  <2> QED
    BY <2>3, <2>5 DEF Step
<1>3. /\ req[r] \in ReqRecord /\ req[r].at \in Nat
      /\ throttle \in [Key -> Nat]
  BY <1>1 DEF ReqRecord, IInv, TypeOK
<1>4. ASSUME NEW refusal \in {"Unmatched", "NoEligible"},
             Moves(r, Refused(req[r], refusal))
      PROVE  FALSE
  <2>1. PICK answer \in Answers : Refused(req[r], refusal) = Answered(req[r], answer)
    BY DEF Refused, Answers, Refusals
  <2> QED
    BY <1>3, <1>4, <2>1, AnsweredType, MovesOne DEF IInv
<1>5. PICK i \in DOMAIN rules :
        /\ Moves(r, Chosen(req[r], i))
        /\ i >= req[r].start /\ req[r].model \in rules[i].match
        /\ ~PassedOver(rules[i], targets, Prune(throttle, req[r].at),
                       req[r].quotas, req[r].at)
  BY <1>2, <1>4, SelectEither
<1>6. req'[r].rule = i
  BY <1>5, ChosenType, MovesOne DEF IInv
<1>7. KeyOf(i) \in Key /\ KeyOf(i) \in KeysOf(targets, rules[i].provider)
  BY RulesResolve DEF IInv
<1>8. ~Throttled(Prune(throttle, req[r].at), KeyOf(i), req[r].at)
  BY <1>5, <1>7 DEF PassedOver
<1>9. Prune(throttle, req[r].at)[KeyOf(i)] <= req[r].at
  BY <1>3, <1>7, <1>8, PruneKeepsAhead DEF Throttled
<1> QED
  BY <1>5, <1>6, <1>9

(* However many requests race, none is sent to an account before the       *)
(* latest deadline any of them has recorded for it; and each goes down the *)
(* rules that match its model, never back to one it has tried.             *)
THEOREM AttemptsHeld == Spec => NoAttemptInsideDeadline /\ AttemptsDescend
<1>1. IInv /\ [Next]_vars =>
        [\A r \in Request :
           req[r].pc = "select" /\ req'[r].pc = "send"
             => observed[KeyOf(req'[r].rule)] <= clock]_vars
  <2> SUFFICES ASSUME IInv, Next, NEW r \in Request,
                      req[r].pc = "select", req'[r].pc = "send"
               PROVE  observed[KeyOf(req'[r].rule)] <= clock
    OBVIOUS
  <2>1. PICK i \in DOMAIN rules :
          req'[r].rule = i /\ Prune(throttle, req[r].at)[KeyOf(i)] <= req[r].at
    BY AttemptIsSelected
  <2>2. PICK key \in Key : key = KeyOf(i)
    BY <2>1, RulesResolve DEF IInv
  <2>3. /\ throttle \in [Key -> Nat] /\ observed \in [Key -> Nat] /\ clock \in Nat
        /\ req[r] \in ReqRecord /\ Placed(req[r])
    BY DEF IInv, TypeOK, RequestInv
  <2>4. PICK at \in Nat : at = req[r].at /\ at <= clock
    BY <2>3 DEF ReqRecord, Placed
  <2>5. throttle[key] <= at
    <3>1. Prune(throttle, at)[key] = IF throttle[key] > at THEN throttle[key] ELSE 0
      BY <2>2, <2>3, <2>4, PruneKeepsAhead
    <3>2. Prune(throttle, at)[key] <= at
      BY <2>1, <2>2, <2>4
    <3> QED
      BY <2>2, <2>3, <2>4, <3>1, <3>2
  <2>6. throttle[key] = observed[key] \/ observed[key] <= clock
    BY <2>2 DEF IInv, ThrottleInv
  <2> QED
    BY <2>1, <2>2, <2>3, <2>4, <2>5, <2>6
<1>2. IInv /\ [Next]_vars =>
        [\A r \in Request :
           req[r].pc = "select" /\ req'[r].pc = "send"
             => /\ req[r].model \in rules[req'[r].rule].match
                /\ \A i \in req[r].tried : i < req'[r].rule]_vars
  <2> SUFFICES ASSUME IInv, Next, NEW r \in Request,
                      req[r].pc = "select", req'[r].pc = "send"
               PROVE  /\ req[r].model \in rules[req'[r].rule].match
                      /\ \A i \in req[r].tried : i < req'[r].rule
    OBVIOUS
  <2>1. PICK i \in DOMAIN rules :
          req'[r].rule = i /\ i >= req[r].start /\ req[r].model \in rules[i].match
    BY AttemptIsSelected
  <2>2. i \in Nat /\ req[r].start \in Nat /\ req[r].tried \in SUBSET Nat
    BY DocumentAssumption DEF IInv, ConfigInv, RequestInv, ReqRecord
  <2>3. \A j \in req[r].tried : j < req[r].start
    BY DEF IInv, RequestInv, Accounted
  <2> QED
    BY <2>1, <2>2, <2>3
<1> QED
  BY <1>1, <1>2, Invariant, PTL DEF Spec, NoAttemptInsideDeadline, AttemptsDescend
=============================================================================
