# Verification of Coding-Agent-Manager

The Coding-Agent-Manager keeps several accounts of coding tools (Claude Code,
Codex, Gemini, Grok, Cursor) on one desktop, switches between them, and relays
model requests to whichever account has quota left. This directory holds TLA+
models of the parts of it where order, failure and concurrency decide whether
it is right, TLC configurations that check them on small instances, and proofs
checked by TLAPS for every value of the constants.

All source paths are relative to the repository; `core/` abbreviates
`src-tauri/src/`.

## The system

| Component | State | Operations | Talks to |
|---|---|---|---|
| Stored-account registry, `core/providers/mod.rs` | `stored-accounts.json`: rows Pending, Complete, Deleting; the selected row of each provider | add, select, delete, launch transactions; `recover` | adapters, credential store; every call under one process-wide lock |
| Mutation gate, `src/lib/accountMutation.tsx` | which mutation the interface waits for | run a mutation, release | commands over IPC; lost by a reload of the webview |
| Grok adapter, `core/providers/grok_cli.rs` | vendor homes, the set of homes in use | provision (login child), validate launch and deletion, gate a home | registry transactions, vendor processes |
| Gemini adapter, `core/providers/gemini_cli.rs`, `gemini_oauth.rs` | API keys, OAuth homes, settings overlay | import, provision, launch | credential store, a loopback OAuth listener |
| Claude Code adapter, `core/providers/claude_code.rs`, `claude_switch.rs` | the two live files, the switch journal, managed slots | list, switch, recover, add, delete | backup store, the running tool |
| Codex adapter, `core/providers/codex_cli.rs` | one live file, managed slots | list, switch, add, delete | backup store, the vendor's sign-in child, the running tool |
| Cursor adapter, `core/providers/cursor.rs` | none (reads) | list | |
| Backup store, `core/backup/mod.rs` | immutable backups, a manifest each | snapshot, restore, list, prune | atomic file replacement, `core/fsx.rs` |
| Credential stores, `core/storage/` | secrets in the keychain or in one encrypted file | put, get, delete | |
| Route selection, `core/router/mod.rs` | throttle deadline of each account | select, record a 429 | |
| Relay server, `core/relay/server.rs` | listener, rules, targets, the router behind a mutex | start, stop, status; handle a request | upstreams, quota listings |
| Relay streaming, `core/relay/stream.rs`, `translate_sse` in `server.rs` | buffer, pending frames and flags of one streamed response | poll: cut, decode, encode, send | upstream body, client |
| Relay translation, `core/relay/mod.rs`, `translate.rs` | none (pure) | translate a request or a whole response | |
| Desktop commands, `core/commands.rs` | route-rules document | one command per user action | all of the above |
| User interface pages, `src/pages`, `src/components` | what is displayed; the Relay page's command under way | query, start, stop, save rules | commands |

An add is an async command on a blocking worker thread; select, delete, launch,
list and the switch are synchronous commands, of which the main thread runs one
at a time; the relay's commands and requests are async tasks. One instance of
the application is assumed everywhere: nothing in the code prevents a second
one, and its locks do not reach across processes.

### What is hard, and what makes each part right

* **Registry.** External material (a secret, a vendor home) and its row change
  in separate steps, each of which may fail, be the last one before a crash, or
  have happened although it reported an error. Right means: a Complete row has
  its material; no secret is left without a row that names it; a launch uses
  the row that is selected; one add at a time is in a guarded home; a deletion
  that was begun can be finished.
* **Relay.** Concurrent requests choose accounts from a router they share, at
  times read before its lock is taken, from a quota listing of their own. Right
  means: a recorded throttle is never lost or ignored; a request goes down its
  rules and ends; its answer says what was spent; what passed the start-up
  validation resolves.
* **Streaming.** An answer passes event by event from one of four wire formats
  into another, with nothing kept but flags, while the upstream may close or
  break at any byte. Right means: every frame fits what the client has been
  sent before, the fragments arrive in order at the call they belong to, and an
  end is reported when there was one.
* **Whole bodies.** A request and its answer cross between dialects that
  differ in what a turn is, where the system prompt stands, what a limit counts
  and what a token count includes; the client then sends back, as history, what
  the relay made of the answer. Right means: what is sent is accepted by the
  vendor and means what the client said; the reply means what the vendor said
  and costs what it cost; the conversation can go on.
* **Relay lifecycle.** A start and a stop run as async tasks over one mutex that
  a stop gives back before it has finished; pages are left with a command under
  way. Right means: no listener is lost; the page tells the truth; the relay
  runs the rules that were saved; a stop frees the port and is answered.
* **Managed slots.** A vendor program writes the credentials, in its own order
  and time, into a directory another thread may remove; its exit status says
  nothing of what it wrote. Right means: an account that was added stays; a pair
  is of one sign-in; what reaches the vendor's home is whole and of one account;
  a switch that was answered stays, and a refused one changes nothing.
* **Claude switch.** The identity is split over two files of another program
  and cannot be replaced in one step. Right means: nothing ever leaves a
  half-applied pair that no journal accounts for; what is replaced is in a
  backup; the switch is atomic for whoever asked; an interruption is repaired.

`PROJECT.json` lists the hazards at the lines where they bite, and which
property covers each.

## The modules

| Module | What it is |
|---|---|
| `StoredAccounts` | registry, credential store, vendor homes, home guard, mutation gate; add, select, delete, launch, recovery |
| `AccountPromise` | what the registry promises a launch: entrusted material, published only while backed |
| `MCStoredAccounts`, `StoredAccountsProofs` | TLC instances; proofs |
| `RouteSelection` | pure: rules, matching, account resolution, ceilings, throttles, recording |
| `RoutedRelay` | requests and the clock over `RouteSelection` |
| `MCRoutedRelay`, `RoutedRelayProofs` | TLC instances; proofs |
| `StreamTranslation` | one streamed answer: upstream, the polled loop, the translator, the client's parser |
| `MCStreamTranslation`, `StreamTranslationProofs` | TLC instance; proofs |
| `TokenUsage` | pure: reading and writing the token counts of an answer |
| `DialectContent` | pure: messages, parts, calls and results of the four dialects |
| `RequestTranslation`, `ResponseTranslation`, `ImageTranslation` | pure: whole requests, whole answers, image generation |
| `DialectMeaning` | what a document says to a reader of its dialect: who said what, which calls and results, which end, which cost |
| `DialectForms` | the forms of what clients write and vendors answer, as far as the translation leans on them |
| `RelayedTurns` | a conversation through the relay over all of these: client, relay, vendor |
| `MCRelayedTurns` | TLC instance |
| `DialectProofs`, `RelayedTurnsProofs` | proofs: of the translating operators; of the conversation |
| `ManagedSlots` | account directories of Codex and Claude Code, sign-in children, the switches of both, listings |
| `MCManagedSlots`, `ManagedSlotsProofs` | TLC instance; proofs |
| `RelayLifecycle` | the route-rules document, the relay instance and its mutex, listeners, the Relay page |
| `RelaySwitch` | the relay as a user sees it: off, or on with the rules it was started with |
| `MCRelayLifecycle`, `RelayLifecycleProofs` | TLC instance; proofs |
| `ClaudeSwitch` | live files, journal, backups, the switching and the recovering command, the vendor tool, crash and power loss |
| `PairPromise` | an atomic switch of the pair: the pair in force, what a power loss may bring back, the question and its answer |
| `MCClaudeSwitch`, `ClaudeSwitchProofs` | TLC instances; proofs |

### StoredAccounts

A row is `lifecycle`, `material` and membership in `selected`, keyed by
identity, as `update_account` finds rows. Each registry call is one action: it
reads, changes, validates and renames the document under
`STORED_ACCOUNTS_LOCK`. The steps between two calls are actions of their own,
and the program counters in `add` (one per worker) and `main` say where the
transaction stands: `BeginAdd`, `PutSecret` or the vendor-home steps
(`OpenHome`, `StartLogin`, `LoginSucceeds`, `VerifyHome`), `CompleteAdd`;
for a deletion validate, mark, erase, finish; for a launch validate the current
account and the target, prepare, spawn. A failing registry write comes in two
kinds, before and after the rename. `Crash` ends the processes and keeps the
disk, the credential store and the vendor's processes; a login child that
survived is in `orphans`. The set of homes in use is the application's memory,
so `HomeGuardExact` is about the adds of one run of it: an orphan's row may be
deleted and added again, and the new login starts beside the old one. `Reload`
forgets the mutation gate only.

### RouteSelection and RoutedRelay

`RouteSelection` translates `select_next` as operators: the first rule from
`start_index` whose pattern matches, whose account resolves, that is not
throttled and not over its ceiling; `Prune` and `Record` are what it and
`record_rate_limit` do to the throttle map. In `RoutedRelay` a request is a
record with a program counter; the steps are the ones between which another
request may run: reading the clock, the critical section that selects, sending,
the answer, the 429's deadline, the critical section that records and the loop.
The clock moves on its own and never backwards. Variables that remember what was
recorded and what was spent are read by properties only.

### StreamTranslation

`events` is what the upstream has sent and `said` the pieces of the answer in
it: numbered fragments of text, calls, arguments of a call, the finish. The
actions are the branches of the loop in `translate_sse`, in its order: pending
frames (`Deliver`), an event in the buffer (`TakeEvent`), the end
(`EndOfStream`), the next chunk (`ReadChunk`, `ReadFails`, `ReadEnds`). The
canonical events one source event decodes to are encoded one by one (`Encode`)
and sent only when all are, as `queue_translated_events` does. `client` is what
a client of the target format knows of the stream, and `heard` what it made of
it; both are external, from the vendors' documented formats. Bytes, comments that
are passed through, token usage and the refusals of single fields are left out;
a `foreign` event stands for every one the decoder refuses.

### ClaudeSwitch

`disk` is the live files and the journal; `survivors` is every state of it a
power loss could leave: a synced replacement makes the new state the only one,
a removal or a failed sync adds one. A document is its owner and the vendor
write that made it. The command's program counter follows `activate_account`
line by line: recover, check the tool, load, snapshot, journal, credentials,
identity, verify, commit; an error goes to the restore as `fail` does. A
restore puts files back one by one in the order `BackupStore::restore` uses
(existing files in path order, then removals) and may fail at each. A listing
is the same command without a target. The vendor tool starts between commands,
also beside a journal, reads a document and writes it back later, or ends.
`beside` remembers that it has run beside a journal, `strays` what it wrote
there: a recovery does not ask for it, and replaces what it wrote.

### TokenUsage, DialectContent, the translations and RelayedTurns

Each translating function of `relay/mod.rs` and `translate.rs` is an operator of
the same name over records and sequences: a text is a sequence of named pieces,
an image a form and a reference, the arguments of a call one of a few JSON
shapes, a setting a field of a function. What a function refuses leaves the mark
`Bad`, which has the whole body refused. `RelayedTurns` sends a request
(`Ask`), has the vendor answer (`Respond`), translates the answer (`Return`) and
lets the client keep it in its own dialect and go on (`Continue`), for any of
four dialects or the image endpoints on either side. `DialectMeaning` says what
a vendor or a client takes a document for, from their documented formats; it is
what "means the same" is measured by, and shares no operator with the
translation but the readers of token counts and of finish reasons.
`DialectForms` says what a document of each dialect is like: its parts are a
sequence, a content is a string, a list of parts, null or absent, calls are made by
the assistant, an answer does not hold the results of its own calls. The
translation reads past what these forms exclude (it never looks at the calls of
a user's message, say), so `Init`, `Write` and `Respond` are guarded by them;
what the client keeps of a reply (`Continue`) is not, and is proved to have them.

### ManagedSlots

A directory holds the vendor's one or two files, each missing, damaged, or a
credential. An add prepares the directory, starts a sign-in child, waits, looks
at what it left, and answers or cleans up. The child writes its files in any
order, whole or torn, and ends with any status; a crash of the application
leaves any of the children running. A removal may stop half-way.

The switches of both adapters are step by step, one program counter for both
(`main`): the look at the process table, the reads of the slot and of the live
files, the snapshot, the journal (Claude Code only), each replacement (which may
report an error after the fact), the verification, the removal of the journal.
An error goes to the restore, which may fail at each file; a crash may come
between any two steps; what a journal names is put back by the next command
(`StartRecovery` to `Restored`), which a switch begins with too: it goes on as
`StartSwitch`. `ClaudeSwitch` asks the same two-file switch about power loss,
about backups chosen among several and about a tool that writes back what it
read earlier; here what is asked is what the switch makes of slots that adds,
sign-ins and removals are changing. `load_stored_pair` reads two files in one
step. A listing is a set of operators over the state.

`promised`, `shared`, `beside`, `stored` and `raced` are history. `shared` names
the directories the code has let two users into (see below): `KeepsStored` and
`PairOfOneSignIn` do not speak of these, and `LiveIsWhole` has its half about
one account only while there is none and Claude Code was not started beside a
switch or a journal.

### RelayLifecycle and RelaySwitch

A page's command is a program counter: a start reads the rules, waits for the
mutex, binds under it; a stop takes the instance out under it, releases it, and
waits for the listening task or the end of the grace period. A server serves, is
signalled, drains, and has ended or failed; one request stands for all that keep
a drain waiting. The page shows what it was last told; a page that is left
forgets its command, which goes on. Rules are saved in one step, by the router
page or by another program. `RelaySwitch` is the abstract specification; the
refinement maps its one variable to the rules of the instance's running server.

## Runs

| Run | Instance and bound | Question |
|---|---|---|
| `accounts_gated` | two Gemini identities, one worker, two crashes, recovery at start | Are rows, material and selection consistent, and is `AccountPromise` implemented, while the gate works? |
| `accounts_reload` | one Gemini identity and one guarded Grok home, two workers, reloads, one crash | Is what a launch and a deletion have read still true when they act; does the home guard admit one add of the running application and never leak? |
| `accounts_liveness` | an identity with an API key and a guarded Grok home, one worker, reloads, one crash, a user who asks again | Is the gate released, also when a home is in use, a row has gone or a forgotten command still runs; is a deletion finished? |
| `accounts_readd_race` | violation | A reload lets an old add complete a new row. |
| `relay_failover` | two requests, three rules over two accounts, documents, catalogs and listings that are sound, malformed, ambiguous or partial, Retry-After 0 or none, three clock readings, fair | Are throttles remembered and obeyed, answers true, does start-up validation suffice, and does every request end? |
| `stream_translation` | all pairs of formats, five events, four pieces, a buffer of two events, every kind of close | Does a client follow and understand every stream but the five `Untranslatable` kinds, does an end mean that all arrived, and does the body end? |
| `relayed_turns` | all pairs of dialects and the image endpoints, conversations of three turns, two texts, two calls, every setting, token counts up to 2 | Is what is sent accepted and does it mean the same; does the reply say and cost the same; can the conversation go on? |
| `relayed_omitted` | violation | A Gemini answer of a picture, or of several texts, reaches an Anthropic or Responses client as an empty reply. |
| `switch_journal` | two accounts, of which one is signed in, two backups, two vendor writes at any time, one crash or power loss, a user who goes on listing | Is everything replaced backed up but what the tool wrote over a journal; until the tool is started beside one, is a half-applied pair always journaled and `PairPromise` implemented; is an interruption repaired? |
| `switch_half_applied` | violation | Recovery under a running tool leaves a pair of two accounts and no journal. |
| `managed_slots` | each adapter, two accounts, one worker, one sign-in child that may be an orphan, two credentials, one crash | Does an added account stay, is a pair of one sign-in, are the live files whole, of one account and backed up, does an answered switch stay and a refused one change nothing? |
| `relay_lifecycle` | two pages, two servers, three rule documents of which one has no target, fair | Is no listener lost, does the page tell the truth, are the saved rules in force, is the port freed, is every command answered, and is `RelaySwitch` implemented? |

A finished stream and a client that says no more stop, so `stream_translation`,
`relayed_turns` and `relayed_omitted` do not check for deadlock; every other
passing run does. Each property is broken by a plausible change of the code:
`PROJECT.json` pairs it with a mutant, a definition beside the one it replaces.

**Why the bounds are enough.** Two identities let one be selected while
another changes, and registry rules relate at most two rows. Two workers are
what it takes for an add to meet a later add. Rules one and three share an
account, so a request meets an account it has already been refused by; a third
account would only lengthen the list. The clock reaches past every deadline a
429 can set at its first reading. Two backups let a recovery choose the wrong
one; a vendor write before and one after an interruption are what a restore can
lose. Which of two accounts is signed in at first makes no difference, so the
run names one, and it starts either in a home that Claude Code has written both
files of or in one that holds neither: a start with one file only is left to the
theorems, which hold for it. An account with a key and one with a guarded home
are what a user interface can wait for: a store, a home in use, a registered
tool. Four pieces are a call, a second call, arguments that return to the first
and the finish; five events add one that marks a start or an end. Two crashes
allow a crash during the repair of a crash. Three turns are a question, an
answer with calls, and their results beside another question: every rule about
neighbouring turns is met; counts up to 2 let a cached count differ from its
input and a sum pass the largest. One add or the
orphan of an earlier one is the party that works in a directory while another
account is switched to; two accounts, which may hold the same key, are those
that meet in the live files; two adds at once are left to the theorems. Two pages are one that is
mounted and one that was left; two servers are one that serves and one that
drains. The theorems below do not have these bounds.

**Fairness.** Workers, the main thread and the relay's tasks are weakly fair:
the runtime schedules them, and the server polls a response's body. A page's
command on the relay is strongly fair: the mutex it waits for is handed over
first come, first served, so nobody is passed over for ever; the timer of a
stop's grace period fires. No request has to end for that. Users are not fair,
except where the property says that one keeps asking: a deletion is finished by
asking again, an interrupted switch by listing again. Errors are never fair, and
where a property needs that one does not recur for ever at the same step, strong
fairness of that step says so (a deletion's erase, a restore's files). Upstreams
answer in `RequestsEnd` only: the HTTP client has no timeout, so the code alone
does not end a request whose upstream is silent. Crashes are bounded.

## What is proved

The proofs hold for any finite or infinite set of accounts, any number of
workers, requests, rules, backups and crashes. TLC has checked each inductive
invariant on the runs' instances first.

* **StoredAccountsProofs.** `TypeCorrect`, and `RowsHeld` and `GuardHeld` with
  no assumption on the schedule: what a process remembers of a row or a home is
  in the invariant, together with who else may change it. `GatedHeld`,
  `WithdrawHeld` and `PromiseKept` need that no reload loses the gate; their
  invariant adds that at most one transaction is open and says, for each of its
  steps, what the secret store holds beside the row. That assumption is what
  `accounts_readd_race` shows to be necessary.
* **RoutedRelayProofs.** `TypeCorrect`; `ThrottleHeld`: pruning at a time that
  has come and recording by maximum never lose a deadline that is ahead;
  `AttemptsHeld`: the time a request reads is at most the clock's when it
  selects, so an account chosen then is past every recorded deadline, and the
  loop index grows; `AnswersHeld`: a request that still has no 429 in hand has
  asked nobody. The selection operators are used through lemmas about what they
  return.
* **ClaudeSwitchProofs.** Nothing is assumed of when the vendor tool runs.
  `BackedUpHeld` and `NoWriteHeld` hold whatever it does: what is replaced
  unsaved is at most what it wrote over a journal, and the only command that
  replaces a file of a running tool is a recovery. `JournalHeld` and `AtomicHeld`
  hold until it is started beside a journal; `switch_half_applied` shows what
  may happen then. The properties alone are not inductive: a
  restore of a whole backup over any half of a switch is safe because every
  document on disk is the backup's, the manager's own, a stray, or missing, and
  that is the invariant (`Sound`), asked of every state a power loss could leave.
  `Phase` says at which step the journal is written and what the files hold
  then; `ToolQuiet` when the tool may run and what it may have read.
  `AtomicHeld` maps the commit to the removal of the journal. That removal is
  not synced, so a power loss may bring the journal back and the next recovery
  undo the switch; `PairPromise` allows this for the last answered switch only,
  and the proof rests on the part of `Phase` that says every earlier state is
  gone once the second file is synced.
* **ManagedSlotsProofs.** For any number of accounts, workers, children and
  credentials, `TypeCorrect` and all six properties of the run. The half of the
  invariant about directories says of every one that is not `shared` who is in
  it: at most one add or one child of an add that is
  gone (`OneUser`), that an add which answered ok has nobody left in it
  (`Settled`), and that whatever is in it was written by its one user
  (`Written`). `Waiting` is the type's relational half: a worker waits for a
  child exactly while that child is registered with it. The half about the
  vendor's home says what the switch has read, saved and replaced at each of its
  steps (`LiveAt`, `StoredAt`), that a journal names the backup of the switch it
  belongs to (`JournalAt`), and that what is live, or what a journal would put
  back, is of one account (`Paired`). `SwitchedStaysHeld` needs both halves: the
  slot that was read is a stored account's, so nobody else changes it before the
  answer.
* **RelayLifecycleProofs.** For any number of pages, servers and documents.
  `CanBeStopped` is inductive only together with `Untouched`: no stop waits for
  the instance, and the instance was never signalled. `TruthHeld` needs `Told`:
  an answer on its way to a page is true until the page is overtaken.
  `SwitchHeld` is the refinement: a bind turns the abstract switch on, the
  taking of a serving instance or the death of its task turns it off, and every
  other step stutters, which needs `Locked`: nothing is replaced under the mutex.
* **RelayedTurnsProofs.** For conversations of any length and answers and
  settings of any size. `CostHeld` and `StreamCostHeld` are the arithmetic under
  `CostKept`, for every largest count: a usage that one dialect's reader accepts
  passes the hub's own checks, is written in every other dialect without going
  below zero or above the largest count, and costs the same. A count that was not
  sent is zero, which `Counted` says of every answer. `CostKeptHeld` carries this
  to every reply, images included; its invariant says of each stage which
  translator the reply came from. `SettingsKeptHeld` and `SettingsAcceptedHeld`:
  settings are put together of pieces that hold fields of their own
  (`FieldOfPiece`), so what a field of the whole is, is what its one piece says;
  each dialect's settings then ask at the hub for what they asked for
  (`AnthropicAtTheHub` and its siblings), each target's ask for what the hub's
  do (`ToAnthropic` and its siblings), and reasoning and streaming, which go
  around the hub, are put back as they were taken out (`ReasonRead`,
  `ReasonWritten`). The invariant (`SettingsInvariant`) is that what was sent is
  such a translation of the document as it stands, whose turns may grow but
  whose settings keep their form.
* **DialectProofs** and the second half of **RelayedTurnsProofs.** For documents,
  answers and conversations of any length and every pair of dialects:
  `TargetAcceptsHeld`, that a vendor accepts what it is sent; `SpeechKeptHeld`,
  that it is told what the client said; `AnswerKeptHeld`, that the reply says and
  ends what the vendor answered. Every translation goes from the client's dialect
  through Chat, the hub, to the target's, and so does the argument. The lemmas of
  `DialectProofs` say of each operator, for one message and then for a list of
  them, that it gives a message of the target's form which says what the first
  one said (`Said`, the sequence of statements with their speakers); the step from
  one message to many is an induction along `Folded`, which adds the items one by
  one, and along `Concat`. Where the code merges neighbours (the calls of
  Responses, the parts of Anthropic) what is carried along is what the messages
  made so far say together (`Tells`); where it sorts the parts of a message
  (results, then prose, then calls) the order is kept exactly if the document is
  not one `Reorders` names, and prose and traffic are kept anyway (`Unshuffled`,
  `DealtKind`). The invariant (`WordsInvariant`) has four parts: the document as it
  stands has the forms of its dialect, though the relay's own replies were
  appended to it; what was sent says the same as the document; the answer has
  the forms of an answer; the reply has those of a reply and says the answer. The
  first needs the last, which is why none is inductive alone.
  `ConversationGoesOnHeld` is the one that says a translation is *not* refused: an
  upstream that answered is sent its own answer and the results of its calls
  again. The settings are those of a request that was translated, so only the new
  turns can be refused (`TranslatedAgain`). Whether a target takes a document is
  said message by message at the hub (`Takes`, `Suits`), so a document that was
  taken and grows by turns that are welcome is taken (`HubGrows`), also where the
  code merges neighbours. The turns that are added are welcome: a reply holds
  only parts that its target can be sent back (`RepliedPlainly`), and a result
  suits every target, or Gemini if it names the function (`ResultsWelcome`). A
  Gemini that is not told the function of a result has calls among what the
  document says (`DealIsHeard`), which is the exception the property names. The
  invariant is `GoingOn`: the request that is being answered was taken, a
  refused one was not, and the document that ends with an answer can go on.
* **StreamTranslationProofs.** For streams of any length in chunks of any size:
  `TypeCorrect`; `NothingIsLeft`, that a body which ends without an error has
  read, taken and sent everything; and `EndHeld`, that no client is told of an
  end the upstream did not have. The invariant follows an end through the three
  places where it may be on its way (`OnItsWay`), and rests on what a decoded
  event and an encoded frame may contain (`DecodeType`, `FramesType`).
  `FollowsHeld`, `UnderstoodHeld` and `EndMeansHeld`, for the same streams: the
  translator keeps flags where a reader of the stream would keep its history, so
  none of the three is inductive. The invariant (`CInv`) gives back the history:
  what every vendor's stream is like (`Grammar`, `Vendor`), where in what was said
  each event begins, and in which state the client will be after each frame that
  is still on its way; it says that the translator's flags agree with the last of
  these states, and that frames taken together with what was heard are what was
  said (`Understands`).

The type invariants of the first five of these modules and two action
properties, `NoWriteUnderTool` of `ClaudeSwitch` and `AttemptsDescend` of
`RoutedRelay`, are proved for every instance and not asked of a run again.
`AnswersAreTrue`, `ReadRowStands`, `TargetAccepts` and `CostKept` are
conjunctions of named parts, each proved.

Model-checked only: liveness (`InterfaceIsReleased`, `DeletionFinishes`,
`RequestsEnd`, `InterruptedIsRecovered`, `StreamEnds`, `CommandEnds`), which
needs fairness and `ENABLED`, out of the provers' reach. Every invariant of a
passing run is proved.

## Assumptions about the environment

* One instance of the application; a monotone system clock.
* A rename is atomic; a removal becomes durable at the next directory sync or
  not at all, and the file system keeps the order of such changes (one ordered
  journal). Without that order a power loss could bring back the journal of an
  earlier switch after a later write.
* In `ClaudeSwitch`, Claude Code does not start between the process check and
  the end of a switch. The documentation accepts this race; `ManagedSlots` has it
  and its properties name it (`raced`, `beside`). That it reads both files of a login
  between two of its own writes (its two-step login) is not modelled.
* A crash loses memory only. The keychain's operations are atomic.

## Where code and documentation disagree

1. `complete_add` completes whatever Pending row the identity has now
   (`accounts_readd_race`).
2. Recovery does not ask whether Claude Code runs, though a switch must refuse
   then; the half-applied pair it can leave has no journal
   (`switch_half_applied`).
3. A Gemini answer of several text parts, or with a picture, becomes a message whose content is an array; the writers of Anthropic and of Responses
   replies look for a string and drop it. The client gets an empty reply that
   ended normally (`relayed_omitted`).

Also seen while modelling, and no run of this project:

*Accounts.* A row that is Deleting and has no home is refused by every deletion
(`grok_cli.rs:1244`), though incomplete rows "may be forgotten" (`model.rs:87`).
`StoredAccountRegistry::recover` has no caller outside the tests, so
`NoOrphanSecret` across crashes, checked with recovery at start-up, is not what
the shipped application does. The selected account must pass its own launch
validation before another can be selected (`providers/mod.rs:359`): one broken
account blocks switching away from it.

*Switches and slots.* A recovery of the Claude pair replaces what the tool wrote
after the interruption without a backup (`claude_switch.rs:365`, against
`docs/SPEC.md:99-100`), which `ReplacedIsBackedUp` exempts (`strays`), and a switch does not save the outgoing account's
refreshed token to its slot (`claude_code.rs:807`). A Codex sign-in that dies
while it writes `auth.json` leaves a damaged document: a new add refuses the
directory and the listing passes over it, so the id is stuck, though
`incomplete_account` says that a directory with "no usable `auth.json`" is
"Listed so it can be deleted". A directory without the vendor's files is taken
for an abandoned add (`codex_cli.rs:593`) also while another add, or the
surviving child of one, is working in it; that is the exception `shared` in the
properties, so no property is about what becomes of such a directory. The login
child of a Grok add that a crash ended is not among the homes in use either
(`grok_cli.rs:785`). Nothing calls `BackupStore::prune`; it would remove a backup that a
journal names (`backup/mod.rs:303`).

*Relay lifecycle.* Saved rules are announced to "apply when the relay next
starts" (`src/pages/RouterRules.tsx:123`); a start in progress has read the
older ones (`commands.rs:532`), which is the exception in `RulesInForce`. A page
that was opened while an earlier page's command was under way may show what is
no longer so when that command takes hold, until it asks again
(`src/pages/Relay.tsx:41`), which is the exception `overtaken` in
`PageTellsTruth`. While
a stop drains, the status says stopped and a start may fail because the port is
taken. Requests of an aborted listener go on after the stop was answered, each
connection having a task of its own.

*Bodies.* The prompt for a picture loses its speaker, and a file of a Gemini
answer its type on the way to a Chat client. For a Chat client, the array content of a tool result and a user's
`name` are lost on the way to Responses and Gemini, and `parallel_tool_calls` on
the way to Responses; a Gemini client's `fileData.mimeType` is lost. A Gemini
answer that makes calls says STOP, and the reply says that the turn ended, not
that it waits for results. A truncated Responses message (status
"incomplete"), an empty assistant turn and `"usage": null` are refused when a
client sends them back, though the relay itself wrote the first two. A Chat
message with `"content": null` and no calls, which the other writers refuse, is
left out for Responses. A stream with tools is accepted for a Gemini client and breaks at the first call. The
cached and reasoning counts of Chat and Responses streams are dropped.

*Streams*, the five kinds `Untranslatable` names:

* For an Anthropic client, text after a call is put into the call's block.
* For an Anthropic client, arguments of an earlier call go to the open block.
* All calls of a Gemini candidate reach a Chat client under one index.
* A Gemini stream that is cut ends as if it were whole; an Anthropic client
  gets `message_stop` with a block open.
* The text of an Anthropic block or a Responses item that is not the first goes
  to a choice of a Chat client, or a candidate of a Gemini client, that it did
  not ask for and that gets no finish: text after a tool call, and all text of an
  answer that begins with a reasoning item (`core/relay/stream.rs:686`).

The Responses decoder refuses `response.in_progress` and
`response.function_call_arguments.done`, so a stream that has one fails. A tool
call for a Gemini client is refused with the words "before emitting output"
(`core/relay/stream.rs:438`), although text before it has been sent.
`take_sse_event` looks for a CRLF boundary in the whole buffer before it looks
for an LF boundary, so two events whose line ends differ are taken as one.

## Not modelled

* Field names, JSON types and wording of single fields in the translation (pure,
  and pinned by golden files); the bytes of event boundaries and of headers.
* Quota parsing and billing of the adapters (pure), display, the Cursor adapter
  (it writes nothing), error wording, paths.
* The encrypted credential file: `put` and `delete` rewrite it whole without a
  lock (`storage/encrypted_file.rs:187`), but the application never unlocks it.
  Cryptography is out of TLC's reach.
* Gemini's settings overlay and its loopback OAuth listener with its timeout.
* Directories, modes, listing and pruning of the backup store, and temporary
  files of the atomic replacement.
* The relay's development entry point with one fixed target, which no command
  of the interface calls; its translation of a request is that of
  `RelayedTurns`.

What would come next, in order: the loopback OAuth flow (its listener, its
timeout and a second sign-in meanwhile); the byte framing of events under
`StreamTranslation`; `RelayLifecycle` over `RoutedRelay`, since a restart
forgets the throttles.
