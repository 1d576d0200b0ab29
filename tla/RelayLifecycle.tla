--------------------------- MODULE RelayLifecycle ---------------------------
(***************************************************************************)
(* Starting, stopping and watching the desktop's one routed relay: the     *)
(* rule document, the instance behind an asynchronous mutex, the listeners *)
(* and their connections, and the Relay page that shows the state.         *)
(*                                                                         *)
(* Commands of the page run concurrently on the runtime's threads.  A page *)
(* allows one command at a time, but a page the user has left forgets the  *)
(* one it has under way, and the next page may start another.  Saving the  *)
(* rules is a synchronous command: one step.                               *)
(***************************************************************************)
EXTENDS Naturals, FiniteSets

CONSTANTS Page,        \* bound: instances of the Relay page with a command
          Rules,       \* valid rule documents; a missing one is an empty one
          Startable,   \* those whose providers all have a target configured
          Unreadable,  \* a document that is malformed or of a newer build
          Server,      \* bound: relay servers alive at the same time
          NoServer, NoRules, NoPage

ASSUME Startables == Startable \subseteq Rules
ASSUME Absences ==
  NoServer \notin Server /\ NoPage \notin Page /\ {Unreadable, NoRules} \cap Rules = {}

VARIABLES document,  \* route-rules.json
          lock,      \* the page whose command holds the relay mutex
          instance,  \* Option<RelayServer> under that mutex
          server,    \* listeners and the connections they accepted
          call,      \* the command each page has under way
          page,      \* what the mounted page shows
          foreign    \* whether another program listens on the port

vars == <<document, lock, instance, server, call, page, foreign>>

(* serving: accepts; signalled: told to stop, still accepts; draining: the *)
(* listener is gone; ended, failed: the task is finished.  Its requests    *)
(* may go on, as each connection has a task of its own: they are not       *)
(* followed any further.                                                   *)
Finished == {"unused", "ended", "failed"}
Stage == Finished \cup {"serving", "signalled", "draining"}
Servers == [stage : Stage, rules : Rules \cup {NoRules}, busy : BOOLEAN]
Idle(stage) == [stage |-> stage, rules |-> NoRules, busy |-> FALSE]

Listening(s) == server[s].stage \in {"serving", "signalled"}

(* RelayServer::status of the instance; stopped_status if there is none.   *)
Status == IF instance # NoServer /\ server[instance].stage \notin Finished
          THEN "running" ELSE "stopped"

Calls == [pc : {"idle", "query", "start", "bind", "stop", "drain", "answered"},
          rules : Rules \cup {NoRules},      \* those the start has read
          server : Server \cup {NoServer},   \* the one the stop has taken
          answer : {"running", "stopped", "error"},
          saved : BOOLEAN]  \* history: rules were saved since they were read
NoCall == [pc |-> "idle", rules |-> NoRules, server |-> NoServer,
           answer |-> "stopped", saved |-> FALSE]
Answered(answer) == [NoCall EXCEPT !.pc = "answered", !.answer = answer]

Pages == [mounted : BOOLEAN, shows : {"nothing", "running", "stopped"},
          overtaken : BOOLEAN]  \* history: the relay changed after its answer
Left == [mounted |-> FALSE, shows |-> "nothing", overtaken |-> FALSE]

Init ==
  /\ document \in Rules \cup {Unreadable}
  /\ lock = NoPage /\ instance = NoServer
  /\ server = [s \in Server |-> Idle("unused")]
  /\ call = [p \in Page |-> NoCall] /\ page = [p \in Page |-> Left]
  /\ foreign \in BOOLEAN

(* A page that was answered earlier is overtaken by a change of the relay; *)
(* the page whose command makes the change hears of it.                    *)
Overtakes(p) ==
  page' = [q \in Page |->
             [mounted |-> page[q].mounted, shows |-> page[q].shows,
              overtaken |-> q # p /\ (page[q].overtaken \/ Status' # Status)]]

-----------------------------------------------------------------------------
(* The rule document.                                                      *)

(* A start that has read the document goes on with what it has read.       *)
MarksStarts ==
  call' = [p \in Page |-> IF call[p].pc \in {"start", "bind"}
                          THEN [call[p] EXCEPT !.saved = TRUE] ELSE call[p]]

(* The running relay is given the new rules.                               *)
SaveRulesApplied(r) ==
  /\ document # Unreadable /\ \A p \in Page : ~page[p].mounted
  /\ document' = r
  /\ server' = [s \in Server |->
       IF server[s].stage = "serving" THEN [server[s] EXCEPT !.rules = r] ELSE server[s]]
  /\ UNCHANGED <<lock, instance, call, page, foreign>>

(* replace_route_rules_at, asked for by the router page.                   *)
SaveRules(r) ==
  /\ document # Unreadable /\ \A p \in Page : ~page[p].mounted
  /\ document' = r
  /\ MarksStarts
  /\ UNCHANGED <<lock, instance, server, page, foreign>>

-----------------------------------------------------------------------------
(* start_relay and start_routed_relay.                                     *)

(* What cannot be read counts as the empty rule list.                      *)
CallStartLenient(p) ==
  /\ call[p].pc = "idle" /\ page[p].mounted /\ page[p].shows = "stopped"
  /\ call' = [call EXCEPT ![p] = [NoCall EXCEPT !.pc = "start", !.rules =
                IF document = Unreadable THEN CHOOSE r \in Startable : TRUE ELSE document]]
  /\ UNCHANGED <<document, lock, instance, server, page, foreign>>

(* The document is read before the mutex is asked for.                     *)
CallStart(p) ==
  /\ call[p].pc = "idle" /\ page[p].mounted /\ page[p].shows = "stopped"
  /\ call' = [call EXCEPT ![p] =
       IF document = Unreadable THEN Answered("error")
       ELSE [NoCall EXCEPT !.pc = "start", !.rules = document]]
  /\ UNCHANGED <<document, lock, instance, server, page, foreign>>

(* Under the mutex: a running relay is left alone, a finished one dropped, *)
(* and the targets are looked up before the socket is bound.               *)
StartLocked(p) ==
  /\ call[p].pc = "start" /\ lock = NoPage
  /\ IF Status = "running"
     THEN /\ call' = [call EXCEPT ![p] = Answered("error")]
          /\ UNCHANGED <<lock, instance>>
     ELSE /\ instance' = NoServer
          /\ IF call[p].rules \in Startable
             THEN call' = [call EXCEPT ![p].pc = "bind"] /\ lock' = p
             ELSE call' = [call EXCEPT ![p] = Answered("error")] /\ UNCHANGED lock
  /\ UNCHANGED <<document, server, foreign>>
  /\ Overtakes(p)

PortInUse == foreign \/ \E s \in Server : Listening(s)

BindFails(p) ==
  /\ call[p].pc = "bind" /\ PortInUse
  /\ call' = [call EXCEPT ![p] = Answered("error")] /\ lock' = NoPage
  /\ UNCHANGED <<document, instance, server, foreign>>
  /\ Overtakes(p)

BindSucceeds(p, s) ==
  /\ call[p].pc = "bind" /\ ~PortInUse
  /\ server[s].stage \in Finished /\ \A q \in Page : call[q].server # s
  /\ server' = [server EXCEPT ![s] =
       [stage |-> "serving", rules |-> call[p].rules, busy |-> FALSE]]
  /\ instance' = s /\ lock' = NoPage
  /\ call' = [call EXCEPT ![p] = Answered("running")]
  /\ UNCHANGED <<document, foreign>>
  /\ Overtakes(p)

-----------------------------------------------------------------------------
(* stop_relay and RelayServer::stop.                                       *)

CallStop(p) ==
  /\ call[p].pc = "idle" /\ page[p].mounted /\ page[p].shows = "running"
  /\ call' = [call EXCEPT ![p] = [NoCall EXCEPT !.pc = "stop"]]
  /\ UNCHANGED <<document, lock, instance, server, page, foreign>>

(* The server is taken out and signalled; the mutex is free again.         *)
StopTakes(p) ==
  /\ call[p].pc = "stop" /\ lock = NoPage
  /\ instance' = NoServer
  /\ IF instance = NoServer
     THEN call' = [call EXCEPT ![p] = Answered("stopped")] /\ UNCHANGED server
     ELSE /\ call' = [call EXCEPT ![p].pc = "drain", ![p].server = instance]
          /\ server' = [server EXCEPT ![instance].stage =
                          IF @ = "serving" THEN "signalled" ELSE @]
  /\ UNCHANGED <<document, lock, foreign>>
  /\ Overtakes(p)

(* The answer does not wait for the task that listens.                     *)
StopAnswersDetached(p) ==
  /\ call[p].pc = "drain"
  /\ call' = [call EXCEPT ![p] = Answered("stopped")]
  /\ UNCHANGED <<document, lock, instance, server, page, foreign>>

(* An aborted task counts as stopped, one that failed by itself does not.  *)
StopAnswers(p) ==
  LET stage == server[call[p].server].stage IN
  /\ call[p].pc = "drain" /\ stage \in Finished
  /\ call' = [call EXCEPT ![p] = Answered(IF stage = "failed" THEN "error" ELSE "stopped")]
  /\ UNCHANGED <<document, lock, instance, server, page, foreign>>

(* After the time allowed the task is left alone.                          *)
GraceDetached(p) ==
  /\ call[p].pc = "drain" /\ server[call[p].server].stage \notin Finished
  /\ call' = [call EXCEPT ![p] = Answered("stopped")]
  /\ UNCHANGED <<document, lock, instance, server, page, foreign>>

(* A stop waits for the requests however long they take.                   *)
GraceEndless(p) ==
  /\ call[p].pc = "drain" /\ server[call[p].server].stage \notin Finished
  /\ ~server[call[p].server].busy
  /\ server' = [server EXCEPT ![call[p].server] = Idle("ended")]
  /\ UNCHANGED <<document, lock, instance, call, page, foreign>>

(* SHUTDOWN_GRACE has passed: the task is aborted, its connections are not.*)
GracePasses(p) ==
  /\ call[p].pc = "drain" /\ server[call[p].server].stage \notin Finished
  /\ server' = [server EXCEPT ![call[p].server] = Idle("ended")]
  /\ UNCHANGED <<document, lock, instance, call, page, foreign>>

-----------------------------------------------------------------------------
(* relay_status, and the page.                                             *)

Open(p) ==
  /\ \A q \in Page : ~page[q].mounted
  /\ call[p].pc = "idle"
  /\ page' = [page EXCEPT ![p] = [Left EXCEPT !.mounted = TRUE]]
  /\ call' = [call EXCEPT ![p] = [NoCall EXCEPT !.pc = "query"]]
  /\ UNCHANGED <<document, lock, instance, server, foreign>>

(* The user goes to another page, or the webview reloads.                  *)
Leave(p) ==
  /\ page[p].mounted
  /\ page' = [page EXCEPT ![p] = Left]
  /\ UNCHANGED <<document, lock, instance, server, call, foreign>>

QueryAnswers(p) ==
  /\ call[p].pc = "query" /\ lock = NoPage
  /\ call' = [call EXCEPT ![p] = Answered(Status)]
  /\ UNCHANGED <<document, lock, instance, server, foreign>>
  /\ Overtakes(p)

Shows(p) == page' = [page EXCEPT ![p].shows = IF page[p].mounted THEN call[p].answer ELSE @]

(* An error leaves the page as it is.                                      *)
HearUnasked(p) ==
  /\ call[p].pc = "answered"
  /\ call' = [call EXCEPT ![p] = NoCall]
  /\ IF call[p].answer = "error" THEN UNCHANGED page ELSE Shows(p)
  /\ UNCHANGED <<document, lock, instance, server, foreign>>

(* setRunning: after an error the page asks for the state.                 *)
Hear(p) ==
  /\ call[p].pc = "answered"
  /\ IF call[p].answer = "error"
     THEN call' = [call EXCEPT ![p] = [NoCall EXCEPT !.pc = "query"]] /\ UNCHANGED page
     ELSE call' = [call EXCEPT ![p] = NoCall] /\ Shows(p)
  /\ UNCHANGED <<document, lock, instance, server, foreign>>

-----------------------------------------------------------------------------
(* The listening task and its surroundings.                                *)

Accept(s) ==
  /\ Listening(s) /\ ~server[s].busy
  /\ server' = [server EXCEPT ![s].busy = TRUE]
  /\ UNCHANGED <<document, lock, instance, call, page, foreign>>

RequestEnds(s) ==
  /\ server[s].busy
  /\ server' = [server EXCEPT ![s].busy = FALSE]
  /\ UNCHANGED <<document, lock, instance, call, page, foreign>>

(* The signal is heard: nothing more is accepted.                          *)
ClosesListener(s) ==
  /\ server[s].stage = "signalled"
  /\ server' = [server EXCEPT ![s].stage = "draining"]
  /\ UNCHANGED <<document, lock, instance, call, page, foreign>>

Drained(s) ==
  /\ server[s].stage = "draining" /\ ~server[s].busy
  /\ server' = [server EXCEPT ![s] = Idle("ended")]
  /\ UNCHANGED <<document, lock, instance, call, page, foreign>>

(* "relay listener stopped unexpectedly"                                   *)
TaskDies(s) ==
  /\ server[s].stage = "serving"
  /\ server' = [server EXCEPT ![s] = Idle("failed")]
  /\ UNCHANGED <<document, lock, instance, call, foreign>>
  /\ Overtakes(NoPage)

(* Another build replaces or repairs the document; another program takes   *)
(* or frees the port.                                                      *)
OutsideWrites(content) ==
  /\ document' = content
  /\ MarksStarts
  /\ UNCHANGED <<lock, instance, server, page, foreign>>

OutsideListens ==
  /\ foreign \/ ~PortInUse
  /\ foreign' = ~foreign
  /\ UNCHANGED <<document, lock, instance, server, call, page>>

Command(p) ==
  \/ StartLocked(p) \/ BindFails(p) \/ \E s \in Server : BindSucceeds(p, s)
  \/ StopTakes(p) \/ StopAnswers(p) \/ QueryAnswers(p) \/ Hear(p)

PageStep(p) ==
  Command(p) \/ GracePasses(p) \/ CallStart(p) \/ CallStop(p) \/ Open(p) \/ Leave(p)

ServerStep(s) ==
  Accept(s) \/ RequestEnds(s) \/ ClosesListener(s) \/ Drained(s) \/ TaskDies(s)

Next ==
  \/ \E p \in Page : PageStep(p)
  \/ \E s \in Server : ServerStep(s)
  \/ \E r \in Rules : SaveRules(r)
  \/ \E content \in Rules \cup {Unreadable} : OutsideWrites(content)
  \/ OutsideListens

Spec == Init /\ [][Next]_vars

(* The runtime runs every task that can go on, its mutex is handed over    *)
(* first come, first served, and its timers fire.  No request has to end,  *)
(* and no user has to press a button.                                      *)
FairSpec == Spec /\ \A p \in Page : SF_vars(Command(p)) /\ WF_vars(GracePasses(p))

-----------------------------------------------------------------------------
(* The mutex is held over the binding of the socket and no other wait; a   *)
(* stop in progress has a server to wait for, and a page without a command *)
(* shows a state.                                                          *)
TypeOK ==
  /\ document \in Rules \cup {Unreadable}
  /\ lock \in Page \cup {NoPage} /\ instance \in Server \cup {NoServer}
  /\ server \in [Server -> Servers]
  /\ call \in [Page -> Calls] /\ page \in [Page -> Pages] /\ foreign \in BOOLEAN
  /\ \A p \in Page :
       /\ lock = p <=> call[p].pc = "bind"
       /\ call[p].pc = "drain" <=> call[p].server # NoServer
       /\ page[p].mounted /\ call[p].pc = "idle" => page[p].shows # "nothing"

(* Every relay that may still accept a request can be stopped: it is the   *)
(* instance, or a stop waits for it.  None is lost by a failed start, by a *)
(* stop that gives up waiting, or between two pages' commands.             *)
CanBeStopped ==
  \A s \in Server : server[s].stage \notin Finished
    => instance = s \/ \E p \in Page : call[p].server = s

(* What the page shows is so, whatever its commands answered and whatever  *)
(* commands of earlier pages were under way, unless the relay has changed  *)
(* since the page's last command took hold.                                *)
PageTellsTruth ==
  \A p \in Page : page[p].mounted /\ call[p].pc = "idle" /\ ~page[p].overtaken
    => page[p].shows = Status

(* A relay that starts to serve does so under the rules that are saved at  *)
(* that moment, unless they were saved while the start was in progress.    *)
RulesInForce ==
  [][\A s \in Server : server'[s].stage = "serving" /\ server[s].stage # "serving"
       => server'[s].rules = document \/ \E p \in Page : lock = p /\ call[p].saved]_vars

(* A start is refused for want of the port only if another program has it  *)
(* or a stop is still in progress: an answered stop has freed it.          *)
PortIsFreed ==
  [][\A p \in Page : call[p].pc = "bind" /\ call'[p].answer = "error"
       => foreign \/ \E q \in Page : call[q].pc = "drain"]_vars

(* Every command is answered, a stop also when a request never ends.       *)
CommandEnds == \A p \in Page : call[p].pc # "idle" ~> call[p].pc = "idle"

(* Seen through the mutex the relay is a switch: a running relay keeps its *)
(* rules, and whoever wants others has to stop it first.                   *)
Running == IF Status = "running" THEN server[instance].rules ELSE NoRules
Promise == INSTANCE RelaySwitch WITH running <- Running, Off <- NoRules
SwitchesOnAndOff == Promise!Spec
=============================================================================
