------------------------ MODULE RelayLifecycleProofs ------------------------
(***************************************************************************)
(* What holds of RelayLifecycle for any number of pages, servers and rule  *)
(* documents.                                                              *)
(***************************************************************************)
EXTENDS RelayLifecycle, TLAPS

(* The mutex is kept until the socket is bound, over an empty instance.    *)
Locked == \A p \in Page : call[p].pc = "bind" => instance = NoServer

(* What a start has read is what is saved, unless it was saved since.      *)
Asked == \A p \in Page : call[p].pc \in {"start", "bind"} =>
  /\ call[p].rules \in Rules /\ (call[p].saved \/ call[p].rules = document)
  /\ call[p].answer = "stopped"

(* The instance has not been told to stop, and no stop waits for it.       *)
Untouched ==
  /\ instance # NoServer => server[instance].stage \in {"serving", "failed"}
  /\ \A p \in Page : call[p].server = instance => instance = NoServer

(* What a page is told holds until it is overtaken.                        *)
Told == \A p \in Page : page[p].mounted /\ ~page[p].overtaken =>
  /\ call[p].pc = "drain" => Status = "stopped"
  /\ call[p].pc = "answered" /\ call[p].answer # "error" => call[p].answer = Status

IInv == TypeOK /\ Locked /\ Asked /\ Untouched /\ Told /\ CanBeStopped /\ PageTellsTruth

-----------------------------------------------------------------------------
(***************************************************************************)
(* Types.                                                                  *)
(***************************************************************************)
LEMMA Records ==
  /\ NoCall \in Calls /\ NoCall.pc = "idle" /\ NoCall.server = NoServer
  /\ NoCall.answer = "stopped"
  /\ \A answer : /\ Answered(answer).pc = "answered" /\ Answered(answer).server = NoServer
                 /\ Answered(answer).answer = answer
  /\ \A answer \in {"running", "stopped", "error"} : Answered(answer) \in Calls
  /\ \A stage \in Stage : Idle(stage) \in Servers
  /\ \A stage : Idle(stage).stage = stage
BY DEF NoCall, Answered, Calls, Idle, Servers

LEMMA Fields ==
  ASSUME TypeOK
  PROVE  /\ \A p \in Page : call[p] \in Calls /\ page[p] \in Pages /\ p # NoPage
         /\ \A s \in Server : server[s] \in Servers /\ s # NoServer
         /\ Status \in {"running", "stopped"}
BY Absences DEF TypeOK, Status

LEMMA OvertakesType ==
  ASSUME TypeOK, NEW p, Overtakes(p)
  PROVE  /\ page' \in [Page -> Pages]
         /\ \A q \in Page : /\ page'[q].mounted = page[q].mounted
                            /\ page'[q].shows = page[q].shows
                            /\ page'[q].overtaken
                                 = (q # p /\ (page[q].overtaken \/ Status' # Status))
<1>1. \A q \in Page : /\ page[q].mounted \in BOOLEAN
                      /\ page[q].shows \in {"nothing", "running", "stopped"}
  BY Fields DEF Pages
<1> QED
  BY <1>1 DEF Overtakes, Pages

LEMMA CallStartType ==
  ASSUME TypeOK, NEW p \in Page, CallStart(p)
  PROVE  /\ TypeOK'
         /\ call'[p].pc \in {"start", "answered"} /\ call'[p].server = NoServer
         /\ call'[p].pc = "start" => /\ call'[p].rules = document /\ document \in Rules
                                     /\ call'[p].answer = "stopped"
         /\ call'[p].pc = "answered" => call'[p].answer = "error"
         /\ \A q \in Page : q # p => call'[q] = call[q]
<1> DEFINE new == IF document = Unreadable THEN Answered("error")
                  ELSE [NoCall EXCEPT !.pc = "start", !.rules = document]
<1>1. /\ new \in Calls /\ new.pc \in {"start", "answered"} /\ new.server = NoServer
      /\ new.pc = "start" => /\ new.rules = document /\ document \in Rules
                              /\ new.answer = "stopped"
      /\ new.pc = "answered" => new.answer = "error"
  <2>1. CASE document = Unreadable
    BY <2>1, Records
  <2>2. CASE document # Unreadable
    <3>1. document \in Rules
      BY <2>2 DEF TypeOK
    <3>2. new = [pc |-> "start", rules |-> document, server |-> NoServer,
                 answer |-> "stopped", saved |-> FALSE]
      BY <2>2 DEF NoCall
    <3> HIDE DEF new
    <3> QED
      BY <3>1, <3>2 DEF Calls
  <2> QED
    BY <2>1, <2>2
<1>2. call' = [call EXCEPT ![p] = new]
  BY DEF CallStart
<1>3. call'[p] = new /\ \A q \in Page : q # p => call'[q] = call[q]
  BY <1>2 DEF TypeOK
<1>4. UNCHANGED <<document, lock, instance, server, page, foreign>> /\ call[p].pc = "idle"
  BY DEF CallStart
<1>5. call' \in [Page -> Calls]
  BY <1>1, <1>2 DEF TypeOK
<1> HIDE DEF new
<1>6. TypeOK'
  BY <1>1, <1>3, <1>4, <1>5, Absences DEF TypeOK
<1> QED
  BY <1>1, <1>3, <1>6

LEMMA NobodyBinds ==
  ASSUME TypeOK, lock = NoPage
  PROVE  \A p \in Page : call[p].pc # "bind"
BY Fields DEF TypeOK

LEMMA StartLockedType ==
  ASSUME TypeOK, NEW p \in Page, StartLocked(p)
  PROVE  TypeOK'
<1>1. page' \in [Page -> Pages]
  BY OvertakesType DEF StartLocked
<1>2. UNCHANGED <<document, server, foreign>> /\ instance' \in {instance, NoServer}
  BY DEF StartLocked
<1>3. CASE call' = [call EXCEPT ![p] = Answered("error")] /\ UNCHANGED lock
  <2>1. call' \in [Page -> Calls]
    BY <1>3, Records DEF TypeOK
  <2>2. \A q \in Page : call'[q].pc # "bind"
    BY <1>3, Records, NobodyBinds DEF TypeOK, StartLocked
  <2>3. \A q \in Page : /\ call'[q].pc = "drain" <=> call'[q].server # NoServer
                        /\ call'[q].pc = "idle" => call[q].pc = "idle"
    BY <1>3, Records DEF TypeOK
  <2>4. \A q \in Page : page'[q].mounted = page[q].mounted /\ page'[q].shows = page[q].shows
    BY OvertakesType DEF StartLocked
  <2> QED
    BY <1>1, <1>2, <1>3, <2>1, <2>2, <2>3, <2>4, Fields DEF TypeOK, StartLocked
<1>4. CASE call' = [call EXCEPT ![p].pc = "bind"] /\ lock' = p
  <2>1. call[p].pc = "start" /\ call[p] \in Calls /\ call[p].server = NoServer
    BY DEF StartLocked, TypeOK
  <2>2. /\ call'[p] \in Calls /\ call'[p].pc = "bind" /\ call'[p].server = NoServer
        /\ \A q \in Page : q # p => call'[q] = call[q]
    BY <1>4, <2>1 DEF Calls, TypeOK
  <2>3. call' \in [Page -> Calls]
    BY <1>4, <2>2 DEF TypeOK
  <2>4. \A q \in Page : page'[q].mounted = page[q].mounted /\ page'[q].shows = page[q].shows
    BY OvertakesType DEF StartLocked
  <2> QED
    BY <1>1, <1>2, <1>4, <2>2, <2>3, <2>4, NobodyBinds DEF TypeOK, StartLocked
<1> QED
  BY <1>3, <1>4 DEF StartLocked

LEMMA AnswersType ==
  ASSUME TypeOK, NEW p \in Page, NEW answer \in {"running", "stopped", "error"},
         call' = [call EXCEPT ![p] = Answered(answer)],
         lock' = (IF call[p].pc = "bind" THEN NoPage ELSE lock),
         UNCHANGED <<document, foreign>>,
         instance' \in Server \cup {NoServer}, server' \in [Server -> Servers],
         (UNCHANGED page) \/ Overtakes(p)
  PROVE  TypeOK'
<1>1. call' \in [Page -> Calls]
  BY Records DEF TypeOK
<1>2. call'[p] = Answered(answer) /\ \A q \in Page : q # p => call'[q] = call[q]
  BY DEF TypeOK
<1>3. lock' \in Page \cup {NoPage}
  BY DEF TypeOK
<1>4. Answered(answer).pc = "answered" /\ Answered(answer).server = NoServer
  BY Records
<1>5. \A q \in Page : lock' = q <=> call'[q].pc = "bind"
  <2>1. \A q \in Page : lock = q <=> call[q].pc = "bind"
    BY DEF TypeOK
  <2>2. NoPage \notin Page
    BY Absences
  <2> QED
    BY <1>2, <1>4, <2>1, <2>2
<1>6. \A q \in Page : call'[q].pc = "drain" <=> call'[q].server # NoServer
  BY <1>2, <1>4 DEF TypeOK
<1>7. page' \in [Page -> Pages]
      /\ \A q \in Page : page'[q].mounted = page[q].mounted /\ page'[q].shows = page[q].shows
  BY OvertakesType DEF TypeOK
<1>8. \A q \in Page : page'[q].mounted /\ call'[q].pc = "idle" => page'[q].shows # "nothing"
  BY <1>2, <1>4, <1>7 DEF TypeOK
<1> QED
  BY <1>1, <1>3, <1>5, <1>6, <1>7, <1>8 DEF TypeOK

LEMMA BindFailsType ==
  ASSUME TypeOK, NEW p \in Page, BindFails(p)
  PROVE  TypeOK'
<1>1. lock' = (IF call[p].pc = "bind" THEN NoPage ELSE lock)
  BY DEF BindFails
<1>2. call' = [call EXCEPT ![p] = Answered("error")]
  BY DEF BindFails
<1> QED
  BY <1>1, <1>2, AnswersType DEF TypeOK, BindFails

LEMMA BindSucceedsType ==
  ASSUME TypeOK, NEW p \in Page, NEW s \in Server, BindSucceeds(p, s)
  PROVE  TypeOK'
<1>1. lock' = (IF call[p].pc = "bind" THEN NoPage ELSE lock)
  BY DEF BindSucceeds
<1>2. call' = [call EXCEPT ![p] = Answered("running")]
  BY DEF BindSucceeds
<1>3. server' \in [Server -> Servers]
  <2>1. call[p].rules \in Rules \cup {NoRules}
    BY DEF TypeOK, Calls
  <2> QED
    BY <2>1 DEF TypeOK, BindSucceeds, Servers, Stage
<1> QED
  BY <1>1, <1>2, <1>3, AnswersType DEF TypeOK, BindSucceeds

LEMMA StopTakesType ==
  ASSUME TypeOK, NEW p \in Page, StopTakes(p)
  PROVE  TypeOK'
<1>1. CASE instance = NoServer
  <2>1. call' = [call EXCEPT ![p] = Answered("stopped")] /\ UNCHANGED <<lock, server>>
    BY <1>1 DEF StopTakes
  <2>2. lock' = (IF call[p].pc = "bind" THEN NoPage ELSE lock)
    BY <2>1 DEF StopTakes
  <2> QED
    BY <2>1, <2>2, AnswersType DEF TypeOK, StopTakes
<1>2. CASE instance # NoServer
  <2>1. call[p] \in Calls /\ call[p].pc = "stop" /\ instance \in Server
    BY <1>2 DEF StopTakes, TypeOK
  <2>2. call' = [call EXCEPT ![p].pc = "drain", ![p].server = instance]
    BY <1>2 DEF StopTakes
  <2>3. /\ call'[p] \in Calls /\ call'[p].pc = "drain" /\ call'[p].server = instance
        /\ \A q \in Page : q # p => call'[q] = call[q]
    BY <2>1, <2>2 DEF Calls, TypeOK
  <2>4. call' \in [Page -> Calls]
    BY <2>2, <2>3 DEF TypeOK
  <2>5. server' \in [Server -> Servers]
    BY <1>2, <2>1 DEF StopTakes, TypeOK, Servers, Stage
  <2> QED
    BY <1>2, <2>1, <2>3, <2>4, <2>5, OvertakesType DEF TypeOK, StopTakes
<1> QED
  BY <1>1, <1>2

LEMMA NewCallType ==
  ASSUME TypeOK, NEW p \in Page, NEW new \in Calls,
         call' = [call EXCEPT ![p] = new],
         call[p].pc # "bind", new.pc \notin {"bind", "drain"}, new.server = NoServer,
         UNCHANGED <<document, lock, instance, server, foreign>>,
         page' \in [Page -> Pages], \A q \in Page : q # p => page'[q] = page[q],
         page'[p].mounted /\ new.pc = "idle" => page'[p].shows # "nothing"
  PROVE  TypeOK'
<1>1. call'[p] = new /\ (\A q \in Page : q # p => call'[q] = call[q]) /\ call' \in [Page -> Calls]
  BY DEF TypeOK
<1>2. \A q \in Page : lock' = q <=> call'[q].pc = "bind"
  BY <1>1 DEF TypeOK
<1>3. \A q \in Page : call'[q].pc = "drain" <=> call'[q].server # NoServer
  BY <1>1 DEF TypeOK
<1>4. \A q \in Page : page'[q].mounted /\ call'[q].pc = "idle" => page'[q].shows # "nothing"
  BY <1>1 DEF TypeOK
<1> QED
  BY <1>1, <1>2, <1>3, <1>4 DEF TypeOK

LEMMA OtherCallType ==
  ASSUME TypeOK, NEW p \in Page,
         CallStop(p) \/ StopAnswers(p) \/ Open(p) \/ QueryAnswers(p) \/ Hear(p)
  PROVE  TypeOK'
<1>1. \A pc \in {"stop", "query"} :
        /\ [NoCall EXCEPT !.pc = pc] \in Calls
        /\ [NoCall EXCEPT !.pc = pc].pc = pc /\ [NoCall EXCEPT !.pc = pc].server = NoServer
  BY DEF NoCall, Calls
<1>2. CASE CallStop(p)
  <2> DEFINE new == [NoCall EXCEPT !.pc = "stop"]
  <2>1. call' = [call EXCEPT ![p] = new] /\ new \in Calls /\ new.pc = "stop" /\ new.server = NoServer
    BY <1>1, <1>2 DEF CallStop
  <2> HIDE DEF new
  <2>2. UNCHANGED <<document, lock, instance, server, foreign, page>> /\ call[p].pc = "idle"
    BY <1>2 DEF CallStop
  <2>3. page' \in [Page -> Pages]
    BY <2>2 DEF TypeOK
  <2> QED
    BY <2>1, <2>2, <2>3, NewCallType
<1>3. CASE StopAnswers(p)
  <2>1. PICK answer \in {"error", "stopped"} : call' = [call EXCEPT ![p] = Answered(answer)]
    BY <1>3 DEF StopAnswers
  <2>2. lock' = (IF call[p].pc = "bind" THEN NoPage ELSE lock)
    BY <1>3 DEF StopAnswers
  <2>3. UNCHANGED <<document, instance, server, page, foreign>>
    BY <1>3 DEF StopAnswers
  <2> QED
    BY <2>1, <2>2, <2>3, AnswersType DEF TypeOK
<1>4. CASE Open(p)
  <2> DEFINE new == [NoCall EXCEPT !.pc = "query"]
  <2>1. call' = [call EXCEPT ![p] = new] /\ new \in Calls /\ new.pc = "query" /\ new.server = NoServer
    BY <1>1, <1>4 DEF Open
  <2> HIDE DEF new
  <2>2. UNCHANGED <<document, lock, instance, server, foreign>> /\ call[p].pc = "idle"
    BY <1>4 DEF Open
  <2>3. page' \in [Page -> Pages] /\ \A q \in Page : q # p => page'[q] = page[q]
    BY <1>4 DEF Open, Left, Pages, TypeOK
  <2> QED
    BY <2>1, <2>2, <2>3, NewCallType
<1>5. CASE QueryAnswers(p)
  <2>1. call' = [call EXCEPT ![p] = Answered(Status)] /\ Status \in {"running", "stopped"}
    BY <1>5, Fields DEF QueryAnswers
  <2>2. lock' = (IF call[p].pc = "bind" THEN NoPage ELSE lock)
    BY <1>5 DEF QueryAnswers
  <2>3. UNCHANGED <<document, instance, server, foreign>> /\ Overtakes(p)
    BY <1>5 DEF QueryAnswers
  <2> QED
    BY <2>1, <2>2, <2>3, AnswersType DEF TypeOK
<1>6. CASE Hear(p) /\ call[p].answer = "error"
  <2> DEFINE new == [NoCall EXCEPT !.pc = "query"]
  <2>1. call' = [call EXCEPT ![p] = new] /\ new \in Calls /\ new.pc = "query" /\ new.server = NoServer
    BY <1>1, <1>6 DEF Hear
  <2> HIDE DEF new
  <2>2. UNCHANGED <<document, lock, instance, server, foreign, page>> /\ call[p].pc = "answered"
    BY <1>6 DEF Hear
  <2>3. page' \in [Page -> Pages]
    BY <2>2 DEF TypeOK
  <2> QED
    BY <2>1, <2>2, <2>3, NewCallType
<1>7. CASE Hear(p) /\ call[p].answer # "error"
  <2>1. call' = [call EXCEPT ![p] = NoCall] /\ Shows(p)
    BY <1>7 DEF Hear
  <2>2. UNCHANGED <<document, lock, instance, server, foreign>> /\ call[p].pc = "answered"
    BY <1>7 DEF Hear
  <2>3. call[p].answer \in {"running", "stopped"} /\ page[p] \in Pages
    BY <1>7, Fields DEF Calls
  <2>4. /\ page'[p] \in Pages /\ page'[p].mounted = page[p].mounted
        /\ page[p].mounted => page'[p].shows = call[p].answer
        /\ \A q \in Page : q # p => page'[q] = page[q]
    BY <2>1, <2>3 DEF Shows, Pages, TypeOK
  <2>5. page' \in [Page -> Pages]
    BY <2>1, <2>4 DEF Shows, TypeOK
  <2> QED
    BY <2>1, <2>2, <2>3, <2>4, <2>5, Records, NewCallType
<1> QED
  BY <1>2, <1>3, <1>4, <1>5, <1>6, <1>7

LEMMA ServerType ==
  ASSUME TypeOK, \/ \E s \in Server : ServerStep(s)
                 \/ \E p \in Page : GracePasses(p)
  PROVE  TypeOK'
<1>1. Idle("ended") \in Servers /\ Idle("failed") \in Servers
  BY Records DEF Stage, Finished
<1>2. ASSUME NEW s \in Server, Accept(s) \/ RequestEnds(s) PROVE TypeOK'
  BY <1>2 DEF Accept, RequestEnds, TypeOK, Servers
<1>3. ASSUME NEW s \in Server, ClosesListener(s) PROVE TypeOK'
  BY <1>3 DEF ClosesListener, TypeOK, Servers, Stage
<1>4. ASSUME NEW s \in Server, Drained(s) PROVE TypeOK'
  BY <1>1, <1>4 DEF Drained, TypeOK
<1>5. ASSUME NEW s \in Server, TaskDies(s) PROVE TypeOK'
  BY <1>1, <1>5, OvertakesType DEF TaskDies, TypeOK
<1>6. ASSUME NEW p \in Page, GracePasses(p) PROVE TypeOK'
  BY <1>1, <1>6 DEF GracePasses, TypeOK
<1> QED
  BY <1>2, <1>3, <1>4, <1>5, <1>6 DEF ServerStep

LEMMA RulesType ==
  ASSUME TypeOK, MarksStarts
  PROVE  /\ call' \in [Page -> Calls]
         /\ \A p \in Page : /\ call'[p].pc = call[p].pc /\ call'[p].rules = call[p].rules
                            /\ call'[p].server = call[p].server
                            /\ call'[p].answer = call[p].answer
                            /\ call[p].pc \in {"start", "bind"} => call'[p].saved
<1>1. \A p \in Page : call[p] \in Calls
  BY Fields
<1>2. \A p \in Page : call'[p] \in Calls
  BY <1>1 DEF MarksStarts, Calls
<1> QED
  BY <1>1, <1>2 DEF MarksStarts, Calls

LEMMA TypeStep == TypeOK /\ [Next]_vars => TypeOK'
<1> SUFFICES ASSUME TypeOK, [Next]_vars PROVE TypeOK'
  OBVIOUS
<1>1. CASE UNCHANGED vars
  BY <1>1 DEF vars, TypeOK
<1>2. ASSUME NEW p \in Page, PageStep(p) PROVE TypeOK'
  <2>1. CASE Leave(p)
    BY <2>1 DEF Leave, Left, Pages, TypeOK
  <2> QED
    BY <1>2, <2>1, CallStartType, StartLockedType, BindFailsType, BindSucceedsType,
       StopTakesType, OtherCallType, ServerType DEF PageStep, Command
<1>3. ASSUME NEW r \in Rules, SaveRules(r) PROVE TypeOK'
  BY <1>3, RulesType DEF SaveRules, TypeOK
<1>4. ASSUME NEW content \in Rules \cup {Unreadable}, OutsideWrites(content) PROVE TypeOK'
  BY <1>4, RulesType DEF OutsideWrites, TypeOK
<1>5. CASE OutsideListens
  BY <1>5 DEF OutsideListens, TypeOK
<1> QED
  BY <1>1, <1>2, <1>3, <1>4, <1>5, ServerType DEF Next

-----------------------------------------------------------------------------
(***************************************************************************)
(* The other parts of the invariant.                                       *)
(***************************************************************************)
Rest == Locked /\ Asked /\ Untouched /\ Told /\ CanBeStopped /\ PageTellsTruth

(* A step that is a command's alone: p has no server to wait for after it. *)
LEMMA CommandRest ==
  ASSUME TypeOK, Rest, NEW p \in Page, UNCHANGED <<document, instance, server>>,
         \A q \in Page : q # p => call'[q] = call[q],
         call'[p].pc \notin {"bind", "drain"}, call'[p].server = NoServer,
         call[p].server # NoServer => server[call[p].server].stage \in Finished,
         call'[p].pc = "start" => /\ call'[p].rules \in Rules /\ call'[p].rules = document
                                  /\ call'[p].answer = "stopped",
         \A q \in Page : q # p => /\ page'[q].mounted => page[q].mounted
                                  /\ page'[q].mounted => page'[q].shows = page[q].shows
                                  /\ page'[q].mounted => page'[q].overtaken = page[q].overtaken,
         page'[p].mounted /\ ~page'[p].overtaken =>
           /\ call'[p].pc = "answered" /\ call'[p].answer # "error" => call'[p].answer = Status
           /\ call'[p].pc = "idle" => page'[p].shows = Status
  PROVE  Rest'
<1>1. Status' = Status
  BY DEF Status
<1>2. Locked' /\ Asked'
  BY DEF Rest, Locked, Asked
<1>3. Untouched'
  BY DEF Rest, Untouched
<1>4. CanBeStopped'
  <2>1. ASSUME NEW s \in Server, server[s].stage \notin Finished, instance # s
        PROVE  \E q \in Page : call'[q].server = s
    <3>1. PICK q \in Page : call[q].server = s
      BY <2>1 DEF Rest, CanBeStopped
    <3>2. q # p
      BY <2>1, <3>1, Fields
    <3> QED
      BY <3>1, <3>2
  <2> QED
    BY <2>1 DEF CanBeStopped
<1>5. Told' /\ PageTellsTruth'
  BY <1>1 DEF Rest, Told, PageTellsTruth
<1> QED
  BY <1>2, <1>3, <1>4, <1>5 DEF Rest

(* A step that is a server's alone: nothing begins to serve.               *)
LEMMA ServerRest ==
  ASSUME TypeOK, Rest, UNCHANGED <<document, lock, instance, call>>,
         \A s \in Server : server'[s].stage \notin Finished => server[s].stage \notin Finished,
         instance # NoServer => server'[instance].stage \in {"serving", "failed"},
         ((UNCHANGED page) /\ Status' = Status) \/ Overtakes(NoPage)
  PROVE  Rest'
<1>1. Locked' /\ Asked' /\ Untouched'
  BY DEF Rest, Locked, Asked, Untouched
<1>2. CanBeStopped'
  BY DEF Rest, CanBeStopped
<1>3. \A q \in Page : /\ page'[q].mounted = page[q].mounted
                      /\ page'[q].shows = page[q].shows
                      /\ ~page'[q].overtaken => ~page[q].overtaken /\ Status' = Status
  BY OvertakesType, Fields
<1>4. Told' /\ PageTellsTruth'
  BY <1>3 DEF Rest, Told, PageTellsTruth
<1> QED
  BY <1>1, <1>2, <1>4 DEF Rest

LEMMA ServersRest ==
  ASSUME TypeOK, Rest, \/ \E s \in Server : ServerStep(s)
                       \/ \E p \in Page : GracePasses(p)
  PROVE  Rest'
<1>1. instance # NoServer => /\ instance \in Server
                             /\ server[instance].stage \in {"serving", "failed"}
                             /\ \A p \in Page : call[p].server # instance
  BY DEF TypeOK, Rest, Untouched
<1>2. \A stage : Idle(stage).stage = stage
  BY Records
<1>3. ASSUME NEW s \in Server, Accept(s) \/ RequestEnds(s) PROVE Rest'
  <2>1. \A t \in Server : server'[t].stage = server[t].stage
    BY <1>3 DEF Accept, RequestEnds, TypeOK, Servers
  <2>2. UNCHANGED <<document, lock, instance, call, page>>
    BY <1>3 DEF Accept, RequestEnds
  <2>3. Status' = Status
    BY <1>1, <2>1, <2>2 DEF Status
  <2> QED
    BY <1>1, <2>1, <2>2, <2>3, ServerRest
<1>4. ASSUME NEW s \in Server, server[s].stage \in {"signalled", "draining"},
             UNCHANGED <<document, lock, instance, call, page>>,
             \A t \in Server : t # s => server'[t] = server[t]
      PROVE  Rest'
  <2>1. instance # s
    BY <1>1, <1>4, Absences
  <2>2. Status' = Status
    BY <1>1, <1>4, <2>1 DEF Status
  <2> QED
    BY <1>1, <1>4, <2>1, <2>2, ServerRest DEF Finished
<1>5. ASSUME NEW s \in Server, ClosesListener(s) \/ Drained(s) PROVE Rest'
  BY <1>4, <1>5 DEF ClosesListener, Drained, TypeOK
<1>6. ASSUME NEW s \in Server, TaskDies(s) PROVE Rest'
  <2>1. /\ server'[s].stage = "failed" /\ \A t \in Server : t # s => server'[t] = server[t]
        /\ UNCHANGED <<document, lock, instance, call>> /\ Overtakes(NoPage)
    BY <1>2, <1>6 DEF TaskDies, TypeOK
  <2> QED
    BY <1>1, <2>1, ServerRest DEF Finished
<1>7. ASSUME NEW p \in Page, GracePasses(p) PROVE Rest'
  <2> DEFINE s == call[p].server
  <2>1. s \in Server
    BY <1>7, Fields DEF GracePasses, TypeOK, Calls
  <2>2. /\ server[s].stage \notin Finished
        /\ server'[s].stage = "ended" /\ \A t \in Server : t # s => server'[t] = server[t]
        /\ UNCHANGED <<document, lock, instance, call, page>>
    BY <1>2, <1>7, <2>1 DEF GracePasses, TypeOK
  <2>3. instance # s
    BY <1>1, <2>1, Absences
  <2>4. Status' = Status
    BY <1>1, <2>2, <2>3 DEF Status
  <2> QED
    BY <1>1, <2>2, <2>3, <2>4, ServerRest DEF Finished
<1> QED
  BY <1>3, <1>5, <1>6, <1>7 DEF ServerStep

LEMMA CommandsRest ==
  ASSUME TypeOK, Rest, NEW p \in Page,
         CallStart(p) \/ CallStop(p) \/ StopAnswers(p) \/ QueryAnswers(p) \/ Hear(p)
           \/ Open(p) \/ Leave(p)
  PROVE  Rest'
<1>1. call[p] \in Calls /\ page[p] \in Pages /\ p # NoPage /\ call \in [Page -> Calls]
  BY Fields DEF TypeOK
<1>2. call[p].pc # "drain" => call[p].server = NoServer
  BY DEF TypeOK
<1>3. CASE CallStart(p)
  <2>1. UNCHANGED <<document, instance, server, page>> /\ call[p].pc = "idle"
    BY <1>3 DEF CallStart
  <2> QED
    BY <1>2, <1>3, <2>1, CallStartType, CommandRest
<1>4. CASE CallStop(p)
  <2>1. /\ call'[p].pc = "stop" /\ call'[p].server = NoServer
        /\ \A q \in Page : q # p => call'[q] = call[q]
    BY <1>1, <1>4 DEF CallStop, NoCall
  <2>2. UNCHANGED <<document, instance, server, page>> /\ call[p].pc = "idle"
    BY <1>4 DEF CallStop
  <2> QED
    BY <1>2, <2>1, <2>2, CommandRest
<1>5. CASE StopAnswers(p)
  <2>1. PICK answer \in {"error", "stopped"} : call' = [call EXCEPT ![p] = Answered(answer)]
    BY <1>5 DEF StopAnswers
  <2>2. /\ call'[p].pc = "answered" /\ call'[p].server = NoServer /\ call'[p].answer = answer
        /\ \A q \in Page : q # p => call'[q] = call[q]
    BY <1>1, <2>1, Records
  <2>3. /\ UNCHANGED <<document, instance, server, page>>
        /\ call[p].pc = "drain" /\ server[call[p].server].stage \in Finished
    BY <1>5 DEF StopAnswers
  <2>4. page[p].mounted /\ ~page[p].overtaken => Status = "stopped"
    BY <2>3 DEF Rest, Told
  <2> QED
    BY <2>1, <2>2, <2>3, <2>4, CommandRest
<1>6. CASE QueryAnswers(p)
  <2>1. /\ call'[p].pc = "answered" /\ call'[p].server = NoServer /\ call'[p].answer = Status
        /\ \A q \in Page : q # p => call'[q] = call[q]
    BY <1>1, <1>6, Records DEF QueryAnswers
  <2>2. /\ UNCHANGED <<document, instance, server>>
        /\ call[p].pc = "query" /\ Overtakes(p)
    BY <1>6 DEF QueryAnswers
  <2>3. Status' = Status
    BY <2>2 DEF Status
  <2>4. \A q \in Page : q # p => /\ page'[q].mounted = page[q].mounted
                                 /\ page'[q].shows = page[q].shows
                                 /\ page'[q].overtaken = page[q].overtaken
    <3>1. \A q \in Page : page[q].overtaken \in BOOLEAN
      BY Fields DEF Pages
    <3> QED
      BY <2>2, <2>3, <3>1, OvertakesType
  <2> QED
    BY <1>2, <2>1, <2>2, <2>4, CommandRest
<1>7. CASE Hear(p) /\ call[p].answer = "error"
  <2>1. /\ call'[p].pc = "query" /\ call'[p].server = NoServer
        /\ \A q \in Page : q # p => call'[q] = call[q]
    BY <1>1, <1>7 DEF Hear, NoCall
  <2>2. UNCHANGED <<document, instance, server, page>> /\ call[p].pc = "answered"
    BY <1>7 DEF Hear
  <2> QED
    BY <1>2, <2>1, <2>2, CommandRest
<1>8. CASE Hear(p) /\ call[p].answer # "error"
  <2>1. /\ call'[p] = NoCall /\ \A q \in Page : q # p => call'[q] = call[q]
    BY <1>1, <1>8 DEF Hear
  <2>2. UNCHANGED <<document, instance, server>> /\ call[p].pc = "answered" /\ Shows(p)
    BY <1>8 DEF Hear
  <2>3. /\ page'[p].mounted = page[p].mounted /\ page'[p].overtaken = page[p].overtaken
        /\ page[p].mounted => page'[p].shows = call[p].answer
        /\ \A q \in Page : q # p => page'[q] = page[q]
    BY <1>1, <2>2 DEF Shows, Pages, TypeOK
  <2>4. page[p].mounted /\ ~page[p].overtaken => call[p].answer = Status
    BY <1>8, <2>2 DEF Rest, Told
  <2> QED
    BY <1>2, <2>1, <2>2, <2>3, <2>4, Records, CommandRest
<1>9. CASE Open(p)
  <2>1. /\ call'[p].pc = "query" /\ call'[p].server = NoServer
        /\ \A q \in Page : q # p => call'[q] = call[q]
    BY <1>1, <1>9 DEF Open, NoCall
  <2>2. UNCHANGED <<document, instance, server>> /\ call[p].pc = "idle"
    BY <1>9 DEF Open
  <2>3. \A q \in Page : q # p => page'[q] = page[q]
    BY <1>9 DEF Open, TypeOK
  <2> QED
    BY <1>2, <2>1, <2>2, <2>3, CommandRest
<1>10. CASE Leave(p)
  <2>1. UNCHANGED <<document, lock, instance, server, call>>
    BY <1>10 DEF Leave
  <2>2. \A q \in Page : page'[q] = page[q] \/ ~page'[q].mounted
    BY <1>10 DEF Leave, Left, TypeOK
  <2>3. Status' = Status
    BY <2>1 DEF Status
  <2>4. Told' /\ PageTellsTruth'
    BY <2>1, <2>2, <2>3 DEF Rest, Told, PageTellsTruth
  <2> QED
    BY <2>1, <2>4 DEF Rest, Locked, Asked, Untouched, CanBeStopped
<1> QED
  BY <1>3, <1>4, <1>5, <1>6, <1>7, <1>8, <1>9, <1>10

(* A step under the mutex overtakes every page but its own.                *)
LEMMA OvertakenRest ==
  ASSUME TypeOK, Rest, NEW p \in Page, Overtakes(p),
         \A q \in Page : q # p => call'[q] = call[q],
         call'[p].pc # "idle",
         call'[p].pc = "drain" => Status' = "stopped",
         call'[p].pc = "answered" /\ call'[p].answer # "error" => call'[p].answer = Status'
  PROVE  Told' /\ PageTellsTruth'
<1>1. \A q \in Page : q # p => /\ page'[q].mounted = page[q].mounted
                               /\ page'[q].shows = page[q].shows
                               /\ ~page'[q].overtaken => ~page[q].overtaken /\ Status' = Status
  BY OvertakesType, Fields
<1> QED
  BY <1>1 DEF Rest, Told, PageTellsTruth

LEMMA StartLockedRest ==
  ASSUME TypeOK, Rest, NEW p \in Page, StartLocked(p)
  PROVE  Rest'
<1>1. /\ call[p].pc = "start" /\ call[p].server = NoServer /\ call[p] \in Calls
      /\ \A q \in Page : call[q].pc # "bind"
      /\ UNCHANGED <<document, server>> /\ Overtakes(p)
  BY Fields, NobodyBinds DEF StartLocked, TypeOK
<1>2. CASE call' = [call EXCEPT ![p] = Answered("error")]
           /\ instance' \in {instance, NoServer}
           /\ (instance' = NoServer => instance = NoServer \/ Status = "stopped")
  <2>1. /\ call'[p].pc = "answered" /\ call'[p].answer = "error" /\ call'[p].server = NoServer
        /\ \A q \in Page : q # p => call'[q] = call[q]
    BY <1>2, Records DEF TypeOK
  <2>2. Told' /\ PageTellsTruth'
    BY <1>1, <2>1, OvertakenRest
  <2>3. Locked' /\ Asked'
    BY <1>1, <2>1 DEF Rest, Locked, Asked
  <2>4. Untouched'
    BY <1>1, <1>2, <2>1 DEF Rest, Untouched
  <2>5. CanBeStopped'
    BY <1>1, <1>2, <2>1, Fields DEF Rest, CanBeStopped, Status
  <2> QED
    BY <2>2, <2>3, <2>4, <2>5 DEF Rest
<1>3. CASE call' = [call EXCEPT ![p].pc = "bind"] /\ instance' = NoServer /\ Status = "stopped"
  <2>1. /\ call'[p].pc = "bind" /\ call'[p].answer = call[p].answer
        /\ call'[p].server = NoServer
        /\ call'[p].rules = call[p].rules /\ call'[p].saved = call[p].saved
        /\ \A q \in Page : q # p => call'[q] = call[q]
    BY <1>1, <1>3 DEF Calls, TypeOK
  <2>2. Told' /\ PageTellsTruth'
    BY <1>1, <2>1, OvertakenRest
  <2>3. Locked'
    BY <1>1, <1>3, <2>1 DEF Rest, Locked
  <2>4. Asked'
    BY <1>1, <2>1 DEF Rest, Asked
  <2>5. Untouched'
    BY <1>3 DEF Untouched
  <2>6. CanBeStopped'
    BY <1>1, <1>3, <2>1, Fields DEF Rest, CanBeStopped, Status
  <2> QED
    BY <2>2, <2>3, <2>4, <2>5, <2>6 DEF Rest
<1> QED
  BY <1>2, <1>3, Fields DEF StartLocked

LEMMA BindFailsRest ==
  ASSUME TypeOK, Rest, NEW p \in Page, BindFails(p)
  PROVE  Rest'
<1>1. /\ call'[p].pc = "answered" /\ call'[p].answer = "error" /\ call'[p].server = NoServer
      /\ \A q \in Page : q # p => call'[q] = call[q]
  BY Records DEF BindFails, TypeOK
<1>2. UNCHANGED <<document, instance, server>> /\ Overtakes(p) /\ call[p].pc = "bind"
  BY DEF BindFails
<1>3. Told' /\ PageTellsTruth'
  BY <1>1, <1>2, OvertakenRest
<1>4. Locked' /\ Asked'
  BY <1>1, <1>2 DEF Rest, Locked, Asked
<1>5. Untouched'
  BY <1>1, <1>2 DEF Rest, Untouched
<1>6. CanBeStopped'
  <2>1. call[p].server = NoServer
    BY <1>2 DEF TypeOK
  <2> QED
    BY <1>1, <1>2, <2>1, Fields DEF Rest, CanBeStopped
<1> QED
  BY <1>3, <1>4, <1>5, <1>6 DEF Rest

LEMMA BindSucceedsRest ==
  ASSUME TypeOK, Rest, NEW p \in Page, NEW s \in Server, BindSucceeds(p, s)
  PROVE  Rest'
<1>1. /\ call'[p].pc = "answered" /\ call'[p].answer = "running" /\ call'[p].server = NoServer
      /\ \A q \in Page : q # p => call'[q] = call[q]
  BY Records DEF BindSucceeds, TypeOK
<1>2. /\ UNCHANGED document /\ instance' = s /\ Overtakes(p)
      /\ call[p].pc = "bind" /\ call[p].server = NoServer /\ instance = NoServer
      /\ \A q \in Page : q # p => call[q].pc # "bind"
      /\ \A q \in Page : call[q].server # s
  <2>1. \A q \in Page : q # p => call[q].pc # "bind"
    BY DEF BindSucceeds, TypeOK
  <2> QED
    BY <2>1 DEF BindSucceeds, TypeOK, Rest, Locked
<1>3. server'[s].stage = "serving" /\ \A t \in Server : t # s => server'[t] = server[t]
  BY DEF BindSucceeds, TypeOK
<1>4. Status' = "running"
  BY <1>2, <1>3, Absences DEF Status, Finished
<1>5. Told' /\ PageTellsTruth'
  BY <1>1, <1>2, <1>4, OvertakenRest
<1>6. Locked' /\ Asked'
  BY <1>1, <1>2 DEF Rest, Locked, Asked
<1>7. Untouched'
  BY <1>1, <1>2, <1>3, Absences DEF Rest, Untouched
<1>8. CanBeStopped'
  BY <1>1, <1>2, <1>3, Absences DEF Rest, CanBeStopped
<1> QED
  BY <1>5, <1>6, <1>7, <1>8 DEF Rest

LEMMA StopTakesRest ==
  ASSUME TypeOK, Rest, NEW p \in Page, StopTakes(p)
  PROVE  Rest'
<1>1. /\ UNCHANGED document /\ instance' = NoServer /\ Overtakes(p)
      /\ call[p].pc = "stop" /\ call[p].server = NoServer /\ call[p] \in Calls
      /\ \A q \in Page : call[q].pc # "bind"
  BY Fields, NobodyBinds DEF StopTakes, TypeOK
<1>2. Status' = "stopped"
  BY <1>1 DEF Status
<1>3. CASE instance = NoServer
  <2>1. /\ call'[p].pc = "answered" /\ call'[p].answer = "stopped" /\ call'[p].server = NoServer
        /\ \A q \in Page : q # p => call'[q] = call[q]
        /\ UNCHANGED server
    BY <1>3, Records DEF StopTakes, TypeOK
  <2>2. Told' /\ PageTellsTruth'
    BY <1>1, <1>2, <2>1, OvertakenRest
  <2>3. Locked' /\ Asked' /\ Untouched'
    BY <1>1, <2>1 DEF Rest, Locked, Asked, Untouched
  <2>4. CanBeStopped'
    BY <1>1, <1>3, <2>1, Fields DEF Rest, CanBeStopped
  <2> QED
    BY <2>2, <2>3, <2>4 DEF Rest
<1>4. CASE instance # NoServer
  <2>1. /\ call'[p].pc = "drain" /\ call'[p].server = instance
        /\ \A q \in Page : q # p => call'[q] = call[q]
    BY <1>1, <1>4 DEF StopTakes, TypeOK, Calls
  <2>2. \A t \in Server : t # instance => server'[t] = server[t]
    BY <1>4 DEF StopTakes, TypeOK
  <2>3. Told' /\ PageTellsTruth'
    BY <1>1, <1>2, <2>1, OvertakenRest
  <2>4. Locked' /\ Asked' /\ Untouched'
    BY <1>1, <2>1 DEF Rest, Locked, Asked, Untouched
  <2>5. CanBeStopped'
    <3>1. ASSUME NEW s \in Server, server'[s].stage \notin Finished
          PROVE  \E q \in Page : call'[q].server = s
      <4>1. CASE s = instance
        BY <2>1, <4>1
      <4>2. CASE s # instance
        <5>1. PICK q \in Page : call[q].server = s
          BY <2>2, <3>1, <4>2 DEF Rest, CanBeStopped
        <5>2. q # p
          BY <1>1, <5>1, Fields
        <5> QED
          BY <2>1, <5>1, <5>2
      <4> QED
        BY <4>1, <4>2
    <3> QED
      BY <3>1 DEF CanBeStopped
  <2> QED
    BY <2>3, <2>4, <2>5 DEF Rest
<1> QED
  BY <1>3, <1>4

LEMMA OutsideRest ==
  ASSUME TypeOK, Rest,
         \/ \E r \in Rules : SaveRules(r)
         \/ \E content \in Rules \cup {Unreadable} : OutsideWrites(content)
  PROVE  Rest'
<1>1. MarksStarts /\ UNCHANGED <<instance, server, page>>
  BY DEF SaveRules, OutsideWrites
<1>2. Status' = Status
  BY <1>1 DEF Status
<1>3. \A p \in Page : /\ call'[p].pc = call[p].pc /\ call'[p].rules = call[p].rules
                      /\ call'[p].server = call[p].server
                      /\ call'[p].answer = call[p].answer
                      /\ call[p].pc \in {"start", "bind"} => call'[p].saved
  BY <1>1, RulesType
<1>4. Locked' /\ Asked'
  BY <1>1, <1>3 DEF Rest, Locked, Asked
<1>5. Untouched' /\ CanBeStopped'
  BY <1>1, <1>3 DEF Rest, Untouched, CanBeStopped
<1>6. Told' /\ PageTellsTruth'
  BY <1>1, <1>2, <1>3 DEF Rest, Told, PageTellsTruth
<1> QED
  BY <1>4, <1>5, <1>6 DEF Rest

LEMMA SameRest ==
  ASSUME Rest, UNCHANGED <<document, instance, server, call, page>>
  PROVE  Rest'
BY DEF Rest, Locked, Asked, Untouched, Told, CanBeStopped, PageTellsTruth, Status

LEMMA StepInv == IInv /\ [Next]_vars => IInv'
<1> SUFFICES ASSUME TypeOK, Rest, [Next]_vars PROVE TypeOK' /\ Rest'
  BY DEF IInv, Rest
<1>1. TypeOK'
  BY TypeStep
<1>2. CASE (UNCHANGED vars) \/ OutsideListens
  BY <1>1, <1>2, SameRest DEF vars, OutsideListens
<1>3. ASSUME NEW p \in Page, PageStep(p) PROVE Rest'
  BY <1>3, CommandsRest, StartLockedRest, BindFailsRest, BindSucceedsRest, StopTakesRest,
     ServersRest DEF PageStep, Command
<1> QED
  BY <1>1, <1>2, <1>3, ServersRest, OutsideRest DEF Next

LEMMA InitInv == Init => IInv
<1> SUFFICES ASSUME Init PROVE IInv
  OBVIOUS
<1>1. Idle("unused") \in Servers /\ Idle("unused").stage = "unused"
  BY Records DEF Stage, Finished
<1>2. Left \in Pages /\ Left.mounted = FALSE
  BY DEF Left, Pages
<1>3. TypeOK
  BY <1>1, <1>2, Records, Absences DEF Init, TypeOK
<1>4. Rest
  BY <1>1, <1>2, Records DEF Init, Rest, Locked, Asked, Untouched, Told, CanBeStopped,
     PageTellsTruth, Finished
<1> QED
  BY <1>3, <1>4 DEF IInv, Rest

LEMMA Inductive == Spec => []IInv
BY InitInv, StepInv, PTL DEF Spec

-----------------------------------------------------------------------------
(* Every variable keeps its type: the mutex is held by the one command     *)
(* that binds, and a page that waits for nothing shows a state.            *)
THEOREM TypeCorrect == Spec => []TypeOK
BY Inductive, PTL DEF IInv

(* start_relay drops only a finished server and stop_relay keeps the one   *)
(* it has taken until its task has ended: none is lost.                    *)
THEOREM StoppableHeld == Spec => []CanBeStopped
BY Inductive, PTL DEF IInv

(* Each answer tells the state its command has found or made, and setRunning*)
(* asks again after an error.                                              *)
THEOREM TruthHeld == Spec => []PageTellsTruth
BY Inductive, PTL DEF IInv

(* start_relay reads the document once and serves with what it has read.   *)
THEOREM RulesHeld == Spec => RulesInForce
<1>1. ASSUME IInv, [Next]_vars, NEW s \in Server,
             server'[s].stage = "serving", server[s].stage # "serving"
      PROVE  server'[s].rules = document \/ \E p \in Page : lock = p /\ call[p].saved
  <2>1. PICK p \in Page : BindSucceeds(p, s)
    <3>1. \A stage : Idle(stage).stage = stage
      BY Records
    <3>2. ASSUME NEW t \in Server, ServerStep(t) PROVE FALSE
      BY <1>1, <3>1, <3>2 DEF IInv, TypeOK, ServerStep, Accept, RequestEnds, ClosesListener,
         Drained, TaskDies, Servers
    <3>3. ASSUME NEW p \in Page, PageStep(p) PROVE BindSucceeds(p, s)
      <4>1. ASSUME GracePasses(p) PROVE FALSE
        BY <1>1, <3>1, <4>1 DEF IInv, TypeOK, GracePasses
      <4>2. ASSUME StopTakes(p) PROVE FALSE
        BY <1>1, <4>2 DEF IInv, TypeOK, StopTakes, Servers
      <4>3. ASSUME NEW t \in Server, BindSucceeds(p, t) PROVE t = s
        BY <1>1, <4>3 DEF IInv, TypeOK, BindSucceeds
      <4> QED
        BY <1>1, <3>3, <4>1, <4>2, <4>3 DEF PageStep, Command, StartLocked, BindFails,
           StopAnswers, QueryAnswers, Hear, CallStart, CallStop, Open, Leave
    <3> QED
      BY <1>1, <3>2, <3>3 DEF Next, SaveRules, OutsideWrites, OutsideListens, vars
  <2>2. lock = p /\ call[p].pc = "bind"
    BY <1>1, <2>1 DEF IInv, TypeOK, BindSucceeds
  <2>3. server'[s].rules = call[p].rules
    BY <1>1, <2>1 DEF IInv, TypeOK, BindSucceeds
  <2> QED
    BY <1>1, <2>2, <2>3 DEF IInv, Asked
<1> DEFINE InForce ==
      \A s \in Server : server'[s].stage = "serving" /\ server[s].stage # "serving"
        => server'[s].rules = document \/ \E p \in Page : lock = p /\ call[p].saved
<1>2. IInv /\ [Next]_vars => [InForce]_vars
  BY <1>1
<1> QED
  BY <1>2, Inductive, PTL DEF Spec, RulesInForce

(* RelayServer::stop answers when the task and its listener are gone, and  *)
(* start_relay answers in the mutex's turn.                                *)
THEOREM PortHeld == Spec => PortIsFreed
<1>1. ASSUME IInv, [Next]_vars, NEW p \in Page,
             call[p].pc = "bind", call'[p].answer = "error"
      PROVE  foreign \/ \E q \in Page : call[q].pc = "drain"
  <2>1. /\ TypeOK /\ instance = NoServer /\ call[p].answer = "stopped"
        /\ lock = p /\ p # NoPage
    BY <1>1, Fields DEF IInv, Locked, Asked, TypeOK
  <2>2. PortInUse
    <3>1. ASSUME NEW q \in Page, PageStep(q) PROVE BindFails(p)
      <4>1. CASE q = p
        BY <1>1, <2>1, <3>1, <4>1, Records DEF PageStep, Command, StartLocked, BindSucceeds,
           StopTakes, StopAnswers, QueryAnswers, Hear, CallStart, CallStop, Open, Leave,
           GracePasses, TypeOK
      <4>2. CASE q # p
        <5>1. call'[p] = call[p]
          BY <2>1, <3>1, <4>2 DEF PageStep, Command, StartLocked, BindFails, BindSucceeds,
             StopTakes, StopAnswers, QueryAnswers, Hear, CallStart, CallStop, Open, Leave,
             GracePasses, TypeOK
        <5> QED
          BY <1>1, <2>1, <5>1
      <4> QED
        BY <4>1, <4>2
    <3>2. ASSUME NEW s \in Server, ServerStep(s) PROVE FALSE
      BY <1>1, <2>1, <3>2 DEF ServerStep, Accept, RequestEnds, ClosesListener, Drained, TaskDies
    <3>3. ASSUME MarksStarts PROVE FALSE
      BY <1>1, <2>1, <3>3, RulesType
    <3> QED
      BY <1>1, <2>1, <3>1, <3>2, <3>3
         DEF Next, BindFails, SaveRules, OutsideWrites, OutsideListens, vars
  <2>3. ASSUME NEW s \in Server, Listening(s) PROVE \E q \in Page : call[q].pc = "drain"
    <3>1. PICK q \in Page : call[q].server = s
      BY <1>1, <2>1, <2>3, Fields DEF IInv, CanBeStopped, Listening, Finished
    <3> QED
      BY <2>1, <3>1, Fields DEF TypeOK
  <2> QED
    BY <2>2, <2>3 DEF PortInUse
<1> DEFINE Freed ==
      \A p \in Page : call[p].pc = "bind" /\ call'[p].answer = "error"
        => foreign \/ \E q \in Page : call[q].pc = "drain"
<1>2. IInv /\ [Next]_vars => [Freed]_vars
  BY <1>1
<1> QED
  BY <1>2, Inductive, PTL DEF Spec, PortIsFreed

-----------------------------------------------------------------------------
(***************************************************************************)
(* The relay is a switch.                                                  *)
(***************************************************************************)

(* The rules of the instance change with the instance, or when it fails.   *)
LEMMA RunningSame ==
  ASSUME UNCHANGED instance,
         instance # NoServer => /\ server'[instance].rules = server[instance].rules
                                /\ server'[instance].stage = server[instance].stage
  PROVE  Running' = Running
BY DEF Running, Status

LEMMA SwitchStep ==
  ASSUME TypeOK, Rest, [Next]_vars
  PROVE  [Promise!TurnOff \/ \E r \in Rules : Promise!TurnOn(r)]_Running
<1>1. instance # NoServer => /\ instance \in Server
                             /\ server[instance].stage \in {"serving", "failed"}
                             /\ \A p \in Page : call[p].server # instance
  BY DEF TypeOK, Rest, Untouched
<1>2. ASSUME Running' = NoRules
      PROVE  [Promise!TurnOff \/ \E r \in Rules : Promise!TurnOn(r)]_Running
  BY <1>2 DEF Promise!TurnOff
<1>3. ASSUME UNCHANGED <<instance, server>> PROVE Running' = Running
  BY <1>3, RunningSame
<1>4. ASSUME NEW p \in Page, PageStep(p)
      PROVE  [Promise!TurnOff \/ \E r \in Rules : Promise!TurnOn(r)]_Running
  <2>1. CASE StartLocked(p)
    <3>1. UNCHANGED server /\ instance' \in {instance, NoServer}
      BY <2>1 DEF StartLocked
    <3> QED
      BY <1>2, <1>3, <3>1 DEF Running, Status
  <2>2. ASSUME NEW s \in Server, BindSucceeds(p, s)
        PROVE  [Promise!TurnOff \/ \E r \in Rules : Promise!TurnOn(r)]_Running
    <3>1. call[p].rules \in Rules /\ instance = NoServer
      BY <2>2 DEF BindSucceeds, Rest, Asked, Locked
    <3>2. /\ instance' = s /\ instance' # NoServer
          /\ server'[s].stage = "serving" /\ server'[s].rules = call[p].rules
      BY <2>2, Absences DEF BindSucceeds, TypeOK
    <3>3. Running = NoRules /\ Running' = call[p].rules
      BY <3>1, <3>2 DEF Running, Status, Finished
    <3> QED
      BY <3>1, <3>3 DEF Promise!TurnOn
  <2>3. CASE StopTakes(p)
    BY <1>2, <2>3 DEF StopTakes, Running, Status
  <2>4. CASE GracePasses(p)
    <3>1. call[p].server \in Server \cup {NoServer} /\ call[p].server # NoServer
      BY <2>4 DEF GracePasses, TypeOK, Calls
    <3>2. UNCHANGED instance /\ \A s \in Server : s # call[p].server => server'[s] = server[s]
      BY <2>4, <3>1 DEF GracePasses, TypeOK
    <3> QED
      BY <1>1, <3>1, <3>2, RunningSame
  <2> QED
    BY <1>3, <1>4, <2>1, <2>2, <2>3, <2>4 DEF PageStep, Command, BindFails, StopAnswers,
       QueryAnswers, Hear, CallStart, CallStop, Open, Leave
<1>5. ASSUME NEW s \in Server, ServerStep(s)
      PROVE  [Promise!TurnOff \/ \E r \in Rules : Promise!TurnOn(r)]_Running
  <2>1. UNCHANGED instance /\ \A t \in Server : t # s => server'[t] = server[t]
    BY <1>5 DEF ServerStep, Accept, RequestEnds, ClosesListener, Drained, TaskDies, TypeOK
  <2>2. CASE instance # s
    BY <1>1, <2>1, <2>2, RunningSame
  <2>3. CASE TaskDies(s) /\ instance = s
    <3>1. server'[s].stage = "failed"
      BY <2>3, Records DEF TaskDies, TypeOK
    <3> QED
      BY <1>2, <2>1, <2>3, <3>1 DEF Running, Status, Finished
  <2>4. CASE (Accept(s) \/ RequestEnds(s)) /\ instance = s
    <3>1. server'[s].stage = server[s].stage /\ server'[s].rules = server[s].rules
      BY <2>4 DEF Accept, RequestEnds, TypeOK, Servers
    <3> QED
      BY <2>1, <2>4, <3>1, RunningSame
  <2>5. CASE (ClosesListener(s) \/ Drained(s)) /\ instance = s
    BY <1>1, <2>5, Absences DEF ClosesListener, Drained
  <2> QED
    BY <1>5, <2>2, <2>3, <2>4, <2>5 DEF ServerStep
<1> QED
  BY <1>3, <1>4, <1>5 DEF Next, SaveRules, OutsideWrites, OutsideListens, vars

(* RelayLifecycle implements RelaySwitch: no save and no second start      *)
(* changes the rules of a running relay.                                   *)
THEOREM SwitchHeld == Spec => SwitchesOnAndOff
<1>1. Init => Running = NoRules
  BY DEF Init, Running, Status
<1>2. IInv /\ [Next]_vars => [Promise!TurnOff \/ \E r \in Rules : Promise!TurnOn(r)]_Running
  BY SwitchStep DEF IInv, Rest
<1> QED
  BY <1>1, <1>2, Inductive, PTL DEF Spec, SwitchesOnAndOff, Promise!Spec
=============================================================================
