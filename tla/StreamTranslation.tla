------------------------- MODULE StreamTranslation -------------------------
(***************************************************************************)
(* One streamed answer on its way through the relay: the upstream speaks   *)
(* server-sent events of one wire format, the relay cuts what it reads     *)
(* into events, decodes each, encodes it in the format of the client and   *)
(* keeps nothing but a few flags between two events.                       *)
(*                                                                         *)
(* A piece is what an event carries of the answer: the n-th fragment of    *)
(* text, the call of a tool, a fragment of a call's arguments, the finish. *)
(* Comments and field-by-field refusals are left out; a "foreign" event is *)
(* any that the decoder refuses.  The two formats differ: a stream in the  *)
(* client's own format is passed through as bytes.                         *)
(***************************************************************************)
EXTENDS Naturals, Sequences, FiniteSets

CONSTANTS
  MaxEvents,    \* bound on the events of the upstream
  MaxPieces,    \* bound on the pieces of the answer
  BufferLimit   \* MAX_STREAM_EVENT_BYTES, in events

ASSUME BoundAssumption ==
  MaxEvents \in Nat /\ MaxPieces \in Nat /\ BufferLimit \in Nat

VARIABLES
  from, to,     \* wire formats of the upstream and of the client
  events,       \* what the upstream has sent
  unended,      \* does the last event lack its blank line
  line,         \* the upstream's connection
  said,         \* history: the pieces of the answer that were sent whole
  places,       \* blocks, items or calls the upstream has begun
  read, taken,  \* events read into SseState.buffer, and taken out of it
  upstreamDone, terminalSeen,  \* SseState
  translator,   \* StreamTranslator
  todo,         \* canonical events of the source event being translated
  draft,        \* frames made of it, and then the pending queue
  body,         \* the response body: "open", "closed", "failed"
  client, heard \* how far the client's parser is, and what it understood

upstream == <<from, to, events, unended, line, said, places>>
sse == <<read, taken, upstreamDone, terminalSeen>>
reader == <<client, heard>>
vars == <<upstream, sse, translator, todo, draft, body, reader>>

Format == {"chat", "responses", "anthropic", "gemini"}
Piece == [is : {"text", "call", "arguments", "finish"}, call : Nat, n : Nat]

(* at: the index an event gives, counted from one; 0 is none.  It is that  *)
(* of the choice or candidate, of the call in a choice, or of the content  *)
(* block or output item.                                                   *)
Event == [pieces : Seq(Piece), at : Nat, mark : {"none", "start", "done", "foreign"}]
Canonical == [is : {"start", "text", "call", "arguments", "finish", "terminal"},
              at : Nat, n : Nat]
Frame == [is : {"start", "text", "block", "call", "arguments", "stop", "finish",
                "terminal"}, at : Nat, n : Nat]

(* active: the open block of an Anthropic client, counted from one; 0 is   *)
(* none.  blocks: how many were opened.                                    *)
Translator == [started : BOOLEAN, sawTool : BOOLEAN, active : Nat, blocks : Nat]
Client == [begun : BOOLEAN, open : Nat, names : SUBSET (Nat \X Nat),
           done : BOOLEAN, lost : BOOLEAN]

Init ==
  /\ from \in Format /\ to \in Format \ {from}
  /\ events = <<>> /\ unended = FALSE /\ line = "open" /\ said = <<>> /\ places = 0
  /\ read = 0 /\ taken = 0 /\ upstreamDone = FALSE /\ terminalSeen = FALSE
  /\ translator = [started |-> FALSE, sawTool |-> FALSE, active |-> 0, blocks |-> 0]
  /\ todo = <<>> /\ draft = <<>> /\ body = "open"
  /\ client = [begun |-> to = "gemini", open |-> 0, names |-> {},
               done |-> FALSE, lost |-> FALSE]
  /\ heard = <<>>

-----------------------------------------------------------------------------
(***************************************************************************)
(* The upstream.  n names a fragment by its place in the answer; n of a    *)
(* finish is 1 when the answer stops for its tool calls.  A call is named  *)
(* by its place among the calls of the answer, or among all blocks or      *)
(* items where the format numbers the texts with them.                     *)
(***************************************************************************)
HasBlocks == from \in {"anthropic", "responses"}

CallNames == {said[i].call : i \in {j \in DOMAIN said : said[j].is = "call"}}
Calls == Cardinality({i \in DOMAIN said : said[i].is = "call"})
Finished == \E i \in DOMAIN said : said[i].is = "finish"
Ended == \E i \in DOMAIN events : events[i].mark = "done"

Text == [is |-> "text", call |-> 0, n |-> Len(said) + 1]
Call == [is |-> "call", call |-> places + 1, n |-> places + 1]
Arguments(c, n) == [is |-> "arguments", call |-> c, n |-> n]
Finish == [is |-> "finish", call |-> 0,
           n |-> IF from # "gemini" /\ Calls > 0 THEN 1 ELSE 0]

Carries(pieces, at) == [pieces |-> pieces, at |-> at, mark |-> "none"]
Marks(mark) == [pieces |-> <<>>, at |-> 0, mark |-> mark]

(* Text goes on in the last block or item, or begins one; Chat and Gemini  *)
(* say it in the one choice or candidate that was asked for.               *)
TextPlaces ==
  IF HasBlocks THEN {places + 1} \cup ({places} \ (CallNames \cup {0})) ELSE {1}

(* The blocks of Anthropic come one after the other; the calls of a        *)
(* Gemini candidate come whole.                                            *)
OpenCalls ==
  CASE from = "gemini" -> {}
    [] from = "anthropic" -> CallNames \cap {places}
    [] OTHER -> CallNames

(* The first event carries nothing: a role, a ping, the bounds of a block. *)
(* The second begins a block or an item of which nothing more is said,     *)
(* such as the reasoning of a response.                                    *)
Content ==
  {Carries(<<>>, 0)}
    \cup (IF HasBlocks THEN {Carries(<<>>, places + 1)} ELSE {})
    \cup {Carries(<<Text>>, at) : at \in TextPlaces}
    \cup (IF from = "gemini"
            THEN {Carries(<<Call, Arguments(places + 1, Len(said) + 2)>>, 1)}
            ELSE {Carries(<<Call>>, places + 1)})
    \cup {Carries(<<Arguments(c, Len(said) + 1)>>, c) : c \in OpenCalls}

Endings ==
  CASE from = "responses" -> {[Carries(<<Finish>>, 0) EXCEPT !.mark = "done"]}
    [] from = "anthropic" -> {Carries(<<Finish>>, 0)}
    [] OTHER -> {Carries(<<Finish>>, 1), Carries(<<Text, Finish>>, 1)}

(* The events a vendor may send next.  An answer opens with an event of    *)
(* its own, or with the first that has some content.                       *)
Opening == HasBlocks /\ events = <<>>

Sayable ==
  {Marks("foreign")}
    \cup (IF Opening THEN {Marks("start")} ELSE {})
    \cup (IF ~Opening /\ ~Finished THEN Content \cup Endings ELSE {})
    \cup (IF Finished /\ ~Ended /\ from # "gemini" THEN {Marks("done")} ELSE {})

(* Does an event begin a block, an item or a call?                         *)
BeginsPlace(e) ==
  IF HasBlocks THEN e.at > places ELSE \E i \in DOMAIN e.pieces : e.pieces[i].is = "call"

Sends(e) ==
  /\ Len(events) < MaxEvents /\ Len(said) + Len(e.pieces) <= MaxPieces
  /\ events' = Append(events, e)
  /\ said' = said \o e.pieces
  /\ places' = IF BeginsPlace(e) THEN places + 1 ELSE places

(* The connection lasts as long as the body that reads from it.            *)
Say ==
  /\ line = "open" /\ body = "open"
  /\ \E e \in Sayable : Sends(e)
  /\ UNCHANGED <<from, to, unended, line, sse, translator, todo, draft, body, reader>>

(* The upstream closes: in order, after an event without its blank line,   *)
(* in the middle of one, or by a transport error.                          *)
Close ==
  /\ line = "open" /\ body = "open"
  /\ \/ line' \in {"eof", "reset"} /\ UNCHANGED <<events, said, places, unended>>
     \/ /\ line' = "eof" /\ unended' = TRUE
        /\ \E e \in Sayable : Sends(e)
  /\ UNCHANGED <<from, to, sse, translator, todo, draft, body, reader>>

-----------------------------------------------------------------------------
(***************************************************************************)
(* The body's stream, polled by the server.  It is one task: the pending   *)
(* frames go first, then the events in the buffer, then the next chunk.    *)
(***************************************************************************)
Fails ==
  /\ body' = "failed" /\ todo' = <<>> /\ draft' = <<>>
  /\ UNCHANGED <<upstream, read, translator, reader>>

Idle == body = "open" /\ todo = <<>> /\ draft = <<>>

(* An event without its blank line is taken only when nothing follows.     *)
CanTake ==
  /\ taken < read
  /\ unended /\ taken + 1 = Len(events) => upstreamDone

(* The next chunk brings some events; more than the buffer holds is an     *)
(* error, although each of them would fit.                                 *)
ReadChunk ==
  /\ Idle /\ ~CanTake /\ ~upstreamDone
  /\ \E k \in 1..(Len(events) - read) :
       IF k > BufferLimit
         THEN Fails /\ UNCHANGED <<taken, upstreamDone, terminalSeen>>
         ELSE /\ read' = read + k
              /\ UNCHANGED <<upstream, taken, upstreamDone, terminalSeen, translator,
                             todo, draft, body, reader>>

(* Mutant of ReadFails: a transport error is passed over and read again.   *)
ReadFailsRetries ==
  /\ Idle /\ ~CanTake /\ line = "reset"
  /\ UNCHANGED vars

ReadFails ==
  /\ Idle /\ ~CanTake /\ line = "reset"
  /\ Fails /\ UNCHANGED <<taken, upstreamDone, terminalSeen>>

ReadEnds ==
  /\ Idle /\ ~CanTake /\ ~upstreamDone /\ line = "eof" /\ read = Len(events)
  /\ upstreamDone' = TRUE
  /\ UNCHANGED <<upstream, read, taken, terminalSeen, translator, todo, draft, body,
                 reader>>

(* parse_sse_event: the events [DONE] and message_stop end the stream.     *)
IsTerminal(e) == from \in {"chat", "anthropic"} /\ e.mark = "done"

Terminal == [is |-> "terminal", at |-> 0, n |-> 0]
Start == [is |-> "start", at |-> 0, n |-> 0]

(* Mutant of Position: a call is given the index of its choice.            *)
PositionOfChoice(e, p) == IF from = "chat" THEN 1 ELSE e.at

(* The index of a canonical event is the one its source event gives; a     *)
(* finish is of the first choice.                                          *)
Position(e, p) == IF p.is = "finish" THEN 1 ELSE e.at

(* A completed response says nothing of tools; the translator remembers.   *)
Reason(p) ==
  IF p.is = "finish" /\ from = "responses"
    THEN (IF translator.sawTool THEN 1 ELSE 0)
    ELSE p.n

Decoded(e, p) == [is |-> p.is, at |-> Position(e, p), n |-> Reason(p)]

(* Chat and Gemini have no first event of their own: the first that names  *)
(* the answer is one.                                                      *)
NeedsStart(e) ==
  \/ e.mark = "start"
  \/ from \in {"chat", "gemini"} /\ ~translator.started /\ ~IsTerminal(e)

decode(e) ==
  (IF NeedsStart(e) THEN <<Start>> ELSE <<>>)
    \o [i \in DOMAIN e.pieces |-> Decoded(e, e.pieces[i])]
    \o (IF e.mark = "done" THEN <<Terminal>> ELSE <<>>)

Undecodable(e) == to = "responses" \/ e.mark = "foreign"

TakeEvent ==
  /\ Idle /\ CanTake
  /\ taken' = taken + 1
  /\ LET e == events[taken + 1] IN
     /\ terminalSeen' = (terminalSeen \/ IsTerminal(e))
     /\ IF Undecodable(e)
          THEN Fails /\ UNCHANGED upstreamDone
          ELSE /\ todo' = decode(e)
               /\ UNCHANGED <<upstream, read, upstreamDone, translator, draft, body,
                              reader>>

(* A Gemini stream has no terminal event: the relay adds it at the end.    *)
(* Mutant of Exhausted: the end is reported before the rest of the buffer. *)
ExhaustedEarly == Idle /\ upstreamDone

Exhausted == Idle /\ upstreamDone /\ taken = read
EndOfStream ==
  /\ Exhausted
  /\ IF from = "gemini" /\ ~terminalSeen
       THEN /\ terminalSeen' = TRUE
            /\ IF to = "responses"
                 THEN Fails /\ UNCHANGED <<taken, upstreamDone>>
                 ELSE /\ todo' = <<Terminal>>
                      /\ UNCHANGED <<upstream, read, taken, upstreamDone, translator,
                                     draft, body, reader>>
       ELSE /\ body' = "closed"
            /\ UNCHANGED <<upstream, sse, translator, todo, draft, reader>>

-----------------------------------------------------------------------------
(***************************************************************************)
(* StreamTranslator: remember, then encode.                                *)
(***************************************************************************)
(* Mutant of Remembered: the call of a tool is forgotten.                  *)
RememberedOnlyStart(c) == [translator EXCEPT !.started = @ \/ c.is = "start"]

Remembered(c) ==
  [translator EXCEPT !.started = @ \/ c.is = "start",
                     !.sawTool = @ \/ c.is = "call"]

(* envelope(), the incomplete calls Gemini cannot take, and arguments      *)
(* without a block.                                                        *)
Unencodable(c) ==
  \/ to \in {"chat", "gemini"} /\ ~Remembered(c).started
  \/ to = "gemini" /\ c.is \in {"call", "arguments"}
  \/ to = "anthropic" /\ c.is = "arguments" /\ translator.active = 0

Opened == translator.blocks + 1
BlockStop == [is |-> "stop", at |-> translator.active, n |-> 0]

(* encode_anthropic: the frames of a canonical event and the block that is *)
(* open after them.                                                        *)
AnthropicFrames(c) ==
  CASE c.is = "text" ->
         IF translator.active = 0
           THEN <<[is |-> "block", at |-> Opened, n |-> 0], [c EXCEPT !.at = Opened]>>
           ELSE <<[c EXCEPT !.at = translator.active]>>
    [] c.is = "call" ->
         (IF translator.active = 0 THEN <<>> ELSE <<BlockStop>>)
           \o <<[c EXCEPT !.at = Opened]>>
    [] c.is = "arguments" -> <<[c EXCEPT !.at = translator.active]>>
    [] c.is = "finish" -> (IF translator.active = 0 THEN <<>> ELSE <<BlockStop>>) \o <<c>>
    [] OTHER -> <<c>>

Opens(c) == c.is = "call" \/ (c.is = "text" /\ translator.active = 0)

(* Mutant of AnthropicBlocks: the block of a call is not counted.          *)
AnthropicBlocksUncounted(c) ==
  [active |-> CASE Opens(c) -> Opened
                [] c.is = "finish" -> 0
                [] OTHER -> translator.active,
   blocks |-> IF c.is = "text" /\ translator.active = 0 THEN Opened ELSE translator.blocks]

AnthropicBlocks(c) ==
  [active |-> CASE Opens(c) -> Opened
                [] c.is = "finish" -> 0
                [] OTHER -> translator.active,
   blocks |-> IF Opens(c) THEN Opened ELSE translator.blocks]

(* encode_chat and encode_gemini make one frame of an event; Gemini has    *)
(* none for the start and the end, which frame_translated_event drops.     *)
Frames(c) ==
  CASE to = "anthropic" -> AnthropicFrames(c)
    [] to = "gemini" /\ c.is \in {"start", "terminal"} -> <<>>
    [] OTHER -> <<c>>

Encode ==
  /\ body = "open" /\ todo # <<>>
  /\ LET c == Head(todo) IN
     IF Unencodable(c)
       THEN Fails /\ UNCHANGED <<taken, upstreamDone, terminalSeen>>
       ELSE /\ draft' = draft \o Frames(c)
            /\ todo' = Tail(todo)
            /\ translator' = IF to = "anthropic"
                               THEN [Remembered(c) EXCEPT
                                       !.active = AnthropicBlocks(c).active,
                                       !.blocks = AnthropicBlocks(c).blocks]
                               ELSE Remembered(c)
            /\ UNCHANGED <<upstream, sse, body, reader>>

-----------------------------------------------------------------------------
(***************************************************************************)
(* The client, as the vendors' libraries read a stream: a Chat client      *)
(* collects calls by their index and reads the one choice it asked for, as *)
(* a Gemini client reads the one candidate; an Anthropic client has one    *)
(* open block at a time, and nothing follows the end.  A client that is    *)
(* lost reads on and makes of it what it can.                              *)
(***************************************************************************)
Names(c, at) == {x \in c.names : x[1] = at}

(* The choice, block or call of a fragment: text has a block of its kind.  *)
Fits(c, f) ==
  CASE f.is = "text" -> IF to = "anthropic" THEN c.open = f.at /\ <<f.at, 0>> \in c.names
                                            ELSE f.at = 1
    [] f.is = "arguments" -> /\ \E x \in Names(c, f.at) : x[2] # 0
                             /\ to = "anthropic" => c.open = f.at
    [] f.is \in {"block", "call"} -> Names(c, f.at) = {} /\ c.open = 0
    [] f.is = "stop" -> c.open = f.at
    [] f.is = "finish" -> c.open = 0 /\ f.at = 1
    [] f.is = "terminal" -> c.open = 0
    [] OTHER -> TRUE

Follows(c, f) == ~c.lost /\ ~c.done /\ (c.begun <=> f.is # "start") /\ Fits(c, f)

(* What a fragment means to the client: arguments belong to the call that  *)
(* has their position.                                                     *)
Understood(c, f) ==
  IF f.is \in {"text", "call", "arguments", "finish"}
    THEN <<[is |-> f.is,
            call |-> CASE f.is = "call" -> f.n
                       [] f.is = "arguments" -> (CHOOSE x \in Names(c, f.at) : TRUE)[2]
                       [] OTHER -> 0,
            n |-> f.n]>>
    ELSE <<>>

(* The client's parser after a frame that follows the ones before it.      *)
After(c, f) ==
  [c EXCEPT !.begun = TRUE,
            !.open = CASE f.is \in {"block", "call"} /\ to = "anthropic" -> f.at
                       [] f.is = "stop" -> 0
                       [] OTHER -> @,
            !.names = @ \cup (IF f.is \in {"block", "call"} THEN {<<f.at, f.n>>} ELSE {}),
            !.done = f.is = "terminal"]

Deliver ==
  /\ body = "open" /\ todo = <<>> /\ draft # <<>>
  /\ draft' = Tail(draft)
  /\ LET f == Head(draft) IN
     IF Follows(client, f)
       THEN heard' = heard \o Understood(client, f) /\ client' = After(client, f)
       ELSE client' = [client EXCEPT !.lost = TRUE] /\ UNCHANGED heard
  /\ UNCHANGED <<upstream, sse, translator, todo, body>>

-----------------------------------------------------------------------------
Relay == ReadChunk \/ ReadFails \/ ReadEnds \/ TakeEvent \/ EndOfStream \/ Encode \/ Deliver

Next == Say \/ Close \/ Relay

Spec == Init /\ [][Next]_vars

(* The server polls the body, and every poll is scheduled again.           *)
FairSpec == Spec /\ WF_vars(Relay)

-----------------------------------------------------------------------------
(***************************************************************************)
(* Properties.                                                             *)
(***************************************************************************)
(* Every variable has its type, the relay takes out of its buffer only     *)
(* what it has read, and the open block is one that was opened.            *)
TypeOK ==
  /\ from \in Format /\ to \in Format \ {from}
  /\ events \in Seq(Event) /\ said \in Seq(Piece) /\ unended \in BOOLEAN
  /\ places \in Nat
  /\ line \in {"open", "eof", "reset"}
  /\ taken \in Nat /\ read \in Nat /\ taken <= read /\ read <= Len(events)
  /\ upstreamDone \in BOOLEAN /\ terminalSeen \in BOOLEAN
  /\ translator \in Translator /\ translator.active <= translator.blocks
  /\ todo \in Seq(Canonical) /\ draft \in Seq(Frame)
  /\ body \in {"open", "closed", "failed"}
  /\ client \in Client /\ heard \in Seq(Piece)

(* The five streams the encoders, decode_gemini and the end of a Gemini    *)
(* stream have no answer to.  For an Anthropic client, text after a call   *)
(* is put into the call's block and arguments of an earlier call go to the *)
(* open block; for a Chat client, all calls of a Gemini answer have the    *)
(* index of the candidate; for a Chat or Gemini client, text of a later    *)
(* block or item than the first is of another choice or candidate, which   *)
(* nobody asked for and nothing finishes; and a Gemini stream that is cut  *)
(* ends as if it were whole, with its block open.                          *)
TextAfterCall ==
  \E i, j \in DOMAIN said : i < j /\ said[i].is = "call" /\ said[j].is = "text"
ArgumentsInterleaved ==
  \E i, j \in DOMAIN said :
    i < j /\ said[i].is = "call" /\ said[j].is = "arguments" /\ said[j].call < said[i].call
Displaced ==
  \E i \in DOMAIN events : \E j \in DOMAIN events[i].pieces :
    events[i].pieces[j].is = "text" /\ events[i].at # 1
CutShort == line = "eof" /\ ~Finished

Untranslatable ==
  \/ to = "anthropic" /\ (TextAfterCall \/ ArgumentsInterleaved)
  \/ to = "anthropic" /\ from = "gemini" /\ CutShort
  \/ to = "chat" /\ from = "gemini" /\ Calls > 1
  \/ to \in {"chat", "gemini"} /\ Displaced

(* Whatever a vendor streams but for these five, the client is never lost: *)
(* StreamTranslator's flags open, number and close blocks and name calls   *)
(* so that every frame fits the ones before it, and none follows the end.  *)
ClientFollows == ~Untranslatable => ~client.lost

(* The client understands what was said: the same fragments in the same    *)
(* order, each for its call, with the finish that says whether tools are   *)
(* to run, however the bytes were cut into chunks and also when the stream *)
(* fails later.                                                            *)
UnderstoodAsSaid == ~Untranslatable => heard = SubSeq(said, 1, Len(heard))

(* Nothing is lost in silence: a body that ends without an error has       *)
(* delivered all that was said, and tells a client that its answer is over *)
(* exactly if the upstream said so, for which Gemini has only the end.     *)
EndMeansAll ==
  body = "closed" /\ ~Untranslatable =>
    /\ heard = said
    /\ to # "gemini" => (client.done <=> Ended \/ from = "gemini")

(* When the upstream has closed, the body ends too: the loop of            *)
(* translate_sse cannot turn on an end it has already seen.                *)
StreamEnds == line # "open" ~> body # "open"

=============================================================================
