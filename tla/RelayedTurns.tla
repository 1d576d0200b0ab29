---------------------------- MODULE RelayedTurns ----------------------------
(***************************************************************************)
(* A conversation through the relay.  A client of one dialect writes its   *)
(* document turn by turn and sends it; the rules choose an upstream of     *)
(* some dialect; the relay translates the request, the upstream answers,   *)
(* the relay translates the answer; the client takes the answer, and the   *)
(* results of its calls, into the document and may send it again, to the   *)
(* same upstream or another.                                               *)
(***************************************************************************)
EXTENDS DialectForms

CONSTANTS
  MaxTurns,      \* bound on the turns of a document
  Writable(_, _),\* the turns a client may write next, by dialect and document
  Openings(_),   \* the documents a client may begin with
  Answers(_, _), \* what an upstream may answer, by dialect and request
  Model          \* the models: the client's and the rule's

VARIABLES
  client, doc,   \* the client's dialect and its document
  streamed,      \* does the URL ask for a stream (Gemini)
  stage,         \* "writing", "refused", "asked", "answered", "replied", "failed"
  upstream,      \* the dialect of the target tried last
  asked,         \* what the target was sent
  answer, reply, \* the target's answer, and what the client got of it
  kept           \* the upstream whose answer the document ends with

vars == <<client, doc, streamed, stage, upstream, asked, answer, reply, kept>>

Nothing == [is |-> "nothing"]
Nobody == "nobody"

Dialect == Format \cup {"images"}

Init ==
  /\ client \in Dialect
  /\ doc \in Openings(client) /\ Written(client, doc) /\ Worded(client, doc)
  /\ streamed \in IF client = "gemini" THEN BOOLEAN ELSE {FALSE}
  /\ stage = "writing" /\ upstream = Nobody /\ kept = Nobody
  /\ asked = Nothing /\ answer = Nothing /\ reply = Nothing

Context == [source_model |-> Model.source, target_model |-> Model.target,
            source_stream |-> streamed]

Write ==
  /\ stage \in {"writing", "refused"} /\ Len(doc.turns) < MaxTurns
  /\ \E turn \in Writable(client, doc) :
       LET more == [doc EXCEPT !.turns = Append(@, turn)]
       IN Worded(client, more) /\ doc' = more
  /\ stage' = "writing" /\ kept' = Nobody /\ upstream' = Nobody
  /\ UNCHANGED <<client, streamed, asked, answer, reply>>

(* A mutant: the refusal of a request is not returned.                     *)
AskBug(to) ==
  LET sent == translate_request(client, to, Context, doc)
  IN /\ stage \in {"writing", "refused"} /\ doc.turns # <<>> /\ client # "images"
     /\ upstream' = to /\ to # "images"
     /\ stage' = "asked" /\ asked' = IF sent = Bad THEN Nothing ELSE sent
     /\ UNCHANGED <<client, doc, streamed, answer, reply, kept>>

(* Every field of the request is looked at before the target is.           *)
Ask(to) ==
  LET sent == IF "images" \in {client, to}
                THEN translate_image_request(client, to, Context, doc)
                ELSE translate_request(client, to, Context, doc)
  IN /\ stage \in {"writing", "refused"} /\ doc.turns # <<>>
     /\ upstream' = to
     /\ IF sent = Bad THEN stage' = "refused" /\ asked' = Nothing
          ELSE stage' = "asked" /\ asked' = sent
     /\ UNCHANGED <<client, doc, streamed, answer, reply, kept>>

(* Streams have a module of their own.                                     *)
Respond ==
  /\ stage = "asked" /\ ~asked.stream
  /\ \E a \in Answers(upstream, asked.body) :
       Counted(upstream, a) /\ Answered(upstream, a) /\ answer' = a
  /\ stage' = "answered"
  /\ UNCHANGED <<client, doc, streamed, upstream, asked, reply, kept>>

Return ==
  LET back == IF "images" \in {client, upstream}
                THEN translate_image_response(upstream, client, answer)
                ELSE translate_response(upstream, client, answer)
  IN /\ stage = "answered"
     /\ IF back = Bad THEN stage' = "failed" /\ reply' = Nothing
          ELSE stage' = "replied" /\ reply' = back
     /\ UNCHANGED <<client, doc, streamed, upstream, asked, answer, kept>>

-----------------------------------------------------------------------------
(* The client takes the reply into its document as its dialect has it, and *)
(* the results of the calls after it.                                      *)
CallsIn(f, a) == Traffic(AnswerSpeech(f, a))

Taken(f, a) ==
  CASE f = "chat" -> <<a.message>>
    [] f = "anthropic" -> <<[role |-> "assistant", content |-> Parts(a.content)]>>
    [] f = "gemini" -> <<a.content>>
    [] f = "responses" ->
         Each(LAMBDA i :
                CASE i.is = "function_call" ->
                       [is |-> "function_call", id |-> i.id, name |-> i.name,
                        args |-> i.args]
                  [] i.is = "message" ->
                       [is |-> "message", role |-> "assistant",
                        content |-> Parts(<<[is |-> "output_text", text |-> i.text]>>)]
                  [] OTHER -> [is |-> i.is],
              a.output)

ResultsOf(f, calls, named) ==
  CASE f = "chat" ->
         Each(LAMBDA c : Result(c.id, IF named THEN c.name ELSE "", Str(<<"done">>)), calls)
    [] f = "anthropic" /\ calls # <<>> ->
         <<[role |-> "user", content |-> Parts(Each(LAMBDA c :
              [is |-> "tool_result", id |-> c.id, error |-> FALSE,
               content |-> Str(<<"done">>)], calls))]>>
    [] f = "gemini" /\ calls # <<>> ->
         <<[role |-> "user", parts |-> Each(LAMBDA c :
              [is |-> "functionResponse", id |-> c.id, name |-> c.name,
               response |-> [json |-> "{json}"]], calls)]>>
    [] f = "responses" ->
         Each(LAMBDA c : [is |-> "function_call_output", id |-> c.id,
                          text |-> <<"done">>], calls)
    [] OTHER -> <<>>

Continue ==
  /\ stage = "replied" /\ client # "images"
  /\ \E named \in BOOLEAN :
       LET more == Taken(client, reply) \o ResultsOf(client, CallsIn(client, reply), named)
       IN /\ Len(doc.turns) + Len(more) <= MaxTurns
          /\ named => client = "chat" /\ CallsIn(client, reply) # <<>>
          /\ doc' = [doc EXCEPT !.turns = @ \o more]
  /\ stage' = "writing" /\ kept' = upstream /\ upstream' = Nobody
  /\ asked' = Nothing /\ answer' = Nothing /\ reply' = Nothing
  /\ UNCHANGED <<client, streamed>>

Next == Write \/ (\E to \in Dialect : Ask(to)) \/ Respond \/ Return \/ Continue

Spec == Init /\ [][Next]_vars

-----------------------------------------------------------------------------
(* The variables have values of their kind, and every stage has what it    *)
(* was reached with.                                                       *)
TypeOK ==
  /\ client \in Dialect /\ upstream \in Dialect \cup {Nobody}
  /\ kept \in Dialect \cup {Nobody} /\ streamed \in BOOLEAN
  /\ stage \in {"writing", "refused", "asked", "answered", "replied", "failed"}
  /\ stage \in {"asked", "answered", "replied", "failed"} => asked # Nothing
  /\ stage \in {"answered", "replied", "failed"} => answer # Nothing
  /\ stage = "replied" => reply # Nothing

Crossed == upstream # client

(* What the relay is known to leave out of a request without refusing it.  *)
LosesResultParts ==
  client = "chat" /\ upstream \in {"responses", "gemini"}
    /\ \E i \in DOMAIN doc.turns :
         doc.turns[i].role = "tool" /\ doc.turns[i].content.form = "parts"
LosesLabel ==
  client = "chat" /\ upstream \in {"responses", "gemini"}
    /\ \E i \in DOMAIN doc.turns : doc.turns[i].role # "tool" /\ doc.turns[i].name # ""
LosesFileType ==
  client = "gemini"
    /\ \E i \in DOMAIN doc.turns : \E j \in DOMAIN doc.turns[i].parts :
         doc.turns[i].parts[j].is = "fileData" /\ doc.turns[i].parts[j].mime # ""
(* A prompt for a picture is the user's, whoever said it.                  *)
LosesPrompter ==
  client = "gemini" /\ upstream = "images" /\ doc.turns[1].role # "user"
LosesSerial == upstream = "responses" /\ Serial(client, doc.settings)

(* Chat has one text before the calls of a message, so the order inside an *)
(* assistant's message is not kept; a Gemini content's results come first. *)
Reorders ==
  \/ client = "anthropic" /\ \E i \in DOMAIN doc.turns :
       LET p == doc.turns[i].content.parts
       IN \E j, k \in DOMAIN p : j < k /\ p[j].is = "tool_use" /\ p[k].is = "text"
  \/ client = "gemini" /\ \E i \in DOMAIN doc.turns :
       LET p == doc.turns[i].parts
       IN \E j, k \in DOMAIN p :
            j < k /\ \/ p[k].is = "functionResponse" /\ p[j].is # "functionResponse"
                     \/ p[j].is = "functionCall" /\ p[k].is # "functionCall"

(* A request that is sent says to the upstream what the client said: every *)
(* text, image, call and result, by the same speaker and in the same       *)
(* order, except for the losses and the two reorderings named above.       *)
SpeechKept ==
  stage = "asked" /\ Crossed
    /\ ~(LosesResultParts \/ LosesLabel \/ LosesFileType \/ LosesPrompter) =>
    LET said == Speech(client, doc)
        heard == Speech(upstream, asked.body)
    IN IF Reorders THEN Prose(heard) = Prose(said) /\ Traffic(heard) = Traffic(said)
         ELSE heard = said

(* It asks for what the client asked for: limits, tools, the choice among  *)
(* them, calls one at a time (lost to Responses), reasoning, stops, stream *)
(* and the rule's model.                                                   *)
SettingsKept ==
  stage = "asked" =>
    LET s == asked.body.settings
    IN /\ Crossed =>
            /\ Asks(upstream, s) = Asks(client, doc.settings)
            /\ Serial(upstream, s) = (Serial(client, doc.settings) /\ ~LosesSerial)
       /\ "images" \notin {client, upstream} =>
            /\ asked.stream = extract_stream(client, streamed, doc.settings)
            /\ upstream # "gemini" => extract_stream(upstream, FALSE, s) = asked.stream
       /\ Model.target = IF upstream = "gemini" THEN asked.model[1] ELSE s["model"]

(* What crosses into another dialect is a request its vendor accepts.  Its *)
(* settings: the budget of Anthropic lies between the minimum and the      *)
(* limit, which is there; a choice the client did not make is made only    *)
(* among tools, and "one at a time" is said only where calls may be made;  *)
(* every tool for Gemini is described.                                     *)
SettingsAccepted ==
  stage = "asked" /\ Crossed =>
    LET s == asked.body.settings
    IN /\ upstream = "anthropic" =>
            /\ Has(s, "max_tokens")
            /\ Has(s, "thinking") =>
                 s["thinking"] >= MinThinking /\ s["thinking"] < s["max_tokens"]
            /\ Has(s, "tool_choice") =>
                 /\ ToolList(s) # <<>>
                      \/ DOMAIN doc.settings \cap {"tool_choice", "toolConfig"} # {}
                 /\ s["tool_choice"].disable => s["tool_choice"].mode # "none"
       /\ upstream = "gemini" =>
            \A i \in DOMAIN ToolList(s) : ToolList(s)[i].description # "unset"

(* Its turns: the roles of Anthropic alternate; no content of Gemini is    *)
(* empty, and a result for it names its function.                          *)
TurnsAccepted ==
  stage = "asked" /\ Crossed =>
    LET turns == asked.body.turns
    IN /\ upstream = "anthropic" =>
            /\ turns # <<>>
            /\ \A i \in 1..Len(turns) - 1 : turns[i].role # turns[i + 1].role
       /\ upstream = "gemini" =>
            \A i \in DOMAIN turns : turns[i].parts # <<>>
              /\ \A j \in DOMAIN turns[i].parts :
                   turns[i].parts[j].is = "functionResponse" =>
                     turns[i].parts[j].name # ""

TargetAccepts == SettingsAccepted /\ TurnsAccepted

(* The prose of a Gemini answer crosses to the dialects of lists only when *)
(* it is one text.                                                         *)
LosesAnswerParts ==
  /\ upstream = "gemini" /\ client \in {"anthropic", "responses"}
  /\ LET said == With(answer.content.parts, LAMBDA p : p.is # "functionCall")
     IN Len(said) > 1 \/ \E i \in DOMAIN said : said[i].is # "text"
LosesAnswerType ==
  /\ upstream = "gemini" /\ client = "chat"
  /\ \E i \in DOMAIN answer.content.parts :
       answer.content.parts[i].is = "fileData" /\ answer.content.parts[i].mime # ""

(* A reply says what the upstream answered, the text before the calls, and *)
(* ends for the same reason - except for the losses named above, and that  *)
(* Gemini and Responses have no end for calls: such an answer ends a turn, *)
(* and such a reply is the calls' when there are any.                      *)
AnswerKept ==
  stage = "replied" /\ Crossed /\ ~LosesAnswerParts /\ ~LosesAnswerType =>
    LET said == AnswerSpeech(upstream, answer)
        heard == AnswerSpeech(client, reply)
        end == EndedBy(upstream, answer)
        ended == EndedBy(client, reply)
    IN /\ Prose(heard) = Prose(said) /\ Traffic(heard) = Traffic(said)
       /\ \/ ended = end
          \/ upstream = "gemini" /\ end = "tool_calls" /\ ended = "stop"
          \/ /\ client \in {"gemini", "responses"} /\ {end, ended} = {"tool_calls", "stop"}
             /\ (ended = "tool_calls") = CallsMade(upstream, answer)

(* A reply costs what the answer cost: tokens in, out and cached, though   *)
(* the dialects count them differently; no count is below zero or above    *)
(* the largest, and the client's own sums hold.                            *)
WholeCostsTheSame ==
  stage = "replied" /\ Crossed =>
    /\ Len(reply.usage) = Len(answer.usage)
    /\ \A i \in DOMAIN reply.usage :
         /\ reply.usage[i] \in Usage[client] /\ Readable(client, reply.usage[i])
         /\ Cost(client, reply.usage[i]) = Cost(upstream, answer.usage[i])

(* The streamed counts, read by a function of their own, come to the same  *)
(* tokens in and out as those of a whole answer.                           *)
StreamCostsTheSame ==
  stage = "answered" /\ upstream # "images" =>
    \A i \in DOMAIN answer.usage :
      LET u == answer.usage[i]
      IN Readable(upstream, u) =>
           /\ StreamReadable(upstream, u)
           /\ usage_to_chat(upstream, u).input = usage_to_counts(upstream, u).input
           /\ usage_to_chat(upstream, u).output = usage_to_counts(upstream, u).output

(* An answer costs its client what the vendor counted, whole or streamed.  *)
CostKept == WholeCostsTheSame /\ StreamCostsTheSame

(* An upstream that has answered can be sent its own answer back, with the *)
(* results of its calls - unless it is Gemini and the client's dialect     *)
(* does not name the function of a result, or the answer was empty, or a   *)
(* picture, which takes one prompt only.                                   *)
Named(t) == t.role # "tool" \/ t.name # ""
EmptyAnswer ==
  \E i \in DOMAIN doc.turns : Turn(client, doc.turns[i]) = <<>>
ConversationGoesOn ==
  stage = "refused" /\ kept = upstream =>
    \/ EmptyAnswer \/ upstream = "images"
    \/ /\ upstream = "gemini" /\ Traffic(Speech(client, doc)) # <<>>
       /\ client = "chat" => \E i \in DOMAIN doc.turns : ~Named(doc.turns[i])

(* What the upstream answered reaches an Anthropic or Responses client or  *)
(* is refused; it is not omitted, as docs/ARCHITECTURE.md has it of        *)
(* response fields.                                                        *)
NeverOmitted ==
  stage = "replied" /\ Crossed /\ client \in {"anthropic", "responses"} =>
    Prose(AnswerSpeech(client, reply)) = Prose(AnswerSpeech(upstream, answer))
=============================================================================
