--------------------------- MODULE DialectMeaning ---------------------------
(***************************************************************************)
(* What a request or an answer says, whatever its dialect: the reference   *)
(* the translation is held against.  A conversation is the sequence of its *)
(* utterances (a fragment of text, an image, a call, a result) with their  *)
(* speakers; where messages and parts begin and end is layout.             *)
(***************************************************************************)
EXTENDS ImageTranslation

Speaker(role) == CASE role \in {"system", "developer"} -> "system"
                   [] role = "model" -> "assistant"
                   [] OTHER -> role

Texts(by, text) == Each(LAMBDA f : [by |-> by, is |-> "text", text |-> f], text)
Shows(by, how, ref, detail, mime) ==
  <<[by |-> by, is |-> "image", how |-> how, ref |-> ref, mime |-> mime,
     detail |-> IF detail = "auto" THEN "unset" ELSE detail]>>
Calls(c) == <<[by |-> "assistant", is |-> "call", id |-> c.id, name |-> c.name,
               args |-> c.args]>>
Results(id, text) == <<[by |-> "tool", is |-> "result", id |-> id, text |-> text]>>

(* A part, of any dialect, said by someone.                                *)
Utterance(by, p) ==
  CASE p.is \in {"text", "input_text", "output_text"} -> Texts(by, p.text)
    [] p.is \in {"image_url", "input_image"} ->
         Shows(by, p.url.form, p.url.ref, p.detail, "")
    [] p.is = "image" ->
         Shows(by, IF p.source = "url" THEN "web" ELSE "data", p.ref, "unset", "")
    [] p.is = "inlineData" -> Shows(by, "data", p.ref, "unset", "")
    [] p.is = "fileData" -> Shows(by, p.uri.form, p.uri.ref, "unset", p.mime)
    [] p.is \in {"tool_use", "functionCall"} -> Calls(p)
    [] p.is = "tool_result" -> Results(p.id, TextOf(p.content))
    [] p.is = "functionResponse" ->
         Results(p.id, IF "json" \in DOMAIN p.response THEN Json(p.response)
                         ELSE p.response.output)
    [] OTHER -> <<[by |-> by, is |-> p.is]>>

Spoke(by, parts) == Concat(Each(LAMBDA p : Utterance(by, p), parts))

(* A chat message may label its speaker.                                   *)
ChatTurn(m) ==
  LET by == IF m.name = "" THEN Speaker(m.role) ELSE Speaker(m.role) \o m.name
  IN IF m.role = "tool"
       THEN Results(m.id, TextOf(m.content))
       ELSE Spoke(by, m.content.parts) \o Concat(Each(Calls, m.calls))

ResponsesTurn(i) ==
  CASE i.is = "message" -> Spoke(Speaker(i.role), i.content.parts)
    [] i.is = "function_call" -> Calls(i)
    [] i.is = "function_call_output" -> Results(i.id, i.text)
    [] OTHER -> <<[by |-> "assistant", is |-> i.is]>>

Turn(f, t) ==
  CASE f = "chat" -> ChatTurn(t)
    [] f = "responses" -> ResponsesTurn(t)
    [] f = "anthropic" -> Spoke(t.role, t.content.parts)
    [] f \in {"gemini", "images"} -> Spoke(Speaker(t.role), t.parts)

Speech(f, r) ==
  (IF f = "responses" THEN Concat(Each(LAMBDA t : Texts("system", t), r.system))
     ELSE Spoke("system", r.system))
    \o Concat(Each(LAMBDA t : Turn(f, t), r.turns))

Prose(speech) == With(speech, LAMBDA u : u.is \in {"text", "image"})
Traffic(speech) == With(speech, LAMBDA u : u.is \in {"call", "result"})

-----------------------------------------------------------------------------
(* What the settings ask for.                                              *)
FirstOf(s, fields) == {s[f] : f \in DOMAIN s \cap fields}
ToolList(s) ==
  LET plain(t) == [t EXCEPT !.parameters = IF @ = "unset" THEN "empty" ELSE @]
  IN IF Has(s, "tools") THEN Each(plain, s["tools"]) ELSE <<>>

Chosen(f, s) ==
  CASE f = "anthropic" /\ Has(s, "tool_choice") ->
         anthropic_tool_choice_to_openai(s["tool_choice"])
    [] f = "gemini" /\ Has(s, "toolConfig") ->
         gemini_tool_choice_to_chat(s["toolConfig"])
    [] f \in {"chat", "responses"} /\ Has(s, "tool_choice") -> s["tool_choice"]
    [] OTHER -> Choice("auto", "")

ChoiceMade(f, s) ==
  IF ToolList(s) = <<>> /\ Chosen(f, s).mode = "auto" THEN Choice("none", "")
    ELSE Chosen(f, s)

(* Calls one at a time; it says nothing where no call may be made.         *)
Serial(f, s) ==
  /\ ToolList(s) # <<>> /\ ChoiceMade(f, s).mode # "none"
  /\ CASE f = "chat" -> Has(s, "parallel_tool_calls") /\ ~s["parallel_tool_calls"]
       [] f = "anthropic" -> Has(s, "tool_choice") /\ s["tool_choice"].disable
       [] OTHER -> FALSE

Asks(f, s) ==
  [limit |-> FirstOf(s, {"max_tokens", "max_completion_tokens", "max_output_tokens",
                         "maxOutputTokens"}),
   warmth |-> FirstOf(s, {"temperature"}),
   stop |-> FirstOf(s, {"stop", "stop_sequences", "stopSequences"}),
   user |-> FirstOf(s, {"user", "user_id"}),
   effort |-> FirstOf(s, {"reasoning_effort", "reasoning"})
                \cup {e \in Efforts : "thinkingLevel" \in DOMAIN s
                                      /\ thinkingLevel[e] = s["thinkingLevel"]},
   budget |-> FirstOf(s, {"thinking", "thinkingBudget"}),
   shape |-> FirstOf(s, {"size"})
               \cup {z \in DOMAIN ratio : "aspectRatio" \in DOMAIN s
                                           /\ ratio[z] = s["aspectRatio"]},
   tools |-> ToolList(s), choice |-> ChoiceMade(f, s)]

-----------------------------------------------------------------------------
(* What an answer says, why it ended, and what it cost.                    *)
AnswerSpeech(f, a) ==
  CASE f = "chat" -> ChatTurn(a.message)
    [] f = "responses" ->
         Concat(Each(LAMBDA i : IF i.is = "message" THEN Texts("assistant", i.text)
                                  ELSE Calls(i), a.output))
    [] f = "anthropic" -> Spoke("assistant", a.content)
    [] f = "gemini" -> Spoke("assistant", a.content.parts)
    [] f = "images" ->
         LET mime == Mime[IF a.format = "unset" THEN "png" ELSE a.format]
         IN Concat(Each(LAMBDA d : Shows("assistant", "data", <<mime, d>>, "unset", ""),
                        a.data))

CallsMade(f, a) == Len(Traffic(AnswerSpeech(f, a))) > 0

(* What the client takes the end for: its turn, the calls', or a cut.      *)
EndedBy(f, a) ==
  CASE f = "chat" -> IF a.finish = "unset" THEN "stop" ELSE a.finish
    [] f = "responses" -> responses_finish_to_chat(a.status, CallsMade(f, a))
    [] f = "anthropic" -> anthropic_finish_to_chat(a.stop_reason)
    [] f = "gemini" -> IF gemini_finish_to_chat(a.finishReason) = "stop" /\ CallsMade(f, a)
                         THEN "tool_calls" ELSE gemini_finish_to_chat(a.finishReason)
    [] f = "images" -> "stop"
=============================================================================
