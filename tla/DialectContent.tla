--------------------------- MODULE DialectContent ---------------------------
(***************************************************************************)
(* The content of conversations in the four text dialects, and its         *)
(* translation by way of the messages of Chat Completions.                 *)
(*                                                                         *)
(* A text is the sequence of the fragments it was joined from; an image is *)
(* a reference and the way it is referred to.  A dialect's parts keep the  *)
(* names of their types.  A translator yields Bad where the code refuses;  *)
(* whatever contains Bad is refused as a whole.                            *)
(***************************************************************************)
EXTENDS Naturals, SequencesExt

Bad == [is |-> "bad"]
AnyBad(s) == \E i \in DOMAIN s : s[i] = Bad
Each(Op(_), s) == [i \in DOMAIN s |-> Op(s[i])]
Concat(s) == FlattenSeq(s)
With(s, Test(_)) == Concat(Each(LAMBDA x : IF Test(x) THEN <<x>> ELSE <<>>, s))

(* What add makes of the items, one after the other.                       *)
Folded(add(_, _), before, items) ==
  LET made[n \in 0..Len(items)] ==
        IF n = 0 THEN before ELSE add(made[n - 1], items[n])
  IN made[Len(items)]

-----------------------------------------------------------------------------
(* A content is absent, null, a string (one text) or an array of parts.    *)
(* Null differs from absent in one place, so what is written as null       *)
(* beside calls counts as absent.                                          *)
Absent == [form |-> "absent", parts |-> <<>>]
Null == [form |-> "null", parts |-> <<>>]
Str(text) == [form |-> "string", parts |-> <<[is |-> "text", text |-> text]>>]
Parts(s) == [form |-> "parts", parts |-> s]
TextOf(c) == Concat(Each(LAMBDA p : p.text, c.parts))

Message(role, content, calls, id, name) ==
  [role |-> role, content |-> content, calls |-> calls, id |-> id, name |-> name]
Nameless(role, content) == Message(role, content, <<>>, "", "")
Result(id, name, content) == Message("tool", content, <<>>, id, name)
Call(id, name, args) == [id |-> id, name |-> name, args |-> args]

collapse_text_parts(parts) ==
  IF Len(parts) = 1 /\ parts[1].is = "text" THEN Str(parts[1].text) ELSE Parts(parts)

(* The last message, when it is one of that role, takes the addition.      *)
Merge(messages, role, extended, message) ==
  IF messages # <<>> /\ Last(messages).role = role
    THEN Append(Front(messages), extended)
    ELSE Append(messages, message)

-----------------------------------------------------------------------------
(* OpenAI Responses: input items.                                          *)
responses_content_to_chat(content, role) ==
  LET part(p) ==
        CASE p.is \in {"input_text", "output_text"} -> [is |-> "text", text |-> p.text]
          [] p.is = "text" /\ content.form = "string" -> p
          [] p.is = "input_image" /\ role = "user" ->
               [is |-> "image_url", url |-> p.url, detail |-> p.detail]
          [] OTHER -> Bad
  IN [content EXCEPT !.parts = Each(part, @)]

responses_item_to_chat(messages, item) ==
  LET content == responses_content_to_chat(item.content, item.role)
      call == Call(item.id, item.name, item.args)
  IN CASE AnyBad(messages) -> messages
       [] ~AnyBad(messages) /\ item.is = "message" ->
            Append(messages, IF AnyBad(content.parts) THEN Bad
                               ELSE Nameless(item.role, content))
       [] ~AnyBad(messages) /\ item.is = "function_call" ->
            Merge(messages, "assistant",
                  [Last(messages) EXCEPT !.calls = Append(@, call)],
                  Message("assistant", Absent, <<call>>, "", ""))
       [] ~AnyBad(messages) /\ item.is = "function_call_output" ->
            Append(messages, Result(item.id, "", Str(item.text)))
       [] OTHER -> Append(messages, Bad)

responses_input_to_chat(items, before) == Folded(responses_item_to_chat, before, items)

chat_content_to_responses(content, role) ==
  LET kind == IF role = "assistant" THEN "output_text" ELSE "input_text"
      part(p) == CASE p.is = "text" -> [is |-> kind, text |-> p.text]
                   [] p.is = "image_url" /\ role = "user" ->
                        [is |-> "input_image", url |-> p.url, detail |-> p.detail]
                   [] OTHER -> Bad
  IN Parts(Each(part, content.parts))

chat_messages_to_responses(messages) ==
  LET call(c) == [is |-> "function_call", id |-> c.id, name |-> c.name, args |-> c.args]
      spoken(m) ==
        LET content == chat_content_to_responses(m.content, m.role)
        IN (CASE m.content.form \in {"absent", "null"} -> <<>>
              [] m.content.form \notin {"absent", "null"} /\ AnyBad(content.parts) -> <<Bad>>
              [] OTHER -> <<[is |-> "message", role |-> m.role, content |-> content]>>)
           \o Each(call, m.calls)
      items(m) ==
        CASE m.role = "tool" ->
               <<[is |-> "function_call_output", id |-> m.id,
                  text |-> IF m.content.form = "string" THEN TextOf(m.content) ELSE <<>>]>>
          [] m.role \in {"system", "developer", "user", "assistant"}
               /\ (m.content.form # "absent" \/ m.calls # <<>>) -> spoken(m)
          [] OTHER -> <<Bad>>
  IN Concat(Each(items, messages))

-----------------------------------------------------------------------------
(* Anthropic Messages: blocks.                                             *)
anthropic_part_to_openai(p) ==
  CASE p.is = "text" -> p
    [] p.is = "image" /\ p.source \in {"url", "base64"} ->
         [is |-> "image_url", detail |-> "unset",
          url |-> [form |-> IF p.source = "url" THEN "web" ELSE "data", ref |-> p.ref]]
    [] OTHER -> Bad

convert_anthropic_tool_use(p) ==
  IF p.args = "object" THEN Call(p.id, p.name, p.args) ELSE Bad

convert_anthropic_tool_result(p) ==
  IF p.error \/ \E i \in DOMAIN p.content.parts : p.content.parts[i].is # "text"
    THEN Bad
    ELSE Result(p.id, "", Str(TextOf(p.content)))

(* Runs of text and images become one user message each; every result, a   *)
(* message of its own.                                                     *)
anthropic_user_part_to_openai(out, p) ==
  LET part == anthropic_part_to_openai(p)
  IN CASE AnyBad(out) -> out
       [] ~AnyBad(out) /\ p.is = "tool_result" ->
            Append(out, convert_anthropic_tool_result(p))
       [] ~AnyBad(out) /\ p.is # "tool_result" /\ part # Bad ->
            Merge(out, "user",
                  [Last(out) EXCEPT !.content = Parts(Append(@.parts, part))],
                  Nameless("user", Parts(<<part>>)))
       [] OTHER -> Append(out, Bad)

flush_user_parts(m) ==
  IF m # Bad /\ m.role = "user"
    THEN [m EXCEPT !.content = collapse_text_parts(@.parts)] ELSE m

anthropic_user_to_openai(content) ==
  LET out == Each(flush_user_parts,
                  Folded(anthropic_user_part_to_openai, <<>>, content.parts))
  IN CASE content.form = "string" -> <<Nameless("user", content)>>
       [] content.form # "string" /\ out = <<>> -> <<Nameless("user", Parts(<<>>))>>
       [] OTHER -> out

(* A mutant: a message of calls alone is refused.                          *)
anthropic_assistant_to_openaiBug(content) ==
  LET texts == With(content.parts, LAMBDA p : p.is = "text")
      calls == Each(convert_anthropic_tool_use,
                    With(content.parts, LAMBDA p : p.is = "tool_use"))
  IN IF texts = <<>> THEN Bad
       ELSE Message("assistant", collapse_text_parts(texts), calls, "", "")

anthropic_assistant_to_openai(content) ==
  LET texts == With(content.parts, LAMBDA p : p.is = "text")
      calls == Each(convert_anthropic_tool_use,
                    With(content.parts, LAMBDA p : p.is = "tool_use"))
      known == \A i \in DOMAIN content.parts : content.parts[i].is \in {"text", "tool_use"}
  IN CASE content.form = "string" -> Nameless("assistant", content)
       [] content.form # "string" /\ (content.parts = <<>> \/ ~known \/ AnyBad(calls)) -> Bad
       [] OTHER -> Message("assistant",
                           IF texts = <<>> THEN Absent ELSE collapse_text_parts(texts),
                           calls, "", "")

convert_anthropic_message(m) ==
  CASE m.role = "user" -> anthropic_user_to_openai(m.content)
    [] m.role = "assistant" -> <<anthropic_assistant_to_openai(m.content)>>
    [] OTHER -> <<Bad>>

openai_image_to_anthropic(p) ==
  CASE p.detail \notin {"unset", "auto"} \/ p.url.form = "broken" -> Bad
    [] OTHER -> [is |-> "image", ref |-> p.url.ref,
                 source |-> IF p.url.form = "web" THEN "url" ELSE "base64"]

openai_part_to_anthropic(p, tool_result) ==
  CASE p.is = "text" -> p
    [] p.is = "image_url" /\ ~tool_result -> openai_image_to_anthropic(p)
    [] OTHER -> Bad

openai_content_to_anthropic(content, tool_result) ==
  [content EXCEPT
     !.parts = Each(LAMBDA p : openai_part_to_anthropic(p, tool_result), @)]

convert_openai_tool_calls(calls) ==
  Each(LAMBDA c : IF c.args # "object" THEN Bad
                    ELSE [is |-> "tool_use", id |-> c.id, name |-> c.name, args |-> c.args],
       calls)

(* A mutant: the parts are added before those there are.                   *)
push_anthropic_messageBug(messages, role, content) ==
  Merge(messages, role,
        [role |-> role, content |-> Parts(content.parts \o Last(messages).content.parts)],
        [role |-> role, content |-> content])

(* Messages of one role in a row become one, of all their parts.           *)
push_anthropic_message(messages, role, content) ==
  Merge(messages, role,
        [role |-> role, content |-> Parts(Last(messages).content.parts \o content.parts)],
        [role |-> role, content |-> content])

convert_openai_message(messages, m) ==
  LET content == openai_content_to_anthropic(m.content, m.role = "tool")
      spoken == IF m.content = Str(<<>>) THEN <<>> ELSE content.parts
      parts == spoken \o convert_openai_tool_calls(m.calls)
      pushed(role, c) == IF AnyBad(c.parts) THEN Append(messages, Bad)
                           ELSE push_anthropic_message(messages, role, c)
      good == ~AnyBad(messages)
  IN CASE AnyBad(messages) -> messages
       [] good /\ m.role = "user" /\ m.content.form \notin {"absent", "null"} /\ m.name = "" ->
            pushed("user", content)
       [] good /\ m.role = "assistant" /\ m.name = "" /\ parts # <<>> ->
            pushed("assistant", IF m.calls = <<>> THEN collapse_text_parts(parts)
                                  ELSE Parts(parts))
       [] good /\ m.role = "tool" /\ ~AnyBad(content.parts) ->
            pushed("user", Parts(<<[is |-> "tool_result", id |-> m.id, error |-> FALSE,
                                    content |-> IF m.content \in {Absent, Null} THEN Str(<<>>)
                                                  ELSE content]>>))
       [] OTHER -> Append(messages, Bad)

-----------------------------------------------------------------------------
(* Gemini: contents of parts.                                              *)
gemini_part_to_chat(p) ==
  CASE p.is = "text" -> p
    [] p.is = "inlineData" -> [is |-> "image_url", detail |-> "unset",
                               url |-> [form |-> "data", ref |-> p.ref]]
    [] p.is = "fileData" -> [is |-> "image_url", detail |-> "unset", url |-> p.uri]
    [] OTHER -> Bad

Json(response) == <<response.json>>   \* the object, serialised

gemini_content_to_chat(content) ==
  LET parts == content.parts
      role == IF content.role = "model" THEN "assistant" ELSE "user"
      said == Each(gemini_part_to_chat,
                   With(parts, LAMBDA p : p.is \notin {"functionCall", "functionResponse"}))
      calls == Each(LAMBDA p : Call(p.id, p.name, p.args),
                    With(parts, LAMBDA p : p.is = "functionCall"))
      results == Each(LAMBDA p : Result(p.id, p.name, Str(Json(p.response))),
                      With(parts, LAMBDA p : p.is = "functionResponse"))
      good == /\ content.role \in {"user", "model"} /\ ~AnyBad(said)
              /\ \A i \in DOMAIN parts :
                   parts[i].is = "functionCall" => parts[i].args = "object"
  IN CASE ~good -> <<Bad>>
       [] good /\ said = <<>> /\ calls = <<>> -> results
       [] OTHER -> Append(results,
                          Message(role, collapse_text_parts(said), calls, "", ""))

openai_image_url_to_gemini(url) ==
  IF url.form = "data" THEN [is |-> "inlineData", ref |-> url.ref]
    ELSE [is |-> "fileData", uri |-> url, mime |-> ""]

chat_content_to_gemini(content, system) ==
  LET part(p) == CASE p.is = "text" -> p
                   [] p.is = "image_url" /\ ~system /\ p.detail \in {"unset", "auto"} ->
                        openai_image_url_to_gemini(p.url)
                   [] OTHER -> Bad
  IN Each(part, content.parts)

(* A result is an object: the one its text spells, or one that holds it.   *)
Response(text) ==
  IF text = <<"{json}">> THEN [json |-> text[1]] ELSE [output |-> text]

chat_message_to_gemini(m) ==
  LET call(c) == IF c.args # "object" THEN Bad
                   ELSE [is |-> "functionCall", id |-> c.id, name |-> c.name,
                         args |-> c.args]
      parts == chat_content_to_gemini(m.content, FALSE) \o Each(call, m.calls)
      response == [is |-> "functionResponse", id |-> m.id, name |-> m.name,
                   response |-> Response(IF m.content.form = "string"
                                           THEN TextOf(m.content) ELSE <<>>)]
  IN CASE m.role = "tool" /\ m.name # "" -> [role |-> "user", parts |-> <<response>>]
       [] m.role \in {"user", "assistant"} /\ parts # <<>> /\ ~AnyBad(parts) ->
            [role |-> IF m.role = "user" THEN "user" ELSE "model", parts |-> parts]
       [] OTHER -> Bad

-----------------------------------------------------------------------------
(* Anthropic and Gemini keep the system prompt apart from the messages, so *)
(* it has to come first.                                                   *)
IsSystem(m) == m.role \in {"system", "developer"}
SystemFirst(messages) ==
  \A i, j \in DOMAIN messages :
    i < j /\ IsSystem(messages[j]) => IsSystem(messages[i])

push_system_parts(p) == IF p.is = "text" THEN p ELSE Bad

SystemParts(messages) ==
  LET parts(m) == IF m.content.form \in {"absent", "null"} THEN <<Bad>>
                  ELSE Each(push_system_parts, m.content.parts)
  IN Concat(Each(parts, With(messages, IsSystem)))
Spoken(messages) == With(messages, LAMBDA m : ~IsSystem(m))

(* Anthropic has no place for the label of a speaker.                      *)
Labelled(m) == IsSystem(m) /\ m.name # ""

convert_openai_messages(messages) ==
  [system |-> IF \E i \in DOMAIN messages : Labelled(messages[i]) THEN <<Bad>>
                ELSE SystemParts(messages),
   messages |-> IF ~SystemFirst(messages) THEN <<Bad>>
                  ELSE Folded(convert_openai_message, <<>>, Spoken(messages))]

chat_messages_to_gemini(messages) ==
  [system |-> SystemParts(messages),
   contents |-> IF ~SystemFirst(messages) THEN <<Bad>>
                  ELSE Each(chat_message_to_gemini, Spoken(messages))]
=============================================================================
