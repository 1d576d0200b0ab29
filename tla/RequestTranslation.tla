------------------------ MODULE RequestTranslation --------------------------
(***************************************************************************)
(* Requests in the four text dialects, and their translation by way of     *)
(* Chat Completions.  The settings of a request are a record of the fields *)
(* that are set, under the names of its dialect; a null is not set.  Tools *)
(* and limits are shared; "foreign" is any field the code does not know.   *)
(***************************************************************************)
EXTENDS DialectContent

CONSTANT MinThinking   \* the least budget of Anthropic, 1024 in the code
ASSUME ThinkingAssumption == MinThinking \in Nat

Format == {"chat", "responses", "anthropic", "gemini"}

Has(s, field) == field \in DOMAIN s
Only(s, fields) == DOMAIN s \subseteq fields
Drop(s, fields) == [f \in DOMAIN s \ fields |-> s[f]]
Keep(s, fields) == [f \in DOMAIN s \cap fields |-> s[f]]
Optional(s, field) == IF Has(s, field) THEN <<s[field]>> ELSE <<>>

(* Settings are put together field by field, of pieces that share none.    *)
Just(field, value) == [f \in {field} |-> value]
Put(s, field, value) ==
  [f \in DOMAIN s \cup {field} |-> IF f = field THEN value ELSE s[f]]
Fields(pieces) ==
  [f \in UNION {DOMAIN pieces[i] : i \in DOMAIN pieces} |->
     pieces[CHOOSE i \in DOMAIN pieces : f \in DOMAIN pieces[i]][f]]

(* Fields under other names, if they are set.  A field that cannot be      *)
(* translated leaves the mark "bad", which has the whole request refused.  *)
Refused == Just("bad", TRUE)
Copy(s, from, to) == IF Has(s, from) THEN Just(to, s[from]) ELSE <<>>
Mapped(s, from, to, Op(_)) ==
  CASE ~Has(s, from) -> <<>>
    [] Has(s, from) /\ Op(s[from]) = Bad -> Refused
    [] OTHER -> Just(to, Op(s[from]))
EachMapped(s, field, Op(_)) ==
  CASE ~Has(s, field) -> <<>>
    [] Has(s, field) /\ AnyBad(Each(Op, s[field])) -> Refused
    [] OTHER -> Just(field, Each(Op, s[field]))

-----------------------------------------------------------------------------
(* Streaming and reasoning are taken out before the body is translated and *)
(* put back after it.                                                      *)
extract_stream(from, source_stream, s) ==
  IF from # "gemini" /\ Has(s, "stream") THEN s["stream"] ELSE source_stream

insert_stream(to, stream, s) ==
  IF stream /\ to # "gemini" THEN Put(s, "stream", TRUE) ELSE s

Efforts == {"minimal", "low", "medium", "high"}
Budget(n) == [is |-> "budget", tokens |-> n]
Effort(e) == IF e \in Efforts THEN [is |-> "effort", effort |-> e] ELSE Bad
thinkingLevel ==
  [minimal |-> "MINIMAL", low |-> "LOW", medium |-> "MEDIUM", high |-> "HIGH"]
LevelEffort(l) ==
  IF \E e \in Efforts : thinkingLevel[e] = l
    THEN Effort(CHOOSE e \in Efforts : thinkingLevel[e] = l) ELSE Bad

parse_anthropic_reasoning(tokens, max_tokens) ==
  IF tokens >= MinThinking /\ \E max \in {max_tokens[i] : i \in DOMAIN max_tokens} : tokens < max
    THEN Budget(tokens) ELSE Bad

parse_gemini_reasoning(s) ==
  CASE Has(s, "thinkingBudget") /\ Has(s, "thinkingLevel") -> Bad
    [] Has(s, "thinkingBudget") /\ ~Has(s, "thinkingLevel") -> Budget(s["thinkingBudget"])
    [] OTHER -> LevelEffort(s["thinkingLevel"])

(* At most one reasoning, or Bad.                                          *)
extract_reasoning(from, s) ==
  CASE from = "chat" /\ Has(s, "reasoning_effort") -> <<Effort(s["reasoning_effort"])>>
    [] from = "responses" /\ Has(s, "reasoning") -> <<Effort(s["reasoning"])>>
    [] from = "anthropic" /\ Has(s, "thinking") ->
         <<parse_anthropic_reasoning(s["thinking"], Optional(s, "max_tokens"))>>
    [] from = "gemini" /\ (Has(s, "thinkingBudget") \/ Has(s, "thinkingLevel")) ->
         <<parse_gemini_reasoning(s)>>
    [] OTHER -> <<>>

ReasoningFields ==
  [chat |-> {"reasoning_effort"}, responses |-> {"reasoning"},
   anthropic |-> {"thinking"}, gemini |-> {"thinkingBudget", "thinkingLevel"}]

insert_reasoning(to, reasoning, s) ==
  LET r == reasoning[1]
      added == CASE r.is = "effort" /\ to = "chat" -> Put(s, "reasoning_effort", r.effort)
                 [] r.is = "effort" /\ to = "responses" -> Put(s, "reasoning", r.effort)
                 [] r.is = "effort" /\ to = "gemini" ->
                      Put(s, "thinkingLevel", thinkingLevel[r.effort])
                 [] r.is = "budget" /\ to = "gemini" -> Put(s, "thinkingBudget", r.tokens)
                 [] r.is = "budget" /\ to = "anthropic" /\ Has(s, "max_tokens")
                      /\ r.tokens >= MinThinking /\ r.tokens < s["max_tokens"] ->
                      Put(s, "thinking", r.tokens)
                 [] OTHER -> Put(s, "bad", TRUE)
  IN IF reasoning = <<>> THEN s ELSE added

-----------------------------------------------------------------------------
(* Tools: [name, kind, description, parameters, strict], of which all but  *)
(* the name may be "unset".                                                *)
IsFunction(t) == t.kind = "function"

responses_tools_to_chat(t) ==
  IF IsFunction(t) /\ t.parameters # "other" THEN t ELSE Bad

chat_tools_to_responses(t) == IF IsFunction(t) THEN t ELSE Bad

convert_anthropic_tools(t) ==
  IF IsFunction(t) /\ t.parameters \in {"schema", "empty"} THEN t ELSE Bad

convert_openai_tools(t) ==
  CASE ~IsFunction(t) \/ t.strict # "unset" \/ t.parameters = "other" -> Bad
    [] t.parameters = "unset" -> [t EXCEPT !.parameters = "empty"]
    [] OTHER -> t

gemini_tools_to_chat(t) == IF t.description = "unset" THEN Bad ELSE t

chat_tools_to_gemini(t) ==
  IF ~IsFunction(t) \/ t.strict # "unset" \/ t.description = "unset" THEN Bad ELSE t

-----------------------------------------------------------------------------
(* Tool choices: [mode, name], with the mode's name in its dialect.        *)
Choice(mode, name) == [mode |-> mode, name |-> name]

(* Responses passes a word through, whatever it is.                        *)
responses_tool_choice_to_chat(c) == c
chat_tool_choice_to_responses(c) == c

gemini_tool_choice_to_chat(c) ==
  CASE c.mode = "ANY" /\ Len(c.allowed) = 1 -> Choice("function", c.allowed[1])
    [] c.mode = "ANY" /\ c.allowed = <<>> -> Choice("required", "")
    [] c.mode = "AUTO" /\ c.allowed = <<>> -> Choice("auto", "")
    [] c.mode = "NONE" /\ c.allowed = <<>> -> Choice("none", "")
    [] OTHER -> Bad

chat_tool_choice_to_gemini(c) ==
  CASE c.mode = "function" -> [mode |-> "ANY", allowed |-> <<c.name>>]
    [] c.mode = "auto" -> [mode |-> "AUTO", allowed |-> <<>>]
    [] c.mode = "required" -> [mode |-> "ANY", allowed |-> <<>>]
    [] c.mode = "none" -> [mode |-> "NONE", allowed |-> <<>>]
    [] OTHER -> Bad

(* Anthropic keeps "no parallel calls" inside the choice.                  *)
anthropic_tool_choice_to_openai(c) ==
  CASE c.mode = "auto" -> Choice("auto", "")
    [] c.mode = "any" -> Choice("required", "")
    [] c.mode = "none" -> Choice("none", "")
    [] c.mode = "tool" -> Choice("function", c.name)
    [] OTHER -> Bad

openai_choice(c, disable) ==
  LET to(mode) == [mode |-> mode, name |-> c.name, disable |-> disable]
  IN CASE c.mode = "auto" -> to("auto")
       [] c.mode = "required" -> to("any")
       [] c.mode = "none" -> [to("none") EXCEPT !.disable = FALSE]
       [] c.mode = "function" -> to("tool")
       [] OTHER -> Bad

(* A mutant: "one at a time" makes a choice where there is none to make.   *)
openai_tool_choice_to_anthropicBug(s, has_tools) ==
  LET disable == Has(s, "parallel_tool_calls") /\ ~s["parallel_tool_calls"]
  IN IF Has(s, "tool_choice")
       THEN Mapped(s, "tool_choice", "tool_choice", LAMBDA c : openai_choice(c, disable))
       ELSE IF disable THEN Just("tool_choice", openai_choice(Choice("auto", ""), TRUE))
              ELSE <<>>

openai_tool_choice_to_anthropic(s, has_tools) ==
  LET disable == Has(s, "parallel_tool_calls") /\ ~s["parallel_tool_calls"]
  IN CASE Has(s, "tool_choice") ->
            Mapped(s, "tool_choice", "tool_choice", LAMBDA c : openai_choice(c, disable))
       [] ~Has(s, "tool_choice") /\ disable /\ has_tools ->
            Just("tool_choice", openai_choice(Choice("auto", ""), TRUE))
       [] OTHER -> <<>>

-----------------------------------------------------------------------------
(* A request: the system prompt where the dialect has one, the turns, the  *)
(* settings.                                                               *)
Request(system, turns, settings) ==
  [system |-> system, turns |-> turns, settings |-> settings]
Checked(r) ==
  IF AnyBad(r.system) \/ AnyBad(r.turns) \/ Has(r.settings, "bad") THEN Bad ELSE r

responses_to_chat(r) ==
  LET s == r.settings
      before == Each(LAMBDA text : Nameless("developer", Str(text)), r.system)
  IN IF ~Only(s, {"model", "max_output_tokens", "tools", "tool_choice", "temperature"})
       THEN Bad
       ELSE Request(<<>>, responses_input_to_chat(r.turns, before),
              Fields(<<Copy(s, "max_output_tokens", "max_completion_tokens"),
                       Keep(s, {"model", "temperature"}),
                       EachMapped(s, "tools", responses_tools_to_chat),
                       Mapped(s, "tool_choice", "tool_choice",
                              responses_tool_choice_to_chat)>>))

anthropic_to_openai_chat(r) ==
  LET s == r.settings
      system == CASE r.system = <<>> -> <<>>
                  [] AnyBad(Each(push_system_parts, r.system)) -> <<Bad>>
                  [] OTHER -> <<Nameless("system", collapse_text_parts(r.system))>>
      serial == Has(s, "tool_choice") /\ s["tool_choice"].disable
  IN IF \/ ~Only(s, {"model", "max_tokens", "tools", "tool_choice", "temperature",
                     "stop_sequences", "user_id"})
        \/ ~Has(s, "max_tokens") \/ system \o r.turns = <<>>
       THEN Bad
       ELSE Request(<<>>, system \o Concat(Each(convert_anthropic_message, r.turns)),
              Fields(<<Keep(s, {"model", "max_tokens", "temperature"}),
                       Copy(s, "stop_sequences", "stop"), Copy(s, "user_id", "user"),
                       EachMapped(s, "tools", convert_anthropic_tools),
                       Mapped(s, "tool_choice", "tool_choice",
                              anthropic_tool_choice_to_openai),
                       IF serial THEN Just("parallel_tool_calls", FALSE) ELSE <<>>>>))

gemini_to_chat(source_model, r) ==
  LET s == r.settings
      system == CASE r.system = <<>> -> <<>>
                  [] AnyBad(Each(push_system_parts, r.system)) -> <<Bad>>
                  [] OTHER -> <<Nameless("system", collapse_text_parts(r.system))>>
  IN IF ~Only(s, {"maxOutputTokens", "temperature", "stopSequences", "tools",
                  "toolConfig"})
       THEN Bad
       ELSE Request(<<>>, system \o Concat(Each(gemini_content_to_chat, r.turns)),
              Fields(<<Just("model", source_model),
                       Copy(s, "maxOutputTokens", "max_completion_tokens"),
                       Keep(s, {"temperature"}), Copy(s, "stopSequences", "stop"),
                       EachMapped(s, "tools", gemini_tools_to_chat),
                       Mapped(s, "toolConfig", "tool_choice", gemini_tool_choice_to_chat)>>))

-----------------------------------------------------------------------------
(* The two fields for the limit must agree.                                *)
Limits(s) == {s[f] : f \in DOMAIN s \cap {"max_tokens", "max_completion_tokens"}}
reconcile_max_tokensBug(s, field) ==   \* a mutant: one of the two is taken
  IF Limits(s) = {} THEN <<>> ELSE Just(field, CHOOSE n \in Limits(s) : TRUE)

reconcile_max_tokens(s, field) ==
  CASE Limits(s) = {} -> <<>>
    [] \E n \in Limits(s) : Limits(s) = {n} -> Just(field, CHOOSE n \in Limits(s) : TRUE)
    [] OTHER -> Refused

(* What the hub lets a request ask for and no target has a field for.      *)
OneTextAnswer(s) ==
  (Has(s, "n") => s["n"] = 1) /\ (Has(s, "response_format") => s["response_format"] = "text")

chat_to_responses(r) ==
  LET s == r.settings
  IN IF \/ ~OneTextAnswer(s)
        \/ ~Only(s, {"model", "max_tokens", "max_completion_tokens", "tools",
                     "tool_choice", "temperature", "n", "parallel_tool_calls",
                     "response_format"})
       THEN Bad
       ELSE Request(<<>>, chat_messages_to_responses(r.turns),
              Fields(<<reconcile_max_tokens(s, "max_output_tokens"),
                       Keep(s, {"model", "temperature"}),
                       EachMapped(s, "tools", chat_tools_to_responses),
                       Mapped(s, "tool_choice", "tool_choice",
                              chat_tool_choice_to_responses)>>))

openai_chat_to_anthropic(r) ==
  LET s == r.settings
      converted == convert_openai_messages(r.turns)
      has_tools == Has(s, "tools") /\ s["tools"] # <<>>
  IN IF \/ ~OneTextAnswer(s) \/ Limits(s) = {} \/ converted.messages = <<>>
        \/ ~Only(s, {"model", "max_tokens", "max_completion_tokens", "tools",
                     "tool_choice", "temperature", "stop", "user", "n",
                     "parallel_tool_calls", "response_format"})
       THEN Bad
       ELSE Request(converted.system, converted.messages,
              Fields(<<reconcile_max_tokens(s, "max_tokens"),
                       Keep(s, {"model", "temperature"}),
                       Copy(s, "stop", "stop_sequences"), Copy(s, "user", "user_id"),
                       EachMapped(s, "tools", convert_openai_tools),
                       openai_tool_choice_to_anthropic(s, has_tools)>>))

chat_to_gemini(r) ==
  LET s == r.settings
      converted == chat_messages_to_gemini(r.turns)
  IN IF \/ ~OneTextAnswer(s)
        \/ ~Only(s, {"model", "max_tokens", "max_completion_tokens", "tools",
                     "tool_choice", "temperature", "stop", "n",
                     "parallel_tool_calls", "response_format"})
        \/ Has(s, "parallel_tool_calls") /\ ~s["parallel_tool_calls"]
       THEN Bad
       ELSE Request(converted.system, converted.contents,
              Fields(<<reconcile_max_tokens(s, "maxOutputTokens"),
                       Keep(s, {"temperature"}), Copy(s, "stop", "stopSequences"),
                       EachMapped(s, "tools", chat_tools_to_gemini),
                       Mapped(s, "tool_choice", "toolConfig", chat_tool_choice_to_gemini)>>))

-----------------------------------------------------------------------------
(* What the target is sent: a body, the model of its URL, and whether it   *)
(* is asked to stream.                                                     *)
Sent(body, model, stream) == [body |-> body, model |-> model, stream |-> stream]

Renamed(s, target_model) == Put(s, "model", target_model)

request_to_chat(from, context, r) ==
  LET clean == [r EXCEPT !.settings =
                  Drop(@, ReasoningFields[from]
                            \cup IF from = "gemini" THEN {} ELSE {"stream"})]
      hub == CASE from = "chat" -> clean
               [] from = "responses" -> responses_to_chat(clean)
               [] from = "anthropic" -> anthropic_to_openai_chat(clean)
               [] from = "gemini" -> gemini_to_chat(context.source_model, clean)
  IN IF AnyBad(extract_reasoning(from, r.settings)) THEN Bad ELSE hub

request_from_chat(to, chat, reasoning, stream) ==
  LET body == CASE to = "chat" -> chat
                [] to = "responses" -> chat_to_responses(chat)
                [] to = "anthropic" -> openai_chat_to_anthropic(chat)
                [] to = "gemini" -> chat_to_gemini(chat)
      full == [body EXCEPT !.settings =
                 insert_stream(to, stream, insert_reasoning(to, reasoning, @))]
  IN IF body = Bad \/ Checked(body) = Bad \/ Checked(full) = Bad THEN Bad
       ELSE Sent(full, IF to = "gemini" THEN <<chat.settings["model"]>> ELSE <<>>, stream)

(* A streamed request is refused when the answer's events could not be     *)
(* translated one by one.                                                  *)
Unstreamable(from, to, chat) ==
  \/ to = "gemini" /\ Has(chat.settings, "tools") /\ chat.settings["tools"] # <<>>
  \/ from = "responses"

translate_request(from, to, context, r) ==
  LET stream == extract_stream(from, context.source_stream, r.settings)
      hub == request_to_chat(from, context, r)
      chat == [hub EXCEPT !.settings = Renamed(@, context.target_model)]
  IN CASE from = to /\ to = "gemini" -> Sent(r, <<context.target_model>>, stream)
       [] from = to /\ to # "gemini" ->
            Sent([r EXCEPT !.settings = Renamed(@, context.target_model)], <<>>, stream)
       [] from # to /\ (hub = Bad \/ Checked(hub) = Bad) -> Bad
       [] OTHER -> IF stream /\ Unstreamable(from, to, chat) THEN Bad
                     ELSE request_from_chat(to, chat,
                            extract_reasoning(from, r.settings), stream)
=============================================================================
