------------------------ MODULE ResponseTranslation -------------------------
(***************************************************************************)
(* Whole answers in the four text dialects, and their translation by way   *)
(* of the answer of Chat Completions.  "extra" stands for anything an      *)
(* answer may carry that the target has no place for: a refusal, citations *)
(* or log probabilities, a blocked candidate, an error.  A field of which  *)
(* only the form is checked is left out.                                   *)
(***************************************************************************)
EXTENDS DialectContent, TokenUsage

(* An answer to Chat Completions: one message, why it ended, its counts.   *)
Answer(message, finish, usage, extra) ==
  [message |-> message, finish |-> finish, usage |-> usage, extra |-> extra]

Assistant(text, calls) ==
  Message("assistant", IF calls # <<>> /\ text = <<>> THEN Absent ELSE Str(text),
          calls, "", "")

CountsOf(from, usage) == Each(LAMBDA u : usage_to_counts(from, u), usage)
UsageFor(to, usage) == Each(LAMBDA c : UsageIn(to, c), usage)
AllCount(Test(_), usage) == \A i \in DOMAIN usage : Test(usage[i])

-----------------------------------------------------------------------------
anthropic_finish_to_chat(reason) ==
  CASE reason \in {"unset", "end_turn", "stop_sequence"} -> "stop"
    [] reason = "tool_use" -> "tool_calls"
    [] reason = "max_tokens" -> "length"
    [] OTHER -> "bad"

anthropic_response_to_chat(a) ==
  LET text == Concat(Each(LAMBDA p : p.text,
                          With(a.content, LAMBDA p : p.is = "text")))
      calls == Each(convert_anthropic_tool_use,
                    With(a.content, LAMBDA p : p.is = "tool_use"))
      known == \A i \in DOMAIN a.content : a.content[i].is \in {"text", "tool_use"}
      finish == anthropic_finish_to_chat(a.stop_reason)
  IN IF a.extra \/ ~known \/ AnyBad(calls) \/ finish = "bad"
        \/ ~AllCount(anthropic_usage_counts, a.usage)
       THEN Bad
       ELSE Answer(Assistant(text, calls), finish, CountsOf("anthropic", a.usage), FALSE)

(* Whatever of the request a Responses answer repeats is looked at and left *)
(* out; whatever it adds to the output is refused.                         *)
validate_responses_response_metadata(a) == ~a.extra

(* A candidate that was blocked is refused.                                *)
validate_gemini_safety_ratings(a) == ~a.extra

(* Only an answer that ended, or one cut at its limit, can be mapped.      *)
responses_finish_to_chat(status, has_calls) ==
  CASE status = "completed" -> IF has_calls THEN "tool_calls" ELSE "stop"
    [] status = "max_output_tokens" -> "length"
    [] OTHER -> "bad"

responses_response_to_chat(a) ==
  LET messages == With(a.output, LAMBDA i : i.is = "message")
      items == With(a.output, LAMBDA i : i.is = "function_call")
      text == Concat(Each(LAMBDA i : i.text, messages))
      calls == Each(LAMBDA i : Call(i.id, i.name, i.args), items)
      known == \A i \in DOMAIN a.output : a.output[i].is \in {"message", "function_call"}
      finish == responses_finish_to_chat(a.status, calls # <<>>)
  IN IF \/ ~validate_responses_response_metadata(a) \/ ~known
        \/ \E i \in DOMAIN messages : messages[i].status # "completed"
        \/ finish = "bad" \/ ~AllCount(responses_usage_details, a.usage)
       THEN Bad
       ELSE Answer(Assistant(text, calls), finish, CountsOf("responses", a.usage), FALSE)

gemini_finish_to_chat(reason) ==
  CASE reason \in {"unset", "STOP"} -> "stop"
    [] reason = "MAX_TOKENS" -> "length"
    [] OTHER -> "bad"

(* Of the messages a content makes, the last is the answer.                *)
gemini_response_to_chat(a) ==
  LET messages == gemini_content_to_chat(a.content)
      finish == gemini_finish_to_chat(a.finishReason)
  IN IF ~validate_gemini_safety_ratings(a) \/ messages = <<>> \/ AnyBad(messages)
        \/ finish = "bad"
        \/ ~AllCount(gemini_usage_counts, a.usage)
       THEN Bad
       ELSE Answer(messages[Len(messages)], finish, CountsOf("gemini", a.usage), FALSE)

response_to_chat(from, a) ==
  CASE from = "chat" -> a
    [] from = "responses" -> responses_response_to_chat(a)
    [] from = "anthropic" -> anthropic_response_to_chat(a)
    [] from = "gemini" -> gemini_response_to_chat(a)

-----------------------------------------------------------------------------
(* An answer that is written again is read with these checks first.        *)
parse_chat_response(a) ==
  ~a.extra /\ a.message.role = "assistant" /\ AllCount(chat_usage_counts, a.usage)

SaidText(m) ==
  IF m.content.form = "string" /\ TextOf(m.content) # <<>> THEN <<TextOf(m.content)>>
    ELSE <<>>

chat_finish_to_anthropicBug(reason) ==   \* a mutant: calls end the turn
  CASE reason \in {"unset", "stop", "tool_calls"} -> "end_turn"
    [] reason = "length" -> "max_tokens"
    [] OTHER -> "bad"

chat_finish_to_anthropic(reason) ==
  CASE reason \in {"unset", "stop"} -> "end_turn"
    [] reason = "tool_calls" -> "tool_use"
    [] reason = "length" -> "max_tokens"
    [] OTHER -> "bad"

chat_response_to_anthropic(a) ==
  LET calls == convert_openai_tool_calls(a.message.calls)
      finish == chat_finish_to_anthropic(a.finish)
  IN IF ~parse_chat_response(a) \/ AnyBad(calls) \/ finish = "bad" THEN Bad
       ELSE [content |-> Each(LAMBDA t : [is |-> "text", text |-> t], SaidText(a.message))
                           \o calls,
             stop_reason |-> finish, usage |-> UsageFor("anthropic", a.usage),
             extra |-> FALSE]

chat_response_to_responses(a) ==
  LET status == IF a.finish = "length" THEN "incomplete" ELSE "completed"
      message(t) == [is |-> "message", text |-> t, status |-> status]
      call(c) == [is |-> "function_call", id |-> c.id, name |-> c.name,
                  args |-> c.args, status |-> status]
  IN IF ~parse_chat_response(a)
        \/ a.finish \notin {"unset", "stop", "tool_calls", "length"}
       THEN Bad
       ELSE [output |-> Each(message, SaidText(a.message)) \o Each(call, a.message.calls),
             status |-> IF a.finish = "length" THEN "max_output_tokens" ELSE "completed",
             usage |-> UsageFor("responses", a.usage), extra |-> FALSE]

chat_finish_to_gemini(reason) ==
  CASE reason \in {"unset", "stop", "tool_calls"} -> "STOP"
    [] reason = "length" -> "MAX_TOKENS"
    [] OTHER -> "bad"

chat_response_to_gemini(a) ==
  LET content == chat_message_to_gemini(a.message)
      finish == chat_finish_to_gemini(a.finish)
  IN IF ~parse_chat_response(a) \/ content = Bad \/ finish = "bad" THEN Bad
       ELSE [content |-> content, finishReason |-> finish,
             usage |-> UsageFor("gemini", a.usage), extra |-> FALSE]

response_from_chat(to, a) ==
  CASE to = "chat" -> a
    [] to = "responses" -> chat_response_to_responses(a)
    [] to = "anthropic" -> chat_response_to_anthropic(a)
    [] to = "gemini" -> chat_response_to_gemini(a)

translate_response(from, to, a) ==
  LET chat == response_to_chat(from, a)
  IN CASE from = to -> a
       [] from # to /\ chat = Bad -> Bad
       [] OTHER -> response_from_chat(to, chat)
=============================================================================
