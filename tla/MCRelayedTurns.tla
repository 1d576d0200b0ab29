--------------------------- MODULE MCRelayedTurns ---------------------------
(* Small documents, settings and answers of each dialect.                  *)
EXTENDS RelayedTurns, FiniteSets, TLC

MCModel == [source |-> "asked-for", target |-> "provided"]

(* A turn's text is named after its place, a call after its turn.          *)
At(n) == ToString(n)
Said(n) == <<"said" \o At(n)>>
Picture(form, n) == [form |-> form, ref |-> <<"image/png", At(n)>>]
Text(kind, n) == [is |-> kind, text |-> Said(n)]
Image(form, detail, n) == [is |-> "image_url", url |-> Picture(form, n), detail |-> detail]

Open(f, d) ==
  LET seen == Traffic(Speech(f, d))
  IN With(seen, LAMBDA u : u.is = "call" /\
            ~ \E i \in DOMAIN seen : seen[i].is = "result" /\ seen[i].id = u.id)
FirstOpen(f, d) == IF Open(f, d) = <<>> THEN {} ELSE {Open(f, d)[1]}

ChatTurns(n, open) ==
  LET call(k, args) == Call("call" \o At(n) \o k, "f", args)
  IN {Nameless("user", Str(Said(n))),
      Nameless("developer", Str(Said(n))),
      Message("developer", Str(Said(n)), <<>>, "", "ann"),
      Message("user", Str(Said(n)), <<>>, "", "ann"),
      Nameless("user", Parts(<<Text("text", n), Image("web", "unset", n)>>)),
      Nameless("user", Parts(<<Image("data", "auto", n)>>)),
      Nameless("user", Parts(<<Image("web", "high", n)>>)),
      Nameless("assistant", Str(Said(n))),
      Nameless("user", Null), Nameless("assistant", Null),
      Message("assistant", Absent, <<call("a", "object")>>, "", ""),
      Message("assistant", Str(Said(n)), <<call("a", "object"), call("b", "object")>>, "", ""),
      Message("assistant", Str(<<>>), <<call("a", "other")>>, "", "")}
     \cup UNION {{Result(c.id, "", Str(Said(n))), Result(c.id, c.name, Str(Said(n))),
                  Result(c.id, c.name, Parts(<<Text("text", n)>>))} : c \in open}

ResponsesTurns(n, open) ==
  LET item(role, content) == [is |-> "message", role |-> role, content |-> content]
  IN {item("user", Str(Said(n))),
      item("developer", Str(Said(n))),
      item("user", Parts(<<Text("input_text", n),
                           [is |-> "input_image", url |-> Picture("web", n),
                            detail |-> "auto"]>>)),
      item("assistant", Parts(<<Text("output_text", n)>>)),
      [is |-> "function_call", id |-> "call" \o At(n), name |-> "f", args |-> "object"],
      [is |-> "reasoning"]}
     \cup {[is |-> "function_call_output", id |-> c.id, text |-> Said(n)] : c \in open}

AnthropicTurns(n, open) ==
  LET say(role, content) == [role |-> role, content |-> content]
      use == [is |-> "tool_use", id |-> "call" \o At(n), name |-> "f", args |-> "object"]
      result(c, failed, content) == [is |-> "tool_result", id |-> c.id, error |-> failed,
                                     content |-> content]
      image(source) == [is |-> "image", source |-> source, ref |-> <<"image/png", At(n)>>]
  IN {say("user", Str(Said(n))),
      say("user", Parts(<<Text("text", n), image("url")>>)),
      say("user", Parts(<<image("base64")>>)),
      say("user", Parts(<<image("file")>>)),
      say("assistant", Str(Said(n))),
      say("assistant", Parts(<<Text("text", n), use>>)),
      say("assistant", Parts(<<use, Text("text", n)>>)),
      say("assistant", Parts(<<[is |-> "thinking"], use>>))}
     \cup UNION {{say("user", Parts(<<result(c, FALSE, Str(Said(n)))>>)),
                  say("user", Parts(<<result(c, TRUE, Str(Said(n)))>>)),
                  say("user", Parts(<<result(c, FALSE, Parts(<<Text("text", n)>>)),
                                      Text("text", n), image("url")>>))} : c \in open}

GeminiTurns(n, open) ==
  LET say(role, parts) == [role |-> role, parts |-> parts]
      use(k) == [is |-> "functionCall", id |-> "call" \o At(n) \o k, name |-> "f",
                 args |-> "object"]
      result(c) == [is |-> "functionResponse", id |-> c.id, name |-> c.name,
                    response |-> [json |-> "{json}"]]
      file(mime) == [is |-> "fileData", uri |-> Picture("web", n), mime |-> mime]
  IN {say("user", <<Text("text", n)>>),
      say("user", <<Text("text", n), [is |-> "inlineData", ref |-> <<"image/png", At(n)>>]>>),
      say("user", <<file("")>>),
      say("user", <<file("image/png"), Text("text", n)>>),
      say("model", <<Text("text", n)>>),   \* alone, a prompt for a picture too
      say("model", <<Text("text", n), use("a"), use("b")>>),
      say("model", <<use("a"), Text("text", n)>>),
      say("model", <<[is |-> "executableCode"]>>)}
     \cup UNION {{say("user", <<result(c)>>),
                  say("user", <<Text("text", n), result(c)>>)} : c \in open}

TurnsAt(f, n, open) ==
  CASE f = "chat" -> ChatTurns(n, open)
    [] f = "responses" -> ResponsesTurns(n, open)
    [] f = "anthropic" -> AnthropicTurns(n, open)
    [] f = "gemini" -> GeminiTurns(n, open)
    [] f = "images" -> {[role |-> "user", parts |-> <<Text("text", n)>>]}

-----------------------------------------------------------------------------
(* Settings: a plain one, and what two departures from it make.            *)
Tool == [name |-> "f", kind |-> "function", description |-> "described",
         parameters |-> "schema", strict |-> "unset"]
Tools == {<<>>, <<[Tool EXCEPT !.parameters = "unset"]>>, <<[Tool EXCEPT !.kind = "other"]>>,
          <<Tool, [Tool EXCEPT !.name = "g", !.description = "unset"]>>}
Strict == {<<[Tool EXCEPT !.strict = "yes"]>>, <<[Tool EXCEPT !.parameters = "other"]>>}

Plain(f) ==
  ("tools" :> <<Tool>>) @@
  CASE f = "chat" -> "model" :> "asked-for" @@ "max_completion_tokens" :> 4
    [] f = "responses" -> "model" :> "asked-for" @@ "max_output_tokens" :> 4
    [] f = "anthropic" -> "model" :> "asked-for" @@ "max_tokens" :> 4
    [] f = "gemini" -> "maxOutputTokens" :> 4
    [] f = "images" -> "model" :> "asked-for"

Set(field, values) == {field :> v : v \in values}
ChatChoices == {Choice(m, "") : m \in {"auto", "required", "none", "whim"}}
             \cup {Choice("function", "f")}
AnthropicChoices ==
  {[mode |-> m, name |-> IF m = "tool" THEN "f" ELSE "", disable |-> d] :
     m \in {"auto", "any", "none", "tool"}, d \in BOOLEAN}
GeminiChoices ==
  {[mode |-> m, allowed |-> <<>>] : m \in {"AUTO", "ANY", "NONE", "WHIM"}}
    \cup {[mode |-> m, allowed |-> a] : m \in {"ANY", "AUTO"}, a \in {<<"f">>, <<"f", "g">>}}

Departures(f) ==
  Set("temperature", {1}) \cup Set("foreign", {1}) \cup Set("tools", Tools) \cup
  CASE f = "chat" ->
         Set("tools", Strict) \cup Set("tool_choice", ChatChoices)
           \cup Set("parallel_tool_calls", BOOLEAN) \cup Set("max_tokens", {3, 4})
           \cup Set("reasoning_effort", {"low", "xhigh"}) \cup Set("stream", BOOLEAN)
           \cup Set("stop", {1}) \cup Set("user", {1}) \cup Set("n", {1, 2})
           \cup Set("response_format", {"text", "json"})
    [] f = "responses" ->
         Set("tools", Strict) \cup Set("tool_choice", ChatChoices) \cup Set("stream", BOOLEAN)
           \cup Set("reasoning", {"high", "none"})
    [] f = "anthropic" ->
         Set("tools", Strict) \cup Set("tool_choice", AnthropicChoices)
           \cup Set("stream", BOOLEAN) \cup Set("thinking", {1, 2, 4})
           \cup Set("stop_sequences", {1}) \cup Set("user_id", {1})
    [] f = "gemini" ->
         Set("toolConfig", GeminiChoices) \cup Set("thinkingBudget", {0, 2, 4})
           \cup Set("thinkingLevel", {"MINIMAL", "HIGH", "WHIM"})
           \cup Set("stopSequences", {1})
    [] f = "images" ->
         Set("size", {"1024x1024", "1536x1024", "1024x1536", "auto"}) \cup Set("n", {1, 2})
           \cup Set("quality", {"high"})

Limit == {"max_tokens", "max_completion_tokens", "max_output_tokens", "maxOutputTokens"}
Settings(f) ==
  {a @@ b @@ Plain(f) : a \in Departures(f), b \in Departures(f)}
    \cup {a @@ Drop(Plain(f), {"tools"}) : a \in Departures(f)}
    \cup {a @@ Drop(Plain(f), Limit) : a \in Departures(f)}
    \cup {a @@ Drop(Plain(f), Limit \cup {"tools"}) : a \in Departures(f)}
    \cup (IF f # "gemini" THEN {}
            ELSE {a @@ b : a \in Set("responseModalities", {<<"IMAGE">>, <<"TEXT">>}) \cup {<<>>},
                           b \in Set("aspectRatio", {"1:1", "2:3", "9:16"})
                                   \cup Set("imageSize", {"2K"}) \cup {<<>>}})

Prompt(f) ==
  CASE f \in {"chat", "images"} -> <<>>
    [] f = "responses" -> <<<<"system">>>>
    [] OTHER -> <<[is |-> "text", text |-> <<"system">>]>>

Hello(f) == CHOOSE t \in TurnsAt(f, 1, {}) :
              Turn(f, t) = Texts("user", Said(1))

MCOpenings(f) ==
  {Request(system, <<>>, Plain(f)) : system \in {<<>>, Prompt(f)}}
    \cup {Request(<<>>, <<Hello(f)>>, s) : s \in Settings(f)}
    \cup (IF f # "gemini" THEN {}
            ELSE {Request(<<>>, <<t>>, "responseModalities" :> <<"IMAGE">>) :
                    t \in TurnsAt(f, 1, {})})

MCWritable(f, d) ==
  IF d.settings # Plain(f) THEN {}
    ELSE TurnsAt(f, Len(d.turns) + 1, FirstOpen(f, d))

-----------------------------------------------------------------------------
(* Answers: the kinds of content, ends and counts, not all with all.       *)
Asides == {<<>>, <<"answer">>}
Invocations == {<<>>, <<Call("x", "f", "object")>>,
                <<Call("x", "f", "object"), Call("y", "f", "object")>>}
Broken == <<Call("x", "f", "other")>>

Saying(f, text, calls) ==
  LET said(kind) == IF text = <<>> THEN <<>> ELSE <<[is |-> kind, text |-> text]>>
      used(kind) == Each(LAMBDA c : [is |-> kind, id |-> c.id, name |-> c.name,
                                     args |-> c.args], calls)
  IN CASE f = "chat" -> Assistant(text, calls)
       [] f = "anthropic" -> said("text") \o used("tool_use")
       [] f = "gemini" -> [role |-> "model", parts |-> said("text") \o used("functionCall")]
       [] f = "responses" -> Each(LAMBDA i : ("status" :> "completed") @@ i,
                                  said("message") \o used("function_call"))

Ended(f, content, end, usage, extra) ==
  CASE f = "chat" -> Answer(content, end, usage, extra)
    [] f = "anthropic" ->
         [content |-> content, stop_reason |-> end, usage |-> usage, extra |-> extra]
    [] f = "gemini" ->
         [content |-> content, finishReason |-> end, usage |-> usage, extra |-> extra]
    [] f = "responses" ->
         [output |-> content, status |-> end, usage |-> usage, extra |-> extra]
    [] f = "images" ->
         [data |-> content, format |-> end, usage |-> usage, extra |-> extra]

(* A forced call ends a chat message with "stop".                          *)
EndsAfter(f, calls) ==
  CASE f = "chat" -> IF calls THEN {"tool_calls", "stop"} ELSE {"stop"}
    [] f = "anthropic" -> IF calls THEN {"tool_use"} ELSE {"end_turn", "stop_sequence"}
    [] f = "gemini" -> {"STOP"}
    [] f = "responses" -> {"completed"}
ManyParts == {<<[is |-> "text", text |-> <<"one">>], [is |-> "text", text |-> <<"two">>]>>,
              <<[is |-> "inlineData", ref |-> <<"image/png", "drawn">>]>>,
              <<[is |-> "fileData", uri |-> [form |-> "web", ref |-> "drawn"],
                 mime |-> "image/png"]>>}
CutShort == [chat |-> {"length", "content_filter"}, anthropic |-> {"max_tokens", "refusal"},
             gemini |-> {"MAX_TOKENS", "SAFETY"},
             responses |-> {"max_output_tokens", "content_filter"}]

(* Pictures: none, one, several; of one type, or not.                      *)
Pictures == {<<>>, <<"one">>, <<"one", "two">>}
Painted == {[i \in DOMAIN p |-> [is |-> "inlineData", ref |-> <<t[i], p[i]>>]] :
              p \in Pictures, t \in [1..2 -> {"image/png", "image/webp", "image/bmp"}]}

(* A count that was not sent is zero; at most one total is declared.       *)
Declarations == {{}} \cup {{n} : n \in Count}
Usages(f) ==
  CASE f = "chat" ->
         {u \in [input : Count, output : Count, cached : Count, reasoning : Count,
                 total : Declarations, parts : SUBSET {"cached", "reasoning"}] :
            SaidOrZero(f, u)}
    [] f = "responses" ->
         {u \in [input : Count, output : Count, cached : Count, reasoning : Count,
                 written : 0..1, total : Declarations,
                 parts : {{"cached", "reasoning"}}] :
            SaidOrZero(f, u)}
    [] f = "anthropic" ->
         {u \in [input : Count, output : Count, creation : Count, read : Count,
                 servers : 0..1, parts : SUBSET {"cached"}] :
            SaidOrZero(f, u)}
    [] f = "gemini" ->
         {u \in [prompt : Count, candidates : Count, cached : Count, thoughts : Count,
                 tools : 0..1, total : Declarations,
                 parts : SUBSET {"cached", "reasoning"}] :
            SaidOrZero(f, u)}
    [] f = "images" ->
         [input : Count, output : Count, total : Declarations, details : BOOLEAN]

(* The usual question, alone; the counts vary under one setting of it.     *)
Simple(f, request) ==
  Len(request.turns) = 1 /\ Speech(f, request) = Texts("user", Said(1))

Called(f, request) ==
  IF ToolList(request.settings) = <<>> THEN {<<>>}
    ELSE Invocations \cup IF f \in {"chat", "responses"} THEN {Broken} ELSE {}

Texted(f, request) ==
  LET answered(t, c, e) == Ended(f, Saying(f, t, c), e, <<>>, FALSE)
      usual == EndsAfter(f, FALSE)
      plain(e, usage, extra) == Ended(f, Saying(f, <<"answer">>, <<>>), e, usage, extra)
  IN IF ~Simple(f, request)
       THEN UNION {{answered(<<"answer">>, c, e) : e \in EndsAfter(f, c # <<>>)} :
                     c \in Called(f, request)}
       ELSE UNION {{answered(t, c, e) : e \in EndsAfter(f, c # <<>>) \cup CutShort[f]} :
                     t \in Asides, c \in Called(f, request)}
            \cup {plain(e, <<>>, TRUE) : e \in usual}
            \cup (IF f # "gemini" THEN {}
                    ELSE {Ended(f, [role |-> "model", parts |-> p], "STOP", <<>>, FALSE) :
                            p \in ManyParts})
            \cup (IF Has(request.settings, "temperature") /\ ~Has(request.settings, "tools")
                    THEN {plain(e, <<u>>, FALSE) : e \in usual, u \in Usages(f)} ELSE {})

Drawn(f, request) ==
  LET usage == {<<>>} \cup IF DOMAIN request.settings \subseteq {"model", "responseModalities"}
                             THEN {<<u>> : u \in Usages(f)} ELSE {}
  IN IF f = "images"
       THEN {Ended(f, p, "unset", u, FALSE) : p \in Pictures, u \in usage}
              \cup {Ended(f, p, format, <<>>, extra) :
                      p \in Pictures, format \in {"png", "jpeg", "gif"}, extra \in BOOLEAN}
       ELSE {Ended(f, [role |-> "model", parts |-> p], "STOP", u, FALSE) :
               p \in {q \in Painted : Len(q) = 1}, u \in usage}
              \cup {Ended(f, [role |-> "model", parts |-> p], e, <<>>, extra) :
                      p \in Painted \cup ManyParts, e \in {"unset", "SAFETY"},
                      extra \in BOOLEAN}

(* A request for a picture is one that asks for no words.                  *)
MCAnswers(f, request) ==
  IF \/ f = "images"
     \/ Has(request.settings, "responseModalities") /\ Len(request.turns) = 1
    THEN Drawn(f, request)
    ELSE Texted(f, request)
=============================================================================
