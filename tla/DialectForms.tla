---------------------------- MODULE DialectForms ----------------------------
(***************************************************************************)
(* The forms of the documents clients write and of the answers vendors     *)
(* give, as far as the translation leans on them.                          *)
(***************************************************************************)
EXTENDS DialectMeaning

IsSeq(s) == s \in Seq({s[i] : i \in DOMAIN s})

-----------------------------------------------------------------------------
(* The settings of a document: a choice names a function only when it is   *)
(* one of a function.                                                      *)
ToolForm == [name : STRING, kind : STRING, description : STRING, strict : STRING,
             parameters : {"unset", "empty", "schema", "other"}]
OpenAIChoice(c) == c = Choice(c.mode, c.name) /\ (c.mode = "function" \/ c.name = "")
AnthropicChoice(c) ==
  /\ c = [mode |-> c.mode, name |-> c.name, disable |-> c.disable]
  /\ c.disable \in BOOLEAN /\ (c.mode = "tool" \/ c.name = "")

Written(f, d) ==
  LET s == d.settings
  IN /\ d = Request(d.system, d.turns, s)
     /\ Has(s, "tools") => s["tools"] \in Seq(ToolForm)
     /\ Has(s, "stream") => s["stream"] \in BOOLEAN
     /\ Has(s, "parallel_tool_calls") => s["parallel_tool_calls"] \in BOOLEAN
     /\ Has(s, "tool_choice") =>
          IF f = "anthropic" THEN AnthropicChoice(s["tool_choice"])
            ELSE OpenAIChoice(s["tool_choice"])

-----------------------------------------------------------------------------
(* The parts of a content: a text is a sequence; a picture is referred to  *)
(* by a web address or holds its data, if the reference is not broken; a   *)
(* Gemini client answers a call with an object.                            *)
References == {"web", "data", "broken"}
PlainForm(p) ==
  /\ p.is \in {"text", "input_text", "output_text"} => IsSeq(p.text)
  /\ p.is \in {"image_url", "input_image"} => p.url.form \in References
  /\ p.is = "fileData" => p.uri.form \in References
PlainParts(parts) == IsSeq(parts) /\ \A i \in DOMAIN parts : PlainForm(parts[i])

Content(c) ==
  /\ c = [form |-> c.form, parts |-> c.parts]
  /\ \/ c.form \in {"absent", "null"} /\ c.parts = <<>>
     \/ c.form = "string" /\ c.parts = <<[is |-> "text", text |-> c.parts[1].text]>>
     \/ c.form = "parts"

PartForm(p) ==
  /\ PlainForm(p)
  /\ p.is = "tool_result" =>
       Content(p.content) /\ PlainParts(p.content.parts) /\ p.error \in BOOLEAN
  /\ p.is = "functionResponse" => p.response = [json |-> p.response.json]
PartsForm(parts) == IsSeq(parts) /\ \A i \in DOMAIN parts : PartForm(parts[i])

(* Calls are an assistant's; the roles of Responses are four.              *)
ChatForm(m) ==
  /\ m = Message(m.role, m.content, m.calls, m.id, m.name)
  /\ Content(m.content) /\ PlainParts(m.content.parts) /\ IsSeq(m.calls)
  /\ m.calls # <<>> => m.role = "assistant"

ItemForm(i) ==
  /\ i.is = "message" => /\ Content(i.content) /\ PlainParts(i.content.parts)
                         /\ i.role \in {"user", "assistant", "system", "developer"}
  /\ i.is = "function_call_output" => IsSeq(i.text)

(* The calls of Gemini are the model's, their results are not.             *)
ContentForm(t) ==
  /\ PartsForm(t.parts)
  /\ \A i \in DOMAIN t.parts :
       /\ t.parts[i].is = "functionCall" => t.role = "model"
       /\ t.parts[i].is = "functionResponse" => t.role # "model"

TurnForm(f, t) ==
  CASE f = "chat" -> ChatForm(t)
    [] f = "responses" -> ItemForm(t)
    [] f = "anthropic" -> Content(t.content) /\ PartsForm(t.content.parts)
    [] f = "gemini" -> ContentForm(t)
    [] f = "images" -> /\ t.role = "user" /\ PlainForm(t.parts[1])
                       /\ t.parts = <<t.parts[1]>> /\ t.parts[1].is = "text"

(* Chat keeps its system prompt in the turns; a picture has one prompt.    *)
Worded(f, d) ==
  /\ IsSeq(d.turns) /\ \A i \in DOMAIN d.turns : TurnForm(f, d.turns[i])
  /\ CASE f \in {"chat", "images"} -> d.system = <<>>
       [] f = "responses" -> IsSeq(d.system) /\ \A i \in DOMAIN d.system : IsSeq(d.system[i])
       [] f \in {"anthropic", "gemini"} -> PlainParts(d.system)
  /\ f = "images" => Len(d.turns) <= 1

-----------------------------------------------------------------------------
(* A vendor counts in its own fields, if it counts.                        *)
Counted(f, a) ==
  /\ "usage" \in DOMAIN a /\ a.usage \in Seq(Usage[f])
  /\ \A i \in DOMAIN a.usage : SaidOrZero(f, a.usage[i])

(* It answers as the assistant, and does not answer its own calls; a       *)
(* picture it draws has a type and its bytes.                              *)
Answered(f, a) ==
  CASE f = "chat" -> /\ ChatForm(a.message) /\ a.message.name = ""
                     /\ a.message.content.form # "parts"
    [] f = "responses" -> /\ IsSeq(a.output)
                          /\ \A i \in DOMAIN a.output :
                               /\ a.output[i].is # "function_call_output"
                               /\ a.output[i].is = "message" => IsSeq(a.output[i].text)
    [] f = "anthropic" -> PartsForm(a.content)
    [] f = "gemini" -> /\ a.content.role = "model" /\ ContentForm(a.content)
                       /\ \A i \in DOMAIN a.content.parts :
                            LET p == a.content.parts[i]
                            IN p.is = "inlineData" => p.ref = <<p.ref[1], p.ref[2]>>
    [] f = "images" -> IsSeq(a.data)
=============================================================================
