-------------------------- MODULE ImageTranslation --------------------------
(***************************************************************************)
(* Image generation, which OpenAI Images ("images") and Gemini have and    *)
(* the other dialects have not.  A request is one prompt with its          *)
(* settings; an OpenAI answer is a list of encoded images of one format.   *)
(***************************************************************************)
EXTENDS RequestTranslation, ResponseTranslation

ratio == [z \in {"1024x1024", "1536x1024", "1024x1536"} |->
            CASE z = "1024x1024" -> "1:1"
              [] z = "1536x1024" -> "3:2"
              [] z = "1024x1536" -> "2:3"]
size == [r \in {ratio[z] : z \in DOMAIN ratio} |->
           CHOOSE z \in DOMAIN ratio : ratio[z] = r]

Listed(s, from, to, table) ==
  CASE ~Has(s, from) -> <<>>
    [] Has(s, from) /\ s[from] \notin DOMAIN table -> Refused
    [] OTHER -> Just(to, table[s[from]])

openai_image_to_gemini(r) ==
  LET s == r.settings
  IN IF ~Only(s, {"model", "size", "n"}) \/ (Has(s, "n") /\ s["n"] # 1)
       THEN Bad
       ELSE Request(<<>>, <<[role |-> "user", parts |-> r.turns[1].parts]>>,
                    Fields(<<Just("responseModalities", <<"IMAGE">>),
                             Listed(s, "size", "aspectRatio", ratio)>>))

gemini_image_to_openai(model, r) ==
  LET s == r.settings
      one_text == Len(r.turns) = 1 /\ Len(r.turns[1].parts) = 1
                    /\ r.turns[1].parts[1].is = "text"
  IN IF \/ ~Only(s, {"responseModalities", "aspectRatio"}) \/ r.system # <<>>
        \/ Has(s, "responseModalities") /\ s["responseModalities"] # <<"IMAGE">>
        \/ ~one_text
       THEN Bad
       ELSE Request(<<>>, <<[role |-> "user", parts |-> r.turns[1].parts]>>,
                    Fields(<<Just("model", model), Listed(s, "aspectRatio", "size", size)>>))

translate_image_request(from, to, context, r) ==
  LET body == CASE from = "images" /\ to = "gemini" -> openai_image_to_gemini(r)
                [] from = "gemini" /\ to = "images" ->
                     gemini_image_to_openai(context.target_model, r)
                [] from = to ->
                     [r EXCEPT !.settings = Renamed(@, context.target_model)]
                [] OTHER -> Bad
  IN IF context.source_stream \/ body = Bad \/ Checked(body) = Bad THEN Bad
       ELSE Sent(body, IF to = "gemini" THEN <<context.target_model>> ELSE <<>>, FALSE)

-----------------------------------------------------------------------------
Formats == {"png", "jpeg", "webp"}
Mime == [png |-> "image/png", jpeg |-> "image/jpeg", webp |-> "image/webp"]

(* An inline image refers to its bytes by their type and themselves.       *)
openai_image_answer_to_gemini(a) ==
  LET format == IF a.format = "unset" THEN "png" ELSE a.format
      part(data) == [is |-> "inlineData", ref |-> <<Mime[format], data>>]
  IN IF a.extra \/ format \notin Formats \/ ~AllCount(image_usage_counts, a.usage)
       THEN Bad
       ELSE [content |-> [role |-> "model", parts |-> Each(part, a.data)],
             finishReason |-> "unset",
             usage |-> Each(LAMBDA u : ToGeminiUsage(usage_to_counts("images", u)), a.usage),
             extra |-> FALSE]

gemini_image_answer_to_openai(a) ==
  LET parts == a.content.parts
      images == \A i \in DOMAIN parts :
                  parts[i].is = "inlineData"
                    /\ \E f \in Formats : parts[i].ref[1] = Mime[f]
      types == {parts[i].ref[1] : i \in DOMAIN parts}
  IN IF \/ ~validate_gemini_safety_ratings(a) \/ a.finishReason \notin {"unset", "STOP"}
        \/ ~images \/ ~ \A t, u \in types : t = u
        \/ ~AllCount(gemini_image_usage_counts, a.usage)
       THEN Bad
       ELSE [data |-> Each(LAMBDA p : p.ref[2], parts),
             format |-> IF parts = <<>> THEN "unset"
                          ELSE CHOOSE f \in Formats : Mime[f] \in types,
             usage |-> Each(LAMBDA u : ToImageUsage(usage_to_counts("gemini", u)), a.usage),
             extra |-> FALSE]

translate_image_response(from, to, a) ==
  CASE from = to -> a
    [] from = "images" /\ to = "gemini" -> openai_image_answer_to_gemini(a)
    [] from = "gemini" /\ to = "images" -> gemini_image_answer_to_openai(a)
    [] OTHER -> Bad
=============================================================================
