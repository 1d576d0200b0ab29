----------------------------- MODULE TokenUsage -----------------------------
(***************************************************************************)
(* The token counts of one answer, in the four dialects and on their way   *)
(* between them.  Counts are 64-bit: a sum that does not fit is refused.   *)
(* "parts" names the optional counts a vendor has sent; a count that was   *)
(* not sent is zero.  "total" holds the declared total, or nothing.        *)
(***************************************************************************)
EXTENDS Naturals

CONSTANT MaxCount   \* the largest u64
ASSUME CountAssumption == MaxCount \in Nat

Count == 0..MaxCount
Declared == SUBSET Count

ChatUsage == [input : Count, output : Count, cached : Count, reasoning : Count,
              total : Declared, parts : SUBSET {"cached", "reasoning"}]
ResponsesUsage == [input : Count, output : Count, cached : Count, reasoning : Count,
                   written : Count, total : Declared,
                   parts : SUBSET {"cached", "reasoning"}]
AnthropicUsage == [input : Count, output : Count, creation : Count, read : Count,
                   servers : Count, parts : SUBSET {"cached"}]
GeminiUsage == [prompt : Count, candidates : Count, cached : Count, thoughts : Count,
                tools : Count, total : Declared,
                parts : SUBSET {"cached", "reasoning"}]

ImageUsage == [input : Count, output : Count, total : Declared, details : BOOLEAN]

Usage == [chat |-> ChatUsage, responses |-> ResponsesUsage,
          anthropic |-> AnthropicUsage, gemini |-> GeminiUsage, images |-> ImageUsage]

(* A count that was not sent reads as zero.                                *)
SaidOrZero(f, u) ==
  CASE f \in {"chat", "responses"} ->
         /\ "cached" \in u.parts \/ u.cached = 0
         /\ "reasoning" \in u.parts \/ u.reasoning = 0
    [] f = "anthropic" -> "cached" \in u.parts \/ u.read = 0
    [] f = "gemini" ->
         /\ "cached" \in u.parts \/ u.cached = 0
         /\ "reasoning" \in u.parts \/ u.thoughts = 0
    [] f = "images" -> TRUE

-----------------------------------------------------------------------------
(* Reading: which usage is accepted, and what it says in the counts of     *)
(* Chat Completions.                                                       *)
checked_sum(a, b) == a + b \in Count

usage_counts(u) ==
  checked_sum(u.input, u.output) /\ \A t \in u.total : t = u.input + u.output

chat_usage_counts(u) ==
  usage_counts(u) /\ u.cached <= u.input /\ u.reasoning <= u.output

responses_usage_details(u) ==
  u.written = 0 /\ usage_counts(u) /\ u.cached <= u.input /\ u.reasoning <= u.output

anthropic_usage_counts(u) ==
  /\ u.servers = 0
  /\ checked_sum(u.input + u.creation, u.read)
  /\ checked_sum(u.input + u.creation + u.read, u.output)

gemini_usage_counts(u) ==
  /\ u.cached <= u.prompt
  /\ u.tools = 0
  /\ checked_sum(u.candidates, u.thoughts)
  /\ checked_sum(u.prompt, u.candidates + u.thoughts)
  /\ \A t \in u.total : t = u.prompt + u.candidates + u.thoughts

(* Counts of generated images are read by a function of their own.         *)
image_usage_counts(u) == ~u.details /\ usage_counts(u)
gemini_image_usage_counts(u) ==
  /\ u.parts = {} /\ u.tools = 0
  /\ checked_sum(u.prompt, u.candidates)
  /\ \A t \in u.total : t = u.prompt + u.candidates

Readable(from, u) ==
  CASE from = "chat" -> chat_usage_counts(u)
    [] from = "responses" -> responses_usage_details(u)
    [] from = "anthropic" -> anthropic_usage_counts(u)
    [] from = "gemini" -> gemini_usage_counts(u)
    [] from = "images" -> image_usage_counts(u)

Counts(input, output, cached, reasoning, parts) ==
  [input |-> input, output |-> output, cached |-> cached, reasoning |-> reasoning,
   total |-> {input + output}, parts |-> parts]

usage_to_counts(from, u) ==
  CASE from \in {"chat", "responses"} ->
         Counts(u.input, u.output, u.cached, u.reasoning, u.parts)
    [] from = "anthropic" ->
         Counts(u.input + u.creation + u.read, u.output,
                IF "cached" \in u.parts THEN u.read ELSE 0, 0, u.parts)
    [] from = "gemini" ->
         Counts(u.prompt, u.candidates + u.thoughts, u.cached, u.thoughts, u.parts)
    [] from = "images" -> Counts(u.input, u.output, 0, 0, {})

-----------------------------------------------------------------------------
(* Writing a whole answer's counts.                                        *)
ToAnthropicUsageBug(c) ==   \* a mutant: cached tokens are counted twice
  [input |-> c.input, output |-> c.output, creation |-> 0, read |-> c.cached,
   servers |-> 0, parts |-> c.parts \cap {"cached"}]

ToAnthropicUsage(c) ==
  [input |-> IF "cached" \in c.parts THEN c.input - c.cached ELSE c.input,
   output |-> c.output, creation |-> 0,
   read |-> IF "cached" \in c.parts THEN c.cached ELSE 0,
   servers |-> 0, parts |-> c.parts \cap {"cached"}]

ToResponsesUsage(c) ==
  [input |-> c.input, output |-> c.output, cached |-> c.cached,
   reasoning |-> c.reasoning, written |-> 0, total |-> c.total,
   parts |-> {"cached", "reasoning"}]

ToGeminiUsage(c) ==
  [prompt |-> c.input, candidates |-> c.output - c.reasoning,
   cached |-> IF "cached" \in c.parts THEN c.cached ELSE 0,
   thoughts |-> IF "reasoning" \in c.parts THEN c.reasoning ELSE 0,
   tools |-> 0, total |-> c.total, parts |-> c.parts]

ToImageUsage(c) ==
  [input |-> c.input, output |-> c.output, total |-> c.total, details |-> FALSE]

UsageIn(to, c) ==
  CASE to = "chat" -> c
    [] to = "responses" -> ToResponsesUsage(c)
    [] to = "anthropic" -> ToAnthropicUsage(c)
    [] to = "gemini" -> ToGeminiUsage(c)
    [] to = "images" -> ToImageUsage(c)

(* The counts of an answer are accepted on their way to a client only if   *)
(* the writer, which reads the hub's counts again, accepts them too.       *)
Passes(from, to, u) ==
  Readable(from, u) /\ (to # "chat" => chat_usage_counts(usage_to_counts(from, u)))

-----------------------------------------------------------------------------
(* Streams read the same counts with a function of their own, which knows  *)
(* a vendor by the names of the fields it finds.                           *)
usage_to_chat(from, u) ==
  CASE from \in {"chat", "responses"} -> Counts(u.input, u.output, 0, 0, {})
    [] OTHER -> usage_to_counts(from, u)

StreamReadable(from, u) ==
  CASE from \in {"chat", "responses"} -> usage_counts(u)
    [] OTHER -> Readable(from, u)

-----------------------------------------------------------------------------
(* What an answer cost, in the dialect of whoever reads its counts.        *)
Cost(f, u) ==
  [input |-> usage_to_counts(f, u).input, output |-> usage_to_counts(f, u).output,
   cached |-> usage_to_counts(f, u).cached]
=============================================================================
