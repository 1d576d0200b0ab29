------------------------- MODULE RelayedTurnsProofs -------------------------
(***************************************************************************)
(* What the relay does to the counts of an answer, whatever the largest    *)
(* count is, what every step of a relayed conversation leaves behind, and  *)
(* that it can go on, for documents, answers and conversations of any      *)
(* length.                                                                 *)
(***************************************************************************)
EXTENDS RelayedTurns, DialectProofs

-----------------------------------------------------------------------------
(* What is read of any vendor's usage are the counts of a chat answer, and *)
(* a count that the vendor has not sent is not made up.                    *)
LEMMA CountsRead ==
  ASSUME NEW from \in Format, NEW u \in Usage[from], Readable(from, u), SaidOrZero(from, u)
  PROVE  /\ usage_to_counts(from, u) \in ChatUsage
         /\ chat_usage_counts(usage_to_counts(from, u))
         /\ SaidOrZero("chat", usage_to_counts(from, u))
<1> DEFINE c == usage_to_counts(from, u)
<1>1. CASE from = "chat"
  <2>1. u \in ChatUsage /\ chat_usage_counts(u)
    BY <1>1 DEF Usage, Readable
  <2>2. c = Counts(u.input, u.output, u.cached, u.reasoning, u.parts)
    BY <1>1 DEF usage_to_counts
  <2> QED  BY <1>1, <2>1, <2>2, CountAssumption
           DEF ChatUsage, Counts, Count, Declared, chat_usage_counts, usage_counts, checked_sum, SaidOrZero
<1>2. CASE from = "responses"
  <2>1. u \in ResponsesUsage /\ responses_usage_details(u)
    BY <1>2 DEF Usage, Readable
  <2>2. c = Counts(u.input, u.output, u.cached, u.reasoning, u.parts)
    BY <1>2 DEF usage_to_counts
  <2> QED  BY <1>2, <2>1, <2>2, CountAssumption
           DEF ResponsesUsage, ChatUsage, Counts, Count, Declared, responses_usage_details,
               chat_usage_counts, usage_counts, checked_sum, SaidOrZero
<1>3. CASE from = "anthropic"
  <2>1. u \in AnthropicUsage /\ anthropic_usage_counts(u)
    BY <1>3 DEF Usage, Readable
  <2>2. c = Counts(u.input + u.creation + u.read, u.output,
                   IF "cached" \in u.parts THEN u.read ELSE 0, 0, u.parts)
    BY <1>3 DEF usage_to_counts
  <2> QED  BY <1>3, <2>1, <2>2, CountAssumption
           DEF AnthropicUsage, ChatUsage, Counts, Count, Declared, anthropic_usage_counts,
               chat_usage_counts, usage_counts, checked_sum, SaidOrZero
<1>4. CASE from = "gemini"
  <2>1. u \in GeminiUsage /\ gemini_usage_counts(u)
    BY <1>4 DEF Usage, Readable
  <2>2. c = Counts(u.prompt, u.candidates + u.thoughts, u.cached, u.thoughts, u.parts)
    BY <1>4 DEF usage_to_counts
  <2> QED  BY <1>4, <2>1, <2>2, CountAssumption
           DEF GeminiUsage, ChatUsage, Counts, Count, Declared, gemini_usage_counts,
               chat_usage_counts, usage_counts, checked_sum, SaidOrZero
<1> QED  BY <1>1, <1>2, <1>3, <1>4 DEF Format

(* Counts the hub accepts are written so that the client's own sums hold,  *)
(* no count is below zero or above the largest, and nothing is counted     *)
(* twice or lost.                                                          *)
LEMMA CountsWritten ==
  ASSUME NEW to \in Format, NEW c \in ChatUsage, SaidOrZero("chat", c), chat_usage_counts(c)
  PROVE  /\ UsageIn(to, c) \in Usage[to]
         /\ Readable(to, UsageIn(to, c))
         /\ Cost(to, UsageIn(to, c)) = [input |-> c.input, output |-> c.output, cached |-> c.cached]
<1>1. CASE to = "chat"
  BY <1>1 DEF UsageIn, Usage, Readable, Cost, usage_to_counts, Counts
<1>2. CASE to = "responses"
  <2>1. UsageIn(to, c) = ToResponsesUsage(c)  BY <1>2 DEF UsageIn
  <2>2. ToResponsesUsage(c) \in ResponsesUsage /\ responses_usage_details(ToResponsesUsage(c))
    BY <1>2, CountAssumption
    DEF ToResponsesUsage, ChatUsage, ResponsesUsage, Count, Declared, responses_usage_details,
        chat_usage_counts, usage_counts, checked_sum
  <2> QED  BY <1>2, <2>1, <2>2
           DEF Usage, Readable, Cost, usage_to_counts, Counts, ToResponsesUsage
<1>3. CASE to = "anthropic"
  <2>1. UsageIn(to, c) = ToAnthropicUsage(c)  BY <1>3 DEF UsageIn
  <2>2. /\ c.input \in Count /\ c.output \in Count /\ c.cached \in Count
        /\ c.cached <= c.input /\ c.input + c.output \in Count
    BY <1>3 DEF ChatUsage, chat_usage_counts, usage_counts, checked_sum
  <2>3. /\ ToAnthropicUsage(c) \in AnthropicUsage
        /\ ToAnthropicUsage(c).input + ToAnthropicUsage(c).read = c.input
    BY <2>2, CountAssumption DEF ToAnthropicUsage, AnthropicUsage, Count, SaidOrZero
  <2>4. anthropic_usage_counts(ToAnthropicUsage(c))
    BY <2>2, <2>3, CountAssumption
    DEF ToAnthropicUsage, Count, anthropic_usage_counts, checked_sum
  <2>5. Cost(to, ToAnthropicUsage(c)) = [input |-> c.input, output |-> c.output, cached |-> c.cached]
    BY <1>3, <2>2, <2>3, CountAssumption
    DEF Cost, usage_to_counts, Counts, ToAnthropicUsage, Count, SaidOrZero
  <2> QED  BY <1>3, <2>1, <2>3, <2>4, <2>5 DEF Usage, Readable
<1>4. CASE to = "gemini"
  <2>1. UsageIn(to, c) = ToGeminiUsage(c)  BY <1>4 DEF UsageIn
  <2>2. /\ c.input \in Count /\ c.output \in Count /\ c.cached \in Count /\ c.reasoning \in Count
        /\ c.cached <= c.input /\ c.reasoning <= c.output /\ c.input + c.output \in Count
        /\ c.total \in Declared /\ \A t \in c.total : t = c.input + c.output
    BY <1>4 DEF ChatUsage, chat_usage_counts, usage_counts, checked_sum
  <2>3. /\ ToGeminiUsage(c) \in GeminiUsage
        /\ ToGeminiUsage(c).candidates + ToGeminiUsage(c).thoughts = c.output
        /\ ToGeminiUsage(c).cached = c.cached
    BY <2>2, CountAssumption DEF ToGeminiUsage, ChatUsage, GeminiUsage, Count, SaidOrZero
  <2>4. gemini_usage_counts(ToGeminiUsage(c))
    BY <2>2, <2>3, CountAssumption
    DEF ToGeminiUsage, Count, gemini_usage_counts, checked_sum
  <2>5. Cost(to, ToGeminiUsage(c)) = [input |-> c.input, output |-> c.output, cached |-> c.cached]
    BY <1>4, <2>3 DEF Cost, usage_to_counts, Counts, ToGeminiUsage
  <2> QED  BY <1>4, <2>1, <2>3, <2>4, <2>5 DEF Usage, Readable
<1> QED  BY <1>1, <1>2, <1>3, <1>4 DEF Format

-----------------------------------------------------------------------------
(* Usage that the reader of one dialect accepts is accepted all the way to *)
(* a client of another, and the reply's counts come to the tokens the      *)
(* vendor counted, for every pair of dialects and every usage, whatever    *)
(* the largest count is: the counts behind CostKept.                       *)
THEOREM CostHeld ==
  ASSUME NEW from \in Format, NEW to \in Format,
         NEW u \in Usage[from], SaidOrZero(from, u), Readable(from, u)
  PROVE  LET r == UsageIn(to, usage_to_counts(from, u)) IN
         /\ Passes(from, to, u)
         /\ r \in Usage[to]
         /\ Readable(to, r)
         /\ Cost(to, r) = Cost(from, u)
<1> DEFINE c == usage_to_counts(from, u)
<1>1. c \in ChatUsage /\ chat_usage_counts(c) /\ SaidOrZero("chat", c)
  BY CountsRead
<1>2. Passes(from, to, u)
  BY <1>1 DEF Passes
<1>3. /\ UsageIn(to, c) \in Usage[to]
      /\ Readable(to, UsageIn(to, c))
      /\ Cost(to, UsageIn(to, c)) = [input |-> c.input, output |-> c.output, cached |-> c.cached]
  BY <1>1, CountsWritten
<1> QED  BY <1>2, <1>3 DEF Cost

(* The counts a stream reads with a function of its own come to the same   *)
(* tokens in and out, and it refuses no usage that a whole answer may      *)
(* have: the counts behind StreamCostsTheSame.                             *)
THEOREM StreamCostHeld ==
  ASSUME NEW from \in Format, NEW u \in Usage[from], Readable(from, u)
  PROVE  /\ StreamReadable(from, u)
         /\ usage_to_chat(from, u).input = usage_to_counts(from, u).input
         /\ usage_to_chat(from, u).output = usage_to_counts(from, u).output
<1>1. CASE from \in {"chat", "responses"}
  BY <1>1 DEF Readable, StreamReadable, chat_usage_counts, responses_usage_details,
              usage_to_chat, usage_to_counts, Counts
<1>2. CASE from \notin {"chat", "responses"}
  BY <1>2 DEF StreamReadable, usage_to_chat
<1> QED  BY <1>1, <1>2

-----------------------------------------------------------------------------
(* Counts of generated images cross between the two dialects that have     *)
(* them as they are.                                                       *)
LEMMA ImageCountsToGemini ==
  ASSUME NEW u \in ImageUsage, image_usage_counts(u)
  PROVE  LET w == ToGeminiUsage(usage_to_counts("images", u))
         IN w \in GeminiUsage /\ gemini_usage_counts(w) /\ Cost("gemini", w) = Cost("images", u)
<1> DEFINE c == usage_to_counts("images", u)
           w == ToGeminiUsage(c)
<1>1. c = Counts(u.input, u.output, 0, 0, {})
  BY DEF usage_to_counts
<1>2. /\ u.input \in Count /\ u.output \in Count /\ u.input + u.output \in Count
      /\ 0 \in Count
  BY CountAssumption DEF ImageUsage, image_usage_counts, usage_counts, checked_sum, Count
<1>3. w = [prompt |-> u.input, candidates |-> u.output - 0, cached |-> 0, thoughts |-> 0,
           tools |-> 0, total |-> {u.input + u.output}, parts |-> {}]
  BY <1>1 DEF ToGeminiUsage, Counts
<1>4. u.output - 0 = u.output /\ u.output + 0 = u.output
  BY <1>2 DEF Count
<1>5. w \in GeminiUsage
  BY <1>2, <1>3, <1>4 DEF GeminiUsage, Declared
<1>6. gemini_usage_counts(w)
  BY <1>2, <1>3, <1>4 DEF gemini_usage_counts, checked_sum, Count
<1>7. Cost("gemini", w) = Cost("images", u)
  <2>1. usage_to_counts("gemini", w)
          = Counts(w.prompt, w.candidates + w.thoughts, w.cached, w.thoughts, w.parts)
    BY DEF usage_to_counts
  <2>2. w.prompt = u.input /\ w.candidates + w.thoughts = u.output /\ w.cached = 0
    BY <1>3, <1>4
  <2> QED  BY <1>1, <2>1, <2>2 DEF Cost, Counts
<1> QED  BY <1>5, <1>6, <1>7

LEMMA ImageCountsFromGemini ==
  ASSUME NEW u \in GeminiUsage, gemini_image_usage_counts(u), SaidOrZero("gemini", u)
  PROVE  LET w == ToImageUsage(usage_to_counts("gemini", u))
         IN w \in ImageUsage /\ image_usage_counts(w) /\ Cost("images", w) = Cost("gemini", u)
<1> DEFINE c == usage_to_counts("gemini", u)
           w == ToImageUsage(c)
<1>1. c = Counts(u.prompt, u.candidates + u.thoughts, u.cached, u.thoughts, u.parts)
  BY DEF usage_to_counts
<1>2. /\ u.prompt \in Count /\ u.candidates \in Count /\ u.prompt + u.candidates \in Count
      /\ u.cached = 0 /\ u.thoughts = 0
  BY DEF GeminiUsage, gemini_image_usage_counts, checked_sum, SaidOrZero
<1>3. u.candidates + u.thoughts = u.candidates
  BY <1>2 DEF Count
<1> DEFINE total == {u.prompt + u.candidates}
<1>4. c.input = u.prompt /\ c.output = u.candidates /\ c.total = total /\ c.cached = u.cached
  BY <1>1, <1>3 DEF Counts
<1>5. w = [input |-> u.prompt, output |-> u.candidates, total |-> total, details |-> FALSE]
  BY <1>4, Zenon DEF ToImageUsage
<1>6. w \in ImageUsage
  <2>1. u.prompt \in Count /\ u.candidates \in Count /\ total \in Declared /\ FALSE \in BOOLEAN
    BY <1>2 DEF Declared
  <2> HIDE DEF w, total
  <2> QED  BY <2>1, <1>5, Zenon DEF ImageUsage
<1>7. w.input = u.prompt /\ w.output = u.candidates /\ w.total = total /\ ~w.details
  BY <1>5
<1>8. image_usage_counts(w)
  BY <1>2, <1>7 DEF image_usage_counts, usage_counts, checked_sum
<1>9. Cost("images", w) = Cost("gemini", u)
  <2>1. usage_to_counts("images", w) = Counts(w.input, w.output, 0, 0, {})
    BY DEF usage_to_counts
  <2> QED  BY <1>2, <1>4, <1>7, <2>1 DEF Cost, Counts
<1> QED  BY <1>6, <1>8, <1>9

-----------------------------------------------------------------------------
(* An answer at the hub: it costs what the vendor's cost, count by count,  *)
(* and what was read of another vendor's counts is consistent.             *)
AtTheHub(from, a, h) ==
  /\ h.usage \in Seq(ChatUsage) /\ Len(h.usage) = Len(a.usage)
  /\ \A i \in 1..Len(a.usage) :
       /\ SaidOrZero("chat", h.usage[i])
       /\ Cost("chat", h.usage[i]) = Cost(from, a.usage[i])

(* What a reply owes its answer.                                           *)
Owed(from, a, to, r) ==
  /\ Len(r.usage) = Len(a.usage) /\ DOMAIN r.usage = 1..Len(a.usage)
  /\ \A i \in 1..Len(a.usage) :
       /\ r.usage[i] \in Usage[to] /\ Readable(to, r.usage[i])
       /\ Cost(to, r.usage[i]) = Cost(from, a.usage[i])

LEMMA ReadAll ==
  ASSUME NEW from \in Format, NEW usage \in Seq(Usage[from]),
         \A i \in 1..Len(usage) : SaidOrZero(from, usage[i]),
         \A i \in 1..Len(usage) : Readable(from, usage[i]),
         NEW h, h.usage = CountsOf(from, usage),
         NEW a, a.usage = usage
  PROVE  AtTheHub(from, a, h) /\ \A i \in 1..Len(usage) : chat_usage_counts(h.usage[i])
<1>1. ASSUME NEW i \in 1..Len(usage)
      PROVE  /\ usage_to_counts(from, usage[i]) \in ChatUsage
             /\ chat_usage_counts(usage_to_counts(from, usage[i]))
             /\ SaidOrZero("chat", usage_to_counts(from, usage[i]))
  <2>1. usage[i] \in Usage[from]
    OBVIOUS
  <2> QED  BY <1>1, <2>1, CountsRead
<1>2. /\ DOMAIN h.usage = 1..Len(usage)
      /\ \A i \in 1..Len(usage) : h.usage[i] = usage_to_counts(from, usage[i])
  BY DEF CountsOf, Each
<1>3. h.usage = [i \in 1..Len(usage) |-> h.usage[i]]
  BY <1>2 DEF CountsOf, Each
<1>4. h.usage \in Seq(ChatUsage) /\ Len(h.usage) = Len(usage)
  BY <1>1, <1>2, <1>3
<1>5. ASSUME NEW i \in 1..Len(usage)
      PROVE  Cost("chat", h.usage[i]) = Cost(from, usage[i])
  BY <1>2 DEF Cost, usage_to_counts, Counts
<1> QED  BY <1>1, <1>2, <1>4, <1>5 DEF AtTheHub

LEMMA WrittenAll ==
  ASSUME NEW from, NEW to \in Format, NEW a, NEW h, NEW r,
         AtTheHub(from, a, h), a.usage \in Seq(Usage[from]),
         \A i \in 1..Len(a.usage) : chat_usage_counts(h.usage[i]),
         r.usage = UsageFor(to, h.usage)
  PROVE  Owed(from, a, to, r)
<1>1. ASSUME NEW i \in 1..Len(a.usage)
      PROVE  /\ UsageIn(to, h.usage[i]) \in Usage[to]
             /\ Readable(to, UsageIn(to, h.usage[i]))
             /\ Cost(to, UsageIn(to, h.usage[i])) = Cost(from, a.usage[i])
  <2>1. h.usage[i] \in ChatUsage /\ SaidOrZero("chat", h.usage[i])
        /\ Cost("chat", h.usage[i]) = Cost(from, a.usage[i])
    BY DEF AtTheHub
  <2>2. Cost("chat", h.usage[i]) = [input |-> h.usage[i].input, output |-> h.usage[i].output,
                                    cached |-> h.usage[i].cached]
    BY DEF Cost, usage_to_counts, Counts
  <2> QED  BY <2>1, <2>2, CountsWritten
<1>2. DOMAIN h.usage = 1..Len(a.usage) /\ Len(a.usage) \in Nat
  BY DEF AtTheHub
<1>3. /\ r.usage = [i \in 1..Len(a.usage) |-> UsageIn(to, h.usage[i])]
      /\ DOMAIN r.usage = 1..Len(a.usage)
  BY <1>2 DEF UsageFor, Each
<1>4. Len(r.usage) = Len(a.usage)
  BY <1>2, <1>3
<1> QED  BY <1>1, <1>3, <1>4 DEF Owed

-----------------------------------------------------------------------------
(* A reply in another dialect owes its answer nothing: of the four text    *)
(* dialects by way of the hub, of the images directly.                     *)
LEMMA ReadAtTheHub ==
  ASSUME NEW from \in Format, NEW a, Counted(from, a), response_to_chat(from, a) # Bad
  PROVE  /\ AtTheHub(from, a, response_to_chat(from, a))
         /\ from # "chat" => \A i \in 1..Len(a.usage) :
                               chat_usage_counts(response_to_chat(from, a).usage[i])
<1> SUFFICES ASSUME NEW h, h = response_to_chat(from, a), NEW usage, usage = a.usage
             PROVE  AtTheHub(from, a, h)
                    /\ (from # "chat" => \A i \in 1..Len(usage) : chat_usage_counts(h.usage[i]))
  OBVIOUS
<1>1. /\ usage \in Seq(Usage[from]) /\ DOMAIN usage = 1..Len(usage)
      /\ \A i \in 1..Len(usage) : SaidOrZero(from, usage[i])
  BY DEF Counted
<1>2. CASE from = "chat"
  <2>1. h = a
    BY <1>2 DEF response_to_chat
  <2>2. usage \in Seq(ChatUsage)
    BY <1>1, <1>2 DEF Usage
  <2> QED  BY <1>1, <1>2, <2>1, <2>2 DEF AtTheHub
<1>3. CASE from = "responses"
  <2>1. h = responses_response_to_chat(a) /\ h # Bad
    BY <1>3 DEF response_to_chat
  <2>2. /\ AllCount(responses_usage_details, usage)
        /\ h.usage = CountsOf("responses", usage)
    <3>1. AllCount(responses_usage_details, usage)
      BY <2>1, Zenon DEF responses_response_to_chat
    <3>2. \E m, f : h = Answer(m, f, CountsOf("responses", usage), FALSE)
      BY <2>1, Zenon DEF responses_response_to_chat
    <3> QED  BY <3>1, <3>2 DEF Answer
  <2>3. \A i \in 1..Len(usage) : Readable(from, usage[i])
    BY <1>1, <1>3, <2>2 DEF AllCount, Readable
  <2> QED  BY <1>1, <1>3, <2>2, <2>3, ReadAll
<1>4. CASE from = "anthropic"
  <2>1. h = anthropic_response_to_chat(a) /\ h # Bad
    BY <1>4 DEF response_to_chat
  <2>2. /\ AllCount(anthropic_usage_counts, usage)
        /\ h.usage = CountsOf("anthropic", usage)
    BY <2>1 DEF anthropic_response_to_chat, Answer
  <2>3. \A i \in 1..Len(usage) : Readable(from, usage[i])
    BY <1>1, <1>4, <2>2 DEF AllCount, Readable
  <2> QED  BY <1>1, <1>4, <2>2, <2>3, ReadAll
<1>5. CASE from = "gemini"
  <2>1. h = gemini_response_to_chat(a) /\ h # Bad
    BY <1>5 DEF response_to_chat
  <2>2. /\ AllCount(gemini_usage_counts, usage)
        /\ h.usage = CountsOf("gemini", usage)
    BY <2>1 DEF gemini_response_to_chat, Answer
  <2>3. \A i \in 1..Len(usage) : Readable(from, usage[i])
    BY <1>1, <1>5, <2>2 DEF AllCount, Readable
  <2> QED  BY <1>1, <1>5, <2>2, <2>3, ReadAll
<1> QED  BY <1>2, <1>3, <1>4, <1>5 DEF Format

LEMMA TextReplyOwes ==
  ASSUME NEW from \in Format, NEW to \in Format, from # to, NEW a, Counted(from, a),
         translate_response(from, to, a) # Bad
  PROVE  Owed(from, a, to, translate_response(from, to, a))
<1> SUFFICES ASSUME NEW h, h = response_to_chat(from, a),
                    NEW r, r = translate_response(from, to, a)
             PROVE  Owed(from, a, to, r)
  OBVIOUS
<1>1. h # Bad /\ r = response_from_chat(to, h)
  BY DEF translate_response
<1>2. /\ AtTheHub(from, a, h)
      /\ from # "chat" => \A i \in 1..Len(a.usage) : chat_usage_counts(h.usage[i])
  BY <1>1, ReadAtTheHub
<1>3. a.usage \in Seq(Usage[from]) /\ DOMAIN h.usage = 1..Len(a.usage)
  BY <1>2 DEF AtTheHub, Counted
<1>4. CASE to = "chat"
  <2>1. r = h /\ from # "chat"
    BY <1>1, <1>4 DEF response_from_chat
  <2>2. ASSUME NEW i \in 1..Len(a.usage)
        PROVE  h.usage[i] \in Usage[to] /\ Readable(to, h.usage[i])
    <3>1. h.usage[i] \in ChatUsage
      BY <1>2 DEF AtTheHub
    <3> QED  BY <1>2, <1>4, <2>1, <3>1 DEF Usage, Readable
  <2> QED  BY <1>2, <1>3, <1>4, <2>1, <2>2 DEF Owed, AtTheHub
<1>5. CASE to = "responses"
  <2>1. r = chat_response_to_responses(h) /\ r # Bad
    BY <1>1, <1>5 DEF response_from_chat
  <2>2. parse_chat_response(h) /\ r.usage = UsageFor(to, h.usage)
    <3>1. parse_chat_response(h)
      BY <2>1, Zenon DEF chat_response_to_responses
    <3>2. PICK out, status : r = [output |-> out, status |-> status,
                                  usage |-> UsageFor("responses", h.usage), extra |-> FALSE]
      BY <2>1, Zenon DEF chat_response_to_responses
    <3> QED  BY <1>5, <3>1, <3>2
  <2>3. \A i \in 1..Len(a.usage) : chat_usage_counts(h.usage[i])
    BY <1>3, <2>2 DEF parse_chat_response, AllCount
  <2> QED  BY <1>2, <1>3, <2>2, <2>3, WrittenAll
<1>6. CASE to = "anthropic"
  <2>1. r = chat_response_to_anthropic(h) /\ r # Bad
    BY <1>1, <1>6 DEF response_from_chat
  <2>2. parse_chat_response(h) /\ r.usage = UsageFor(to, h.usage)
    <3>1. parse_chat_response(h)
      BY <2>1, Zenon DEF chat_response_to_anthropic
    <3>2. PICK content, reason : r = [content |-> content, stop_reason |-> reason,
                                      usage |-> UsageFor("anthropic", h.usage), extra |-> FALSE]
      BY <2>1, Zenon DEF chat_response_to_anthropic
    <3> QED  BY <1>6, <3>1, <3>2
  <2>3. \A i \in 1..Len(a.usage) : chat_usage_counts(h.usage[i])
    BY <1>3, <2>2 DEF parse_chat_response, AllCount
  <2> QED  BY <1>2, <1>3, <2>2, <2>3, WrittenAll
<1>7. CASE to = "gemini"
  <2>1. r = chat_response_to_gemini(h) /\ r # Bad
    BY <1>1, <1>7 DEF response_from_chat
  <2>2. parse_chat_response(h) /\ r.usage = UsageFor(to, h.usage)
    BY <1>7, <2>1 DEF chat_response_to_gemini
  <2>3. \A i \in 1..Len(a.usage) : chat_usage_counts(h.usage[i])
    BY <1>3, <2>2 DEF parse_chat_response, AllCount
  <2> QED  BY <1>2, <1>3, <2>2, <2>3, WrittenAll
<1> QED  BY <1>4, <1>5, <1>6, <1>7 DEF Format

LEMMA ImageReplyOwes ==
  ASSUME NEW from \in Dialect, NEW to \in Dialect, from # to, NEW a, Counted(from, a),
         translate_image_response(from, to, a) # Bad
  PROVE  Owed(from, a, to, translate_image_response(from, to, a))
<1> SUFFICES ASSUME NEW r, r = translate_image_response(from, to, a),
                    NEW usage, usage = a.usage
             PROVE  Owed(from, a, to, r)
  OBVIOUS
<1>1. \/ from = "images" /\ to = "gemini" /\ r = openai_image_answer_to_gemini(a)
      \/ from = "gemini" /\ to = "images" /\ r = gemini_image_answer_to_openai(a)
  BY DEF translate_image_response
<1>2. /\ usage \in Seq(Usage[from]) /\ DOMAIN usage = 1..Len(usage) /\ Len(usage) \in Nat
      /\ \A i \in 1..Len(usage) : usage[i] \in Usage[from] /\ SaidOrZero(from, usage[i])
  BY DEF Counted
<1>3. CASE from = "images" /\ to = "gemini" /\ r = openai_image_answer_to_gemini(a)
  <2>1. /\ AllCount(image_usage_counts, usage)
        /\ r.usage = Each(LAMBDA u : ToGeminiUsage(usage_to_counts("images", u)), usage)
    BY <1>3 DEF Each, AllCount, openai_image_answer_to_gemini
  <2>2. r.usage = [i \in 1..Len(usage) |-> ToGeminiUsage(usage_to_counts("images", usage[i]))]
    BY <1>2, <2>1 DEF Each
  <2>3. ASSUME NEW i \in 1..Len(usage)
        PROVE  /\ r.usage[i] \in Usage[to] /\ Readable(to, r.usage[i])
               /\ Cost(to, r.usage[i]) = Cost(from, usage[i])
    <3>1. usage[i] \in ImageUsage /\ image_usage_counts(usage[i])
      BY <1>2, <1>3, <2>1 DEF AllCount, Usage
    <3>2. r.usage[i] \in GeminiUsage /\ gemini_usage_counts(r.usage[i])
          /\ Cost("gemini", r.usage[i]) = Cost("images", usage[i])
      BY <2>2, <3>1, ImageCountsToGemini
    <3> QED  BY <1>3, <3>2 DEF Usage, Readable
  <2>4. DOMAIN r.usage = 1..Len(usage) /\ Len(r.usage) = Len(usage)
    BY <1>2, <2>2
  <2> QED  BY <2>3, <2>4 DEF Owed
<1>4. CASE from = "gemini" /\ to = "images" /\ r = gemini_image_answer_to_openai(a)
  <2>1. /\ AllCount(gemini_image_usage_counts, usage)
        /\ r.usage = Each(LAMBDA u : ToImageUsage(usage_to_counts("gemini", u)), usage)
    BY <1>4 DEF gemini_image_answer_to_openai
  <2>2. r.usage = [i \in 1..Len(usage) |-> ToImageUsage(usage_to_counts("gemini", usage[i]))]
    BY <1>2, <2>1 DEF Each
  <2>3. ASSUME NEW i \in 1..Len(usage)
        PROVE  /\ r.usage[i] \in Usage[to] /\ Readable(to, r.usage[i])
               /\ Cost(to, r.usage[i]) = Cost(from, usage[i])
    <3>1. usage[i] \in GeminiUsage /\ gemini_image_usage_counts(usage[i])
          /\ SaidOrZero("gemini", usage[i])
      BY <1>2, <1>4, <2>1 DEF AllCount, Usage
    <3>2. r.usage[i] \in ImageUsage /\ image_usage_counts(r.usage[i])
          /\ Cost("images", r.usage[i]) = Cost("gemini", usage[i])
      BY <2>2, <3>1, ImageCountsFromGemini
    <3> QED  BY <1>4, <3>2 DEF Usage, Readable
  <2>4. DOMAIN r.usage = 1..Len(usage) /\ Len(r.usage) = Len(usage)
    BY <1>2, <2>2
  <2> QED  BY <2>3, <2>4 DEF Owed
<1> QED  BY <1>1, <1>3, <1>4

-----------------------------------------------------------------------------
(* A translation is refused, or is something.                              *)
LEMMA BadIsSomething == Bad # Nothing
  BY DEF Bad, Nothing

LEMMA SentIsSomething ==
  ASSUME NEW body, NEW model, NEW stream
  PROVE  Sent(body, model, stream) # Nothing
  BY DEF Sent, Nothing

LEMMA RequestIsSomething ==
  ASSUME NEW from \in Format, NEW to \in Format, NEW context, NEW r
  PROVE  translate_request(from, to, context, r) # Nothing
<1>1. ASSUME NEW chat, NEW reasoning, NEW stream
      PROVE  request_from_chat(to, chat, reasoning, stream) # Nothing
  BY BadIsSomething, SentIsSomething, Zenon DEF request_from_chat
<1> QED  BY <1>1, BadIsSomething, SentIsSomething, Zenon DEF translate_request

LEMMA ImageRequestIsSomething ==
  ASSUME NEW from, NEW to, NEW context, NEW r
  PROVE  translate_image_request(from, to, context, r) # Nothing
  BY BadIsSomething, SentIsSomething, Zenon DEF translate_image_request

LEMMA UsageIsSomething ==
  ASSUME NEW a, "usage" \in DOMAIN a
  PROVE  a # Nothing
  BY DEF Nothing

LEMMA ReplyIsSomething ==
  ASSUME NEW from \in Format, NEW to \in Format, NEW a, a # Nothing
  PROVE  translate_response(from, to, a) # Nothing
<1>1. ASSUME NEW m, NEW f, NEW u, NEW e  PROVE Answer(m, f, u, e) # Nothing
  BY DEF Answer, Nothing
<1>2. /\ responses_response_to_chat(a) # Nothing
      /\ anthropic_response_to_chat(a) # Nothing
      /\ gemini_response_to_chat(a) # Nothing
  BY <1>1, BadIsSomething, Zenon
  DEF responses_response_to_chat, anthropic_response_to_chat, gemini_response_to_chat
<1>3. response_to_chat(from, a) # Nothing
  BY <1>2 DEF response_to_chat, Format
<1>4. ASSUME NEW h
      PROVE  /\ chat_response_to_responses(h) # Nothing
             /\ chat_response_to_anthropic(h) # Nothing
             /\ chat_response_to_gemini(h) # Nothing
  <2>1. chat_response_to_responses(h) # Nothing
    BY BadIsSomething DEF chat_response_to_responses, Each, Nothing
  <2>2. chat_response_to_anthropic(h) # Nothing
    BY BadIsSomething DEF chat_response_to_anthropic, Each, Nothing
  <2>3. chat_response_to_gemini(h) # Nothing
    BY BadIsSomething DEF chat_response_to_gemini, Nothing
  <2> QED  BY <2>1, <2>2, <2>3
<1> QED  BY <1>3, <1>4, BadIsSomething DEF translate_response, response_from_chat, Format

LEMMA ImageReplyIsSomething ==
  ASSUME NEW from, NEW to, NEW a, a # Nothing
  PROVE  translate_image_response(from, to, a) # Nothing
<1>1. openai_image_answer_to_gemini(a) # Nothing
  BY BadIsSomething DEF openai_image_answer_to_gemini, Each, Nothing
<1>2. gemini_image_answer_to_openai(a) # Nothing
  BY BadIsSomething DEF gemini_image_answer_to_openai, Each, Nothing
<1> QED  BY <1>1, <1>2, BadIsSomething DEF translate_image_response

-----------------------------------------------------------------------------
(* What a conversation keeps: besides its kinds of values, that an answer  *)
(* is counted in the fields of the upstream that gave it, and that a reply *)
(* is the translation of that answer.                                      *)
Translation ==
  IF "images" \in {client, upstream}
    THEN translate_image_response(upstream, client, answer)
    ELSE translate_response(upstream, client, answer)

RInv ==
  /\ TypeOK
  /\ stage \in {"asked", "answered", "replied", "failed"} => upstream \in Dialect
  /\ stage \in {"answered", "replied"} => Counted(upstream, answer)
  /\ stage = "replied" => reply = Translation /\ reply # Bad

LEMMA ConversationInvariant == Spec => []RInv
<1>1. Init => RInv
  BY DEF Init, RInv, TypeOK
<1>2. RInv /\ [Next]_vars => RInv'
  <2> SUFFICES ASSUME RInv, [Next]_vars
               PROVE  RInv'
    OBVIOUS
  <2>1. CASE Write
    BY <2>1 DEF Write, RInv, TypeOK
  <2>2. ASSUME NEW to \in Dialect, Ask(to)
        PROVE  RInv'
    <3> DEFINE sent == IF "images" \in {client, to}
                         THEN translate_image_request(client, to, Context, doc)
                         ELSE translate_request(client, to, Context, doc)
    <3>1. sent # Nothing
      BY RequestIsSomething, ImageRequestIsSomething DEF RInv, TypeOK, Dialect
    <3>2. /\ upstream' = to
          /\ \/ stage' = "refused" /\ asked' = Nothing
             \/ stage' = "asked" /\ asked' = sent
          /\ UNCHANGED <<client, doc, streamed, answer, reply, kept>>
      BY <2>2, Zenon DEF Ask
    <3> HIDE DEF sent
    <3> QED  BY <3>1, <3>2 DEF RInv, TypeOK
  <2>3. CASE Respond
    <3>1. Counted(upstream', answer') /\ answer' # Nothing
      BY <2>3, UsageIsSomething DEF Respond, Counted
    <3> QED  BY <2>3, <3>1 DEF Respond, RInv, TypeOK
  <2>4. CASE Return
    <3>1. stage = "answered" /\ answer # Nothing /\ Translation # Nothing
      BY <2>4, ReplyIsSomething, ImageReplyIsSomething
      DEF Return, RInv, TypeOK, Dialect, Translation
    <3>2. /\ \/ stage' = "failed" /\ reply' = Nothing
             \/ stage' = "replied" /\ reply' = Translation /\ Translation # Bad
          /\ UNCHANGED <<client, doc, streamed, upstream, asked, answer, kept>>
      BY <2>4, Zenon DEF Return, Translation
    <3>3. Translation' = Translation
      BY <3>2 DEF Translation
    <3> QED  BY <3>1, <3>2, <3>3 DEF RInv, TypeOK
  <2>5. CASE Continue
    BY <2>5 DEF Continue, RInv, TypeOK
  <2>6. CASE UNCHANGED vars
    BY <2>6 DEF vars, RInv, TypeOK, Translation
  <2> QED  BY <2>1, <2>2, <2>3, <2>4, <2>5, <2>6 DEF Next
<1> QED  BY <1>1, <1>2, PTL DEF Spec

(* A conversation is always in a stage that has what it was reached with:  *)
(* no answer without a request that was sent, no reply without an answer,  *)
(* and no reply that a translator has not made.                            *)
THEOREM TurnsTypeCorrect == Spec => []TypeOK
<1>1. RInv => TypeOK
  BY DEF RInv
<1> QED  BY <1>1, ConversationInvariant, PTL

(* What a reply costs in its client's own counts is what the upstream's    *)
(* answer cost, for every pair of dialects, images among them, every       *)
(* answer a vendor can count and every largest count; and the counts read  *)
(* for a stream of the same answer come to the same tokens.                *)
THEOREM CostKeptHeld == Spec => []CostKept
<1>1. RInv => CostKept
  <2> SUFFICES ASSUME RInv
               PROVE  CostKept
    OBVIOUS
  <2>1. WholeCostsTheSame
    <3> SUFFICES ASSUME stage = "replied", Crossed
                 PROVE  /\ Len(reply.usage) = Len(answer.usage)
                        /\ \A i \in DOMAIN reply.usage :
                             /\ reply.usage[i] \in Usage[client] /\ Readable(client, reply.usage[i])
                             /\ Cost(client, reply.usage[i]) = Cost(upstream, answer.usage[i])
      BY DEF WholeCostsTheSame
    <3>1. /\ upstream \in Dialect /\ client \in Dialect /\ upstream # client
          /\ Counted(upstream, answer) /\ reply = Translation /\ reply # Bad
      BY DEF RInv, TypeOK, Crossed
    <3>2. Owed(upstream, answer, client, reply)
      BY <3>1, TextReplyOwes, ImageReplyOwes DEF Translation, Dialect
    <3> QED  BY <3>2 DEF Owed
  <2>2. StreamCostsTheSame
    <3> SUFFICES ASSUME stage = "answered", upstream # "images",
                        NEW i \in DOMAIN answer.usage,
                        Readable(upstream, answer.usage[i])
                 PROVE  LET u == answer.usage[i]
                        IN /\ StreamReadable(upstream, u)
                           /\ usage_to_chat(upstream, u).input = usage_to_counts(upstream, u).input
                           /\ usage_to_chat(upstream, u).output = usage_to_counts(upstream, u).output
      BY DEF StreamCostsTheSame
    <3>1. upstream \in Format /\ answer.usage[i] \in Usage[upstream]
      BY DEF RInv, Counted, Dialect
    <3> QED  BY <3>1, StreamCostHeld
  <2> QED  BY <2>1, <2>2 DEF CostKept
<1> QED  BY <1>1, ConversationInvariant, PTL

-----------------------------------------------------------------------------
(* Settings are put together of pieces that hold fields of their own: what *)
(* a field of the whole is, if only one piece may hold it.                 *)
Field(t, x, s, y) == (Has(t, x) <=> Has(s, y)) /\ (Has(s, y) => t[x] = s[y])

LEMMA FieldOfPiece ==
  ASSUME NEW pieces, NEW k \in DOMAIN pieces, NEW x,
         \A i \in DOMAIN pieces : Has(pieces[i], x) => i = k
  PROVE  Field(Fields(pieces), x, pieces[k], x)
<1>1. Has(Fields(pieces), x) <=> Has(pieces[k], x)
  BY DEF Fields, Has
<1>2. ASSUME Has(pieces[k], x)
      PROVE  Fields(pieces)[x] = pieces[k][x]
  <2>1. (CHOOSE i \in DOMAIN pieces : x \in DOMAIN pieces[i]) = k
    BY <1>2 DEF Has
  <2>2. x \in UNION {DOMAIN pieces[i] : i \in DOMAIN pieces}
    BY <1>2 DEF Has
  <2> QED  BY <2>1, <2>2 DEF Fields
<1> QED  BY <1>1, <1>2 DEF Field

LEMMA Single ==
  ASSUME NEW x, NEW v
  PROVE  DOMAIN Just(x, v) = {x} /\ Just(x, v)[x] = v
  BY DEF Just

LEMMA Nowhere == DOMAIN <<>> = {}
  OBVIOUS

LEMMA Copied ==
  ASSUME NEW s, NEW x, NEW y
  PROVE  DOMAIN Copy(s, x, y) \subseteq {y} /\ Field(Copy(s, x, y), y, s, x)
<1>1. CASE Has(s, x)
  BY <1>1, Single DEF Copy, Field, Has
<1>2. CASE ~Has(s, x)
  BY <1>2, Nowhere DEF Copy, Field, Has
<1> QED  BY <1>1, <1>2

LEMMA Kept ==
  ASSUME NEW s, NEW fields
  PROVE  /\ DOMAIN Keep(s, fields) \subseteq fields
         /\ \A x \in fields : Field(Keep(s, fields), x, s, x)
  BY DEF Keep, Field, Has

InNone(x, pieces) == \A p \in pieces : ~Has(p, x)

LEMMA Two ==
  ASSUME NEW a, NEW b
  PROVE  LET t == Fields(<<a, b>>) IN
         /\ DOMAIN t = DOMAIN a \cup DOMAIN b
         /\ \A x : /\ InNone(x, {b}) => Field(t, x, a, x)
                   /\ InNone(x, {a}) => Field(t, x, b, x)
<1> DEFINE p == <<a, b>>
<1>1. /\ DOMAIN p = {1, 2}
      /\ p[1] = a /\ p[2] = b
  OBVIOUS
<1> HIDE DEF p
<1>2. \A k \in DOMAIN p : \A x :
        (\A i \in DOMAIN p : Has(p[i], x) => i = k) => Field(Fields(p), x, p[k], x)
  BY FieldOfPiece
<1>3. DOMAIN Fields(p) = DOMAIN a \cup DOMAIN b
  BY <1>1 DEF Fields
<1>4. ASSUME NEW x
      PROVE  /\ InNone(x, {b}) => Field(Fields(p), x, a, x)
             /\ InNone(x, {a}) => Field(Fields(p), x, b, x)
  BY <1>1, <1>2 DEF InNone
<1> QED  BY <1>3, <1>4 DEF p

LEMMA Four ==
  ASSUME NEW a, NEW b, NEW c, NEW d
  PROVE  LET t == Fields(<<a, b, c, d>>) IN
         /\ DOMAIN t = DOMAIN a \cup DOMAIN b \cup DOMAIN c \cup DOMAIN d
         /\ \A x : /\ InNone(x, {b, c, d}) => Field(t, x, a, x)
                   /\ InNone(x, {a, c, d}) => Field(t, x, b, x)
                   /\ InNone(x, {a, b, d}) => Field(t, x, c, x)
                   /\ InNone(x, {a, b, c}) => Field(t, x, d, x)
<1> DEFINE p == <<a, b, c, d>>
<1>1. /\ DOMAIN p = {1, 2, 3, 4}
      /\ p[1] = a /\ p[2] = b /\ p[3] = c /\ p[4] = d
  OBVIOUS
<1> HIDE DEF p
<1>2. \A k \in DOMAIN p : \A x :
        (\A i \in DOMAIN p : Has(p[i], x) => i = k) => Field(Fields(p), x, p[k], x)
  BY FieldOfPiece
<1>3. DOMAIN Fields(p) = DOMAIN a \cup DOMAIN b \cup DOMAIN c \cup DOMAIN d
  BY <1>1 DEF Fields
<1>4. ASSUME NEW x
      PROVE  /\ InNone(x, {b, c, d}) => Field(Fields(p), x, a, x)
             /\ InNone(x, {a, c, d}) => Field(Fields(p), x, b, x)
             /\ InNone(x, {a, b, d}) => Field(Fields(p), x, c, x)
             /\ InNone(x, {a, b, c}) => Field(Fields(p), x, d, x)
  BY <1>1, <1>2 DEF InNone
<1> QED  BY <1>3, <1>4 DEF p

LEMMA Five ==
  ASSUME NEW a, NEW b, NEW c, NEW d, NEW e
  PROVE  LET t == Fields(<<a, b, c, d, e>>) IN
         /\ DOMAIN t = DOMAIN a \cup DOMAIN b \cup DOMAIN c \cup DOMAIN d \cup DOMAIN e
         /\ \A x : /\ InNone(x, {b, c, d, e}) => Field(t, x, a, x)
                   /\ InNone(x, {a, c, d, e}) => Field(t, x, b, x)
                   /\ InNone(x, {a, b, d, e}) => Field(t, x, c, x)
                   /\ InNone(x, {a, b, c, e}) => Field(t, x, d, x)
                   /\ InNone(x, {a, b, c, d}) => Field(t, x, e, x)
<1> DEFINE p == <<a, b, c, d, e>>
<1>1. /\ DOMAIN p = {1, 2, 3, 4, 5}
      /\ p[1] = a /\ p[2] = b /\ p[3] = c /\ p[4] = d /\ p[5] = e
  OBVIOUS
<1> HIDE DEF p
<1>2. \A k \in DOMAIN p : \A x :
        (\A i \in DOMAIN p : Has(p[i], x) => i = k) => Field(Fields(p), x, p[k], x)
  BY FieldOfPiece
<1>3. DOMAIN Fields(p) = DOMAIN a \cup DOMAIN b \cup DOMAIN c \cup DOMAIN d \cup DOMAIN e
  BY <1>1 DEF Fields
<1>4. ASSUME NEW x
      PROVE  /\ InNone(x, {b, c, d, e}) => Field(Fields(p), x, a, x)
             /\ InNone(x, {a, c, d, e}) => Field(Fields(p), x, b, x)
             /\ InNone(x, {a, b, d, e}) => Field(Fields(p), x, c, x)
             /\ InNone(x, {a, b, c, e}) => Field(Fields(p), x, d, x)
             /\ InNone(x, {a, b, c, d}) => Field(Fields(p), x, e, x)
  BY <1>1, <1>2 DEF InNone
<1> QED  BY <1>3, <1>4 DEF p

LEMMA Six ==
  ASSUME NEW a, NEW b, NEW c, NEW d, NEW e, NEW g
  PROVE  LET t == Fields(<<a, b, c, d, e, g>>) IN
         /\ DOMAIN t = DOMAIN a \cup DOMAIN b \cup DOMAIN c \cup DOMAIN d \cup DOMAIN e \cup DOMAIN g
         /\ \A x : /\ InNone(x, {b, c, d, e, g}) => Field(t, x, a, x)
                   /\ InNone(x, {a, c, d, e, g}) => Field(t, x, b, x)
                   /\ InNone(x, {a, b, d, e, g}) => Field(t, x, c, x)
                   /\ InNone(x, {a, b, c, e, g}) => Field(t, x, d, x)
                   /\ InNone(x, {a, b, c, d, g}) => Field(t, x, e, x)
                   /\ InNone(x, {a, b, c, d, e}) => Field(t, x, g, x)
<1> DEFINE p == <<a, b, c, d, e, g>>
<1>1. /\ DOMAIN p = {1, 2, 3, 4, 5, 6}
      /\ p[1] = a /\ p[2] = b /\ p[3] = c /\ p[4] = d /\ p[5] = e /\ p[6] = g
  OBVIOUS
<1> HIDE DEF p
<1>2. \A k \in DOMAIN p : \A x :
        (\A i \in DOMAIN p : Has(p[i], x) => i = k) => Field(Fields(p), x, p[k], x)
  BY FieldOfPiece
<1>3. DOMAIN Fields(p) = DOMAIN a \cup DOMAIN b \cup DOMAIN c \cup DOMAIN d \cup DOMAIN e \cup DOMAIN g
  BY <1>1 DEF Fields
<1>4. ASSUME NEW x
      PROVE  /\ InNone(x, {b, c, d, e, g}) => Field(Fields(p), x, a, x)
             /\ InNone(x, {a, c, d, e, g}) => Field(Fields(p), x, b, x)
             /\ InNone(x, {a, b, d, e, g}) => Field(Fields(p), x, c, x)
             /\ InNone(x, {a, b, c, e, g}) => Field(Fields(p), x, d, x)
             /\ InNone(x, {a, b, c, d, g}) => Field(Fields(p), x, e, x)
             /\ InNone(x, {a, b, c, d, e}) => Field(Fields(p), x, g, x)
  BY <1>1, <1>2 DEF InNone
<1> QED  BY <1>3, <1>4 DEF p

-----------------------------------------------------------------------------
(* The tools of a request pass as they are, but for the form of their      *)
(* parameters that says "none".                                            *)
Plainly(t) == [t EXCEPT !.parameters = IF @ = "unset" THEN "empty" ELSE @]

ToolsPass(s, m) ==
  /\ DOMAIN m \subseteq {"tools"} /\ (Has(m, "tools") <=> Has(s, "tools"))
  /\ Has(s, "tools") =>
       /\ m["tools"] \in Seq(ToolForm) /\ Len(m["tools"]) = Len(s["tools"])
       /\ \A i \in 1..Len(s["tools"]) : Plainly(m["tools"][i]) = Plainly(s["tools"][i])

LEMMA ToolPasses ==
  ASSUME NEW t \in ToolForm
  PROVE  /\ responses_tools_to_chat(t) \in {t, Bad}
         /\ chat_tools_to_responses(t) \in {t, Bad}
         /\ convert_anthropic_tools(t) \in {t, Bad}
         /\ gemini_tools_to_chat(t) \in {t, Bad}
         /\ chat_tools_to_gemini(t) \in {t, Bad}
         /\ convert_openai_tools(t) # Bad =>
              /\ convert_openai_tools(t) \in ToolForm
              /\ Plainly(convert_openai_tools(t)) = Plainly(t)
<1>1. /\ responses_tools_to_chat(t) \in {t, Bad}
      /\ chat_tools_to_responses(t) \in {t, Bad}
      /\ convert_anthropic_tools(t) \in {t, Bad}
      /\ gemini_tools_to_chat(t) \in {t, Bad}
      /\ chat_tools_to_gemini(t) \in {t, Bad}
  BY DEF responses_tools_to_chat, chat_tools_to_responses, convert_anthropic_tools,
         gemini_tools_to_chat, chat_tools_to_gemini
<1>2. ASSUME convert_openai_tools(t) # Bad
      PROVE  /\ convert_openai_tools(t) \in ToolForm
             /\ Plainly(convert_openai_tools(t)) = Plainly(t)
  <2>1. CASE t.parameters = "unset"
    <3>1. convert_openai_tools(t) = [t EXCEPT !.parameters = "empty"]
      BY <1>2, <2>1 DEF convert_openai_tools
    <3> DEFINE u == [t EXCEPT !.parameters = "empty"]
    <3>2. u \in ToolForm /\ u.parameters = "empty"
      BY DEF ToolForm
    <3>3. Plainly(t) = u
      BY <2>1 DEF Plainly
    <3>4. Plainly(u) = [u EXCEPT !.parameters = "empty"]
      BY <3>2 DEF Plainly
    <3>5. [u EXCEPT !.parameters = "empty"] = u
      BY <3>2 DEF ToolForm
    <3> QED  BY <3>1, <3>2, <3>3, <3>4, <3>5
  <2>2. CASE t.parameters # "unset"
    <3>1. convert_openai_tools(t) = t
      BY <1>2, <2>2 DEF convert_openai_tools
    <3> QED  BY <3>1
  <2> QED  BY <2>1, <2>2
<1> QED  BY <1>1, <1>2

LEMMA PassedOn ==
  ASSUME NEW s, Has(s, "tools"), s["tools"] \in Seq(ToolForm),
         NEW made, made = [i \in DOMAIN s["tools"] |-> made[i]],
         \A i \in DOMAIN s["tools"] :
           made[i] \in ToolForm /\ Plainly(made[i]) = Plainly(s["tools"][i])
  PROVE  ToolsPass(s, Just("tools", made))
<1>1. DOMAIN s["tools"] = 1..Len(s["tools"]) /\ Len(s["tools"]) \in Nat
  OBVIOUS
<1>2. made \in Seq(ToolForm) /\ Len(made) = Len(s["tools"])
  BY <1>1
<1> QED  BY <1>1, <1>2, Single DEF ToolsPass, Has

LEMMA NoTools ==
  ASSUME NEW s, ~Has(s, "tools")
  PROVE  ToolsPass(s, <<>>)
  BY Nowhere DEF ToolsPass, Has

LEMMA ToolsFromResponses ==
  ASSUME NEW s, Has(s, "tools") => s["tools"] \in Seq(ToolForm),
         ~Has(EachMapped(s, "tools", responses_tools_to_chat), "bad")
  PROVE  ToolsPass(s, EachMapped(s, "tools", responses_tools_to_chat))
<1>1. CASE ~Has(s, "tools")
  BY <1>1, NoTools DEF EachMapped
<1>2. CASE Has(s, "tools")
  <2> DEFINE made == [i \in DOMAIN s["tools"] |-> responses_tools_to_chat(s["tools"][i])]
  <2>1. ~AnyBad(made) /\ EachMapped(s, "tools", responses_tools_to_chat) = Just("tools", made)
    BY <1>2, Single DEF EachMapped, Each, Refused, Has
  <2>2. ASSUME NEW i \in DOMAIN s["tools"]
        PROVE  made[i] \in ToolForm /\ Plainly(made[i]) = Plainly(s["tools"][i])
    <3>1. s["tools"][i] \in ToolForm /\ made[i] # Bad
      BY <1>2, <2>1, <2>2 DEF AnyBad
    <3> QED  BY <2>2, <3>1, ToolPasses
  <2>3. made = [i \in DOMAIN s["tools"] |-> made[i]]
    OBVIOUS
  <2> HIDE DEF made
  <2> QED  BY <1>2, <2>1, <2>2, <2>3, PassedOn
<1> QED  BY <1>1, <1>2

LEMMA ToolsFromAnthropic ==
  ASSUME NEW s, Has(s, "tools") => s["tools"] \in Seq(ToolForm),
         ~Has(EachMapped(s, "tools", convert_anthropic_tools), "bad")
  PROVE  ToolsPass(s, EachMapped(s, "tools", convert_anthropic_tools))
<1>1. CASE ~Has(s, "tools")
  BY <1>1, NoTools DEF EachMapped
<1>2. CASE Has(s, "tools")
  <2> DEFINE made == [i \in DOMAIN s["tools"] |-> convert_anthropic_tools(s["tools"][i])]
  <2>1. ~AnyBad(made) /\ EachMapped(s, "tools", convert_anthropic_tools) = Just("tools", made)
    BY <1>2, Single DEF EachMapped, Each, Refused, Has
  <2>2. ASSUME NEW i \in DOMAIN s["tools"]
        PROVE  made[i] \in ToolForm /\ Plainly(made[i]) = Plainly(s["tools"][i])
    <3>1. s["tools"][i] \in ToolForm /\ made[i] # Bad
      BY <1>2, <2>1, <2>2 DEF AnyBad
    <3> QED  BY <2>2, <3>1, ToolPasses
  <2>3. made = [i \in DOMAIN s["tools"] |-> made[i]]
    OBVIOUS
  <2> HIDE DEF made
  <2> QED  BY <1>2, <2>1, <2>2, <2>3, PassedOn
<1> QED  BY <1>1, <1>2

LEMMA ToolsFromGemini ==
  ASSUME NEW s, Has(s, "tools") => s["tools"] \in Seq(ToolForm),
         ~Has(EachMapped(s, "tools", gemini_tools_to_chat), "bad")
  PROVE  ToolsPass(s, EachMapped(s, "tools", gemini_tools_to_chat))
<1>1. CASE ~Has(s, "tools")
  BY <1>1, NoTools DEF EachMapped
<1>2. CASE Has(s, "tools")
  <2> DEFINE made == [i \in DOMAIN s["tools"] |-> gemini_tools_to_chat(s["tools"][i])]
  <2>1. ~AnyBad(made) /\ EachMapped(s, "tools", gemini_tools_to_chat) = Just("tools", made)
    BY <1>2, Single DEF EachMapped, Each, Refused, Has
  <2>2. ASSUME NEW i \in DOMAIN s["tools"]
        PROVE  made[i] \in ToolForm /\ Plainly(made[i]) = Plainly(s["tools"][i])
    <3>1. s["tools"][i] \in ToolForm /\ made[i] # Bad
      BY <1>2, <2>1, <2>2 DEF AnyBad
    <3> QED  BY <2>2, <3>1, ToolPasses
  <2>3. made = [i \in DOMAIN s["tools"] |-> made[i]]
    OBVIOUS
  <2> HIDE DEF made
  <2> QED  BY <1>2, <2>1, <2>2, <2>3, PassedOn
<1> QED  BY <1>1, <1>2

LEMMA ToolsToResponses ==
  ASSUME NEW s, Has(s, "tools") => s["tools"] \in Seq(ToolForm),
         ~Has(EachMapped(s, "tools", chat_tools_to_responses), "bad")
  PROVE  ToolsPass(s, EachMapped(s, "tools", chat_tools_to_responses))
<1>1. CASE ~Has(s, "tools")
  BY <1>1, NoTools DEF EachMapped
<1>2. CASE Has(s, "tools")
  <2> DEFINE made == [i \in DOMAIN s["tools"] |-> chat_tools_to_responses(s["tools"][i])]
  <2>1. ~AnyBad(made) /\ EachMapped(s, "tools", chat_tools_to_responses) = Just("tools", made)
    BY <1>2, Single DEF EachMapped, Each, Refused, Has
  <2>2. ASSUME NEW i \in DOMAIN s["tools"]
        PROVE  made[i] \in ToolForm /\ Plainly(made[i]) = Plainly(s["tools"][i])
    <3>1. s["tools"][i] \in ToolForm /\ made[i] # Bad
      BY <1>2, <2>1, <2>2 DEF AnyBad
    <3> QED  BY <2>2, <3>1, ToolPasses
  <2>3. made = [i \in DOMAIN s["tools"] |-> made[i]]
    OBVIOUS
  <2> HIDE DEF made
  <2> QED  BY <1>2, <2>1, <2>2, <2>3, PassedOn
<1> QED  BY <1>1, <1>2

LEMMA ToolsToAnthropic ==
  ASSUME NEW s, Has(s, "tools") => s["tools"] \in Seq(ToolForm),
         ~Has(EachMapped(s, "tools", convert_openai_tools), "bad")
  PROVE  ToolsPass(s, EachMapped(s, "tools", convert_openai_tools))
<1>1. CASE ~Has(s, "tools")
  BY <1>1, NoTools DEF EachMapped
<1>2. CASE Has(s, "tools")
  <2> DEFINE made == [i \in DOMAIN s["tools"] |-> convert_openai_tools(s["tools"][i])]
  <2>1. ~AnyBad(made) /\ EachMapped(s, "tools", convert_openai_tools) = Just("tools", made)
    BY <1>2, Single DEF EachMapped, Each, Refused, Has
  <2>2. ASSUME NEW i \in DOMAIN s["tools"]
        PROVE  made[i] \in ToolForm /\ Plainly(made[i]) = Plainly(s["tools"][i])
    <3>1. s["tools"][i] \in ToolForm /\ made[i] # Bad
      BY <1>2, <2>1, <2>2 DEF AnyBad
    <3> QED  BY <2>2, <3>1, ToolPasses
  <2>3. made = [i \in DOMAIN s["tools"] |-> made[i]]
    OBVIOUS
  <2> HIDE DEF made
  <2> QED  BY <1>2, <2>1, <2>2, <2>3, PassedOn
<1> QED  BY <1>1, <1>2

LEMMA ToolsToGemini ==
  ASSUME NEW s, Has(s, "tools") => s["tools"] \in Seq(ToolForm),
         ~Has(EachMapped(s, "tools", chat_tools_to_gemini), "bad")
  PROVE  ToolsPass(s, EachMapped(s, "tools", chat_tools_to_gemini))
<1>1. CASE ~Has(s, "tools")
  BY <1>1, NoTools DEF EachMapped
<1>2. CASE Has(s, "tools")
  <2> DEFINE made == [i \in DOMAIN s["tools"] |-> chat_tools_to_gemini(s["tools"][i])]
  <2>1. ~AnyBad(made) /\ EachMapped(s, "tools", chat_tools_to_gemini) = Just("tools", made)
    BY <1>2, Single DEF EachMapped, Each, Refused, Has
  <2>2. ASSUME NEW i \in DOMAIN s["tools"]
        PROVE  made[i] \in ToolForm /\ Plainly(made[i]) = Plainly(s["tools"][i])
    <3>1. s["tools"][i] \in ToolForm /\ made[i] # Bad
      BY <1>2, <2>1, <2>2 DEF AnyBad
    <3> QED  BY <2>2, <3>1, ToolPasses
  <2>3. made = [i \in DOMAIN s["tools"] |-> made[i]]
    OBVIOUS
  <2> HIDE DEF made
  <2> QED  BY <1>2, <2>1, <2>2, <2>3, PassedOn
<1> QED  BY <1>1, <1>2

(* A tool that is sent to Gemini is described.                             *)
LEMMA ToolsDescribed ==
  ASSUME NEW s, Has(s, "tools") => s["tools"] \in Seq(ToolForm),
         NEW d, d = EachMapped(s, "tools", chat_tools_to_gemini), ~Has(d, "bad"),
         Has(d, "tools")
  PROVE  \A i \in DOMAIN d["tools"] : d["tools"][i].description # "unset"
<1>1. CASE ~Has(s, "tools")
  <2>1. d = <<>>
    BY <1>1 DEF EachMapped
  <2> QED  BY <2>1, Nowhere DEF Has
<1>2. CASE Has(s, "tools")
  <2> DEFINE made == [i \in DOMAIN s["tools"] |-> chat_tools_to_gemini(s["tools"][i])]
  <2>1. ~AnyBad(made) /\ d = Just("tools", made)
    <3>1. \/ d = Refused
          \/ ~AnyBad(made) /\ d = Just("tools", made)
      BY <1>2 DEF EachMapped, Each
    <3>2. DOMAIN Refused = {"bad"}
      BY Single DEF Refused
    <3> QED  BY <3>1, <3>2 DEF Has
  <2>2. ASSUME NEW i \in DOMAIN made
        PROVE  made[i].description # "unset"
    <3>1. made[i] # Bad /\ made[i] = chat_tools_to_gemini(s["tools"][i])
      BY <2>1, <2>2 DEF AnyBad
    <3> HIDE DEF made
    <3> QED  BY <3>1 DEF chat_tools_to_gemini
  <2> HIDE DEF made
  <2>3. d["tools"] = made
    BY <2>1, Single
  <2> QED  BY <2>2, <2>3
<1> QED  BY <1>1, <1>2

-----------------------------------------------------------------------------
(* A choice among the tools says the same in every dialect it crosses to.  *)
LEMMA ChoiceRead ==
  ASSUME NEW c
  PROVE  /\ anthropic_tool_choice_to_openai(c) # Bad /\ AnthropicChoice(c) =>
              OpenAIChoice(anthropic_tool_choice_to_openai(c))
         /\ gemini_tool_choice_to_chat(c) # Bad =>
              OpenAIChoice(gemini_tool_choice_to_chat(c))
<1>1. ASSUME NEW mode, NEW name, mode = "function" \/ name = ""
      PROVE  OpenAIChoice(Choice(mode, name))
  BY <1>1 DEF OpenAIChoice, Choice
<1>2. ASSUME anthropic_tool_choice_to_openai(c) # Bad
      PROVE  OpenAIChoice(anthropic_tool_choice_to_openai(c))
  BY <1>1, <1>2 DEF anthropic_tool_choice_to_openai
<1>3. ASSUME gemini_tool_choice_to_chat(c) # Bad
      PROVE  OpenAIChoice(gemini_tool_choice_to_chat(c))
  <2>1. \/ gemini_tool_choice_to_chat(c) = Choice("function", c.allowed[1])
        \/ gemini_tool_choice_to_chat(c) = Choice("auto", "")
        \/ gemini_tool_choice_to_chat(c) = Choice("required", "")
        \/ gemini_tool_choice_to_chat(c) = Choice("none", "")
    <3>1. CASE c.allowed = <<>>
      <4>1. Len(c.allowed) # 1
        BY <3>1
      <4> QED  BY <1>3, <3>1, <4>1 DEF gemini_tool_choice_to_chat
    <3>2. CASE c.allowed # <<>>
      BY <1>3, <3>2 DEF gemini_tool_choice_to_chat
    <3> QED  BY <3>1, <3>2
  <2> QED  BY <1>1, <2>1
<1> QED  BY <1>2, <1>3

LEMMA ChoiceWritten ==
  ASSUME NEW c, OpenAIChoice(c), NEW disable \in BOOLEAN
  PROVE  /\ openai_choice(c, disable) # Bad =>
              /\ anthropic_tool_choice_to_openai(openai_choice(c, disable)) = c
              /\ openai_choice(c, disable).disable <=> disable /\ c.mode # "none"
         /\ chat_tool_choice_to_gemini(c) # Bad =>
              gemini_tool_choice_to_chat(chat_tool_choice_to_gemini(c)) = c
<1>1. ASSUME openai_choice(c, disable) # Bad
      PROVE  /\ anthropic_tool_choice_to_openai(openai_choice(c, disable)) = c
             /\ openai_choice(c, disable).disable <=> disable /\ c.mode # "none"
  <2>1. c.mode \in {"auto", "required", "none", "function"}
    BY <1>1 DEF openai_choice
  <2>2. CASE c.mode = "auto"
    BY <2>2 DEF openai_choice, anthropic_tool_choice_to_openai, OpenAIChoice, Choice
  <2>3. CASE c.mode = "required"
    BY <2>3 DEF openai_choice, anthropic_tool_choice_to_openai, OpenAIChoice, Choice
  <2>4. CASE c.mode = "none"
    BY <2>4 DEF openai_choice, anthropic_tool_choice_to_openai, OpenAIChoice, Choice
  <2>5. CASE c.mode = "function"
    BY <2>5 DEF openai_choice, anthropic_tool_choice_to_openai, OpenAIChoice, Choice
  <2> QED  BY <2>1, <2>2, <2>3, <2>4, <2>5
<1>2. ASSUME chat_tool_choice_to_gemini(c) # Bad
      PROVE  gemini_tool_choice_to_chat(chat_tool_choice_to_gemini(c)) = c
  <2>1. c.mode \in {"auto", "required", "none", "function"}
    BY <1>2 DEF chat_tool_choice_to_gemini
  <2>2. CASE c.mode = "auto"
    <3> DEFINE w == [mode |-> "AUTO", allowed |-> <<>>]
    <3>1. chat_tool_choice_to_gemini(c) = w /\ c = Choice("auto", "")
      BY <2>2 DEF chat_tool_choice_to_gemini, OpenAIChoice
    <3>2. w.mode = "AUTO" /\ w.allowed = <<>> /\ Len(w.allowed) # 1
      OBVIOUS
    <3>3. gemini_tool_choice_to_chat(w) = Choice("auto", "")
      BY <3>2 DEF gemini_tool_choice_to_chat
    <3> QED  BY <3>1, <3>3
  <2>3. CASE c.mode = "required"
    <3> DEFINE w == [mode |-> "ANY", allowed |-> <<>>]
    <3>1. chat_tool_choice_to_gemini(c) = w /\ c = Choice("required", "")
      BY <2>3 DEF chat_tool_choice_to_gemini, OpenAIChoice
    <3>2. w.mode = "ANY" /\ w.allowed = <<>> /\ Len(w.allowed) # 1
      OBVIOUS
    <3>3. gemini_tool_choice_to_chat(w) = Choice("required", "")
      BY <3>2 DEF gemini_tool_choice_to_chat
    <3> QED  BY <3>1, <3>3
  <2>4. CASE c.mode = "none"
    <3> DEFINE w == [mode |-> "NONE", allowed |-> <<>>]
    <3>1. chat_tool_choice_to_gemini(c) = w /\ c = Choice("none", "")
      BY <2>4 DEF chat_tool_choice_to_gemini, OpenAIChoice
    <3>2. w.mode = "NONE" /\ w.allowed = <<>> /\ Len(w.allowed) # 1
      OBVIOUS
    <3>3. gemini_tool_choice_to_chat(w) = Choice("none", "")
      BY <3>2 DEF gemini_tool_choice_to_chat
    <3> QED  BY <3>1, <3>3
  <2>5. CASE c.mode = "function"
    <3> DEFINE w == [mode |-> "ANY", allowed |-> <<c.name>>]
    <3>1. chat_tool_choice_to_gemini(c) = w /\ c = Choice("function", c.name)
      BY <2>5 DEF chat_tool_choice_to_gemini, OpenAIChoice
    <3>2. w.mode = "ANY" /\ w.allowed = <<c.name>>
      OBVIOUS
    <3>3. <<c.name>>[1] = c.name /\ Len(<<c.name>>) = 1
      OBVIOUS
    <3> HIDE DEF w
    <3>4. gemini_tool_choice_to_chat(w) = Choice("function", c.name)
      BY <3>2, <3>3 DEF gemini_tool_choice_to_chat
    <3> QED  BY <3>1, <3>4
  <2> QED  BY <2>1, <2>2, <2>3, <2>4, <2>5
<1> QED  BY <1>1, <1>2

-----------------------------------------------------------------------------
(* What settings ask for, reasoning apart, whatever the names of the       *)
(* fields are.                                                             *)
LimitFields == {"max_tokens", "max_completion_tokens", "max_output_tokens", "maxOutputTokens"}
WarmthFields == {"temperature"}
StopFields == {"stop", "stop_sequences", "stopSequences"}
UserFields == {"user", "user_id"}

SameWants(f, s, g, t) ==
  /\ FirstOf(s, LimitFields) = FirstOf(t, LimitFields)
  /\ FirstOf(s, WarmthFields) = FirstOf(t, WarmthFields)
  /\ FirstOf(s, StopFields) = FirstOf(t, StopFields)
  /\ FirstOf(s, UserFields) = FirstOf(t, UserFields)
  /\ ToolList(s) = ToolList(t)
  /\ ChoiceMade(f, s) = ChoiceMade(g, t)

LEMMA OneOf ==
  ASSUME NEW s, NEW t, NEW fields, NEW x \in fields, NEW y \in fields,
         DOMAIN s \cap fields \subseteq {x}, DOMAIN t \cap fields \subseteq {y},
         Field(t, y, s, x)
  PROVE  FirstOf(s, fields) = FirstOf(t, fields)
<1>1. CASE Has(s, x)
  <2>1. DOMAIN s \cap fields = {x} /\ DOMAIN t \cap fields = {y} /\ t[y] = s[x]
    BY <1>1 DEF Field, Has
  <2> QED  BY <2>1 DEF FirstOf
<1>2. CASE ~Has(s, x)
  <2>1. DOMAIN s \cap fields = {} /\ DOMAIN t \cap fields = {}
    BY <1>2 DEF Field, Has
  <2> QED  BY <2>1 DEF FirstOf
<1> QED  BY <1>1, <1>2

LEMMA NoneOf ==
  ASSUME NEW s, NEW t, NEW fields,
         DOMAIN s \cap fields = {}, DOMAIN t \cap fields = {}
  PROVE  FirstOf(s, fields) = FirstOf(t, fields)
  BY DEF FirstOf

LEMMA SameTools ==
  ASSUME NEW s, NEW m, NEW t, ToolsPass(s, m), Field(t, "tools", m, "tools"),
         Has(s, "tools") => s["tools"] \in Seq(ToolForm)
  PROVE  /\ ToolList(s) = ToolList(t)
         /\ Has(t, "tools") => t["tools"] \in Seq(ToolForm)
<1>1. Has(s, "tools") <=> Has(t, "tools")
  BY DEF ToolsPass, Field
<1>2. CASE Has(s, "tools")
  <2>1. /\ t["tools"] \in Seq(ToolForm) /\ DOMAIN t["tools"] = DOMAIN s["tools"]
        /\ \A i \in DOMAIN s["tools"] : Plainly(t["tools"][i]) = Plainly(s["tools"][i])
    BY <1>2 DEF ToolsPass, Field
  <2>2. /\ ToolList(s) = [i \in DOMAIN s["tools"] |-> Plainly(s["tools"][i])]
        /\ ToolList(t) = [i \in DOMAIN t["tools"] |-> Plainly(t["tools"][i])]
    BY <1>1, <1>2 DEF ToolList, Each, Plainly
  <2> QED  BY <2>1, <2>2
<1>3. CASE ~Has(s, "tools")
  BY <1>1, <1>3 DEF ToolList
<1> QED  BY <1>2, <1>3

LEMMA SomeTools ==
  ASSUME NEW s, Has(s, "tools") => s["tools"] \in Seq(ToolForm)
  PROVE  ToolList(s) # <<>> <=> Has(s, "tools") /\ s["tools"] # <<>>
<1>1. CASE Has(s, "tools")
  <2>1. ToolList(s) = [i \in 1..Len(s["tools"]) |-> Plainly(s["tools"][i])]
        /\ Len(s["tools"]) \in Nat
    BY <1>1 DEF ToolList, Each, Plainly
  <2> QED  BY <1>1, <2>1
<1>2. CASE ~Has(s, "tools")
  BY <1>2 DEF ToolList
<1> QED  BY <1>1, <1>2

-----------------------------------------------------------------------------
(* What settings ask for apart from reasoning and shape, and which fields  *)
(* say it: settings that hold the same fields ask the same.                *)
WantsFields ==
  LimitFields \cup WarmthFields \cup StopFields \cup UserFields
    \cup {"tools", "tool_choice", "toolConfig", "parallel_tool_calls"}

(* Settings s of dialect f ask for what t of dialect g asks for, the calls *)
(* one at a time included.                                                 *)
AsksAlike(f, s, g, t) == SameWants(f, s, g, t) /\ (Serial(f, s) <=> Serial(g, t))

(* What is carried on by two translations is carried on by both.           *)
LEMMA AsksChain ==
  ASSUME NEW f, NEW s, NEW g, NEW t, NEW h, NEW u,
         AsksAlike(f, s, g, t), AsksAlike(g, t, h, u)
  PROVE  AsksAlike(f, s, h, u)
  BY DEF AsksAlike, SameWants

LEMMA FirstOfAgree ==
  ASSUME NEW s, NEW t, NEW fields, \A x \in fields : Field(t, x, s, x)
  PROVE  FirstOf(s, fields) = FirstOf(t, fields)
<1>1. DOMAIN s \cap fields = DOMAIN t \cap fields
  BY DEF Field, Has
<1>2. \A x \in DOMAIN s \cap fields : s[x] = t[x]
  BY DEF Field, Has
<1> QED  BY <1>1, <1>2 DEF FirstOf

(* Settings that agree on what the wants are said with, ask alike.         *)
LEMMA AgreeAsks ==
  ASSUME NEW f, NEW s, NEW t, \A x \in WantsFields : Field(t, x, s, x)
  PROVE  AsksAlike(f, s, f, t)
<1>1. /\ FirstOf(s, LimitFields) = FirstOf(t, LimitFields)
      /\ FirstOf(s, WarmthFields) = FirstOf(t, WarmthFields)
      /\ FirstOf(s, StopFields) = FirstOf(t, StopFields)
      /\ FirstOf(s, UserFields) = FirstOf(t, UserFields)
  BY FirstOfAgree DEF WantsFields
<1>2. Field(t, "tools", s, "tools")
  BY DEF WantsFields
<1>3. ToolList(s) = ToolList(t)
  BY <1>2 DEF ToolList, Field
<1>4. /\ Field(t, "tool_choice", s, "tool_choice")
      /\ Field(t, "toolConfig", s, "toolConfig")
      /\ Field(t, "parallel_tool_calls", s, "parallel_tool_calls")
  BY DEF WantsFields
<1>5. Chosen(f, s) = Chosen(f, t)
  <2>1. CASE f = "anthropic"
    BY <1>4, <2>1 DEF Chosen, Field
  <2>2. CASE f = "gemini"
    BY <1>4, <2>2 DEF Chosen, Field
  <2>3. CASE f \in {"chat", "responses"}
    BY <1>4, <2>3 DEF Chosen, Field
  <2>4. CASE f \notin Format
    <3>1. Chosen(f, s) = Choice("auto", "") /\ Chosen(f, t) = Choice("auto", "")
      BY <2>4 DEF Chosen, Format
    <3> QED  BY <3>1
  <2> QED  BY <2>1, <2>2, <2>3, <2>4 DEF Format
<1>6. ChoiceMade(f, s) = ChoiceMade(f, t)
  BY <1>3, <1>5 DEF ChoiceMade
<1>7. Serial(f, s) <=> Serial(f, t)
  <2>1. CASE f = "chat"
    BY <1>3, <1>4, <1>6, <2>1 DEF Serial, Field
  <2>2. CASE f = "anthropic"
    BY <1>3, <1>4, <1>6, <2>2 DEF Serial, Field
  <2>3. CASE f \notin {"chat", "anthropic"}
    BY <2>3 DEF Serial
  <2> QED  BY <2>1, <2>2, <2>3
<1> QED  BY <1>1, <1>3, <1>6, <1>7 DEF AsksAlike, SameWants

(* Taking a field out or putting one in leaves the others alone.           *)
LEMMA Dropped ==
  ASSUME NEW s, NEW fields
  PROVE  /\ DOMAIN Drop(s, fields) = DOMAIN s \ fields
         /\ \A x : x \notin fields => Field(Drop(s, fields), x, s, x)
  BY DEF Drop, Field, Has

LEMMA Placed ==
  ASSUME NEW s, NEW field, NEW value
  PROVE  /\ DOMAIN Put(s, field, value) = DOMAIN s \cup {field}
         /\ Put(s, field, value)[field] = value
         /\ \A x : x # field => Field(Put(s, field, value), x, s, x)
  BY DEF Put, Field, Has

LEMMA FieldChain ==
  ASSUME NEW a, NEW x, NEW b, NEW y, NEW c, NEW z, Field(a, x, b, y), Field(b, y, c, z)
  PROVE  Field(a, x, c, z)
  BY DEF Field

-----------------------------------------------------------------------------
(* What the hub may hold of a request, when it is sent on.                 *)
HubFields == {"model", "max_tokens", "max_completion_tokens", "tools", "tool_choice",
              "temperature", "stop", "user", "n", "parallel_tool_calls", "response_format"}

HubSettings(c) ==
  /\ Has(c, "tools") => c["tools"] \in Seq(ToolForm)
  /\ Has(c, "tool_choice") => OpenAIChoice(c["tool_choice"])
  /\ Has(c, "parallel_tool_calls") => c["parallel_tool_calls"] \in BOOLEAN
HubForm(c) == DOMAIN c \subseteq HubFields /\ HubSettings(c)

LEMMA MappedInResponses ==
  ASSUME NEW s, NEW d,
         \/ d = Mapped(s, "tool_choice", "tool_choice", responses_tool_choice_to_chat)
         \/ d = Mapped(s, "tool_choice", "tool_choice", chat_tool_choice_to_responses),
         ~Has(d, "bad")
  PROVE  DOMAIN d \subseteq {"tool_choice"} /\ Field(d, "tool_choice", s, "tool_choice")
<1>1. CASE Has(s, "tool_choice")
  <2>1. d = Refused \/ d = Just("tool_choice", s["tool_choice"])
    BY <1>1 DEF Mapped, responses_tool_choice_to_chat, chat_tool_choice_to_responses
  <2>2. d # Refused
    BY Single DEF Refused, Has
  <2>3. DOMAIN d = {"tool_choice"} /\ d["tool_choice"] = s["tool_choice"]
    BY <2>1, <2>2, Single
  <2> QED  BY <1>1, <2>3 DEF Field, Has
<1>2. CASE ~Has(s, "tool_choice")
  <2>1. d = <<>>
    BY <1>2 DEF Mapped
  <2> QED  BY <1>2, <2>1, Nowhere DEF Field, Has
<1> QED  BY <1>1, <1>2

LEMMA ResponsesAtTheHub ==
  ASSUME NEW r, NEW s, s = r.settings,
         Has(s, "tools") => s["tools"] \in Seq(ToolForm),
         Has(s, "tool_choice") => OpenAIChoice(s["tool_choice"]),
         responses_to_chat(r) # Bad,
         NEW h, h = responses_to_chat(r).settings, ~Has(h, "bad")
  PROVE  /\ DOMAIN s \subseteq {"model", "max_output_tokens", "tools", "tool_choice", "temperature"}
         /\ HubForm(h) /\ AsksAlike("responses", s, "chat", h)
         /\ Has(h, "tool_choice") => Has(s, "tool_choice")
<1>1. PICK a, b, c, d :
        /\ a = Copy(s, "max_output_tokens", "max_completion_tokens")
        /\ b = Keep(s, {"model", "temperature"})
        /\ c = EachMapped(s, "tools", responses_tools_to_chat)
        /\ d = Mapped(s, "tool_choice", "tool_choice", responses_tool_choice_to_chat)
        /\ h = Fields(<<a, b, c, d>>)
  <2>1. h = Fields(<<Copy(s, "max_output_tokens", "max_completion_tokens"),
                     Keep(s, {"model", "temperature"}),
                     EachMapped(s, "tools", responses_tools_to_chat),
                     Mapped(s, "tool_choice", "tool_choice", responses_tool_choice_to_chat)>>)
    BY Zenon DEF responses_to_chat, Request
  <2> QED  BY <2>1, Zenon
<1>2. DOMAIN s \subseteq {"model", "max_output_tokens", "tools", "tool_choice", "temperature"}
  <2>1. Only(s, {"model", "max_output_tokens", "tools", "tool_choice", "temperature"})
    BY SMT DEF responses_to_chat, Each
  <2> QED  BY <2>1 DEF Only
<1>3. /\ DOMAIN h = DOMAIN a \cup DOMAIN b \cup DOMAIN c \cup DOMAIN d
      /\ \A x : /\ InNone(x, {b, c, d}) => Field(h, x, a, x)
                /\ InNone(x, {a, c, d}) => Field(h, x, b, x)
                /\ InNone(x, {a, b, d}) => Field(h, x, c, x)
                /\ InNone(x, {a, b, c}) => Field(h, x, d, x)
  <2>1. LET t == Fields(<<a, b, c, d>>) IN
        /\ DOMAIN t = DOMAIN a \cup DOMAIN b \cup DOMAIN c \cup DOMAIN d
        /\ \A x : /\ InNone(x, {b, c, d}) => Field(t, x, a, x)
                  /\ InNone(x, {a, c, d}) => Field(t, x, b, x)
                  /\ InNone(x, {a, b, d}) => Field(t, x, c, x)
                  /\ InNone(x, {a, b, c}) => Field(t, x, d, x)
    BY Four
  <2>2. h = Fields(<<a, b, c, d>>)
    BY <1>1
  <2> QED  BY <2>1, <2>2, Zenon
<1>4. /\ DOMAIN a \subseteq {"max_completion_tokens"}
      /\ Field(a, "max_completion_tokens", s, "max_output_tokens")
  BY <1>1, Copied
<1>5. /\ DOMAIN b \subseteq {"model", "temperature"}
      /\ Field(b, "temperature", s, "temperature")
  BY <1>1, Kept
<1>6. ToolsPass(s, c) /\ DOMAIN c \subseteq {"tools"}
  BY <1>1, <1>3, ToolsFromResponses DEF Has, ToolsPass
<1>7. DOMAIN d \subseteq {"tool_choice"} /\ Field(d, "tool_choice", s, "tool_choice")
  BY <1>1, <1>3, MappedInResponses DEF Has
<1>8. /\ Field(h, "max_completion_tokens", s, "max_output_tokens")
      /\ Field(h, "temperature", s, "temperature")
      /\ Field(h, "tools", c, "tools")
      /\ Field(h, "tool_choice", s, "tool_choice")
  BY <1>3, <1>4, <1>5, <1>6, <1>7, FieldChain DEF InNone, Has
<1>9. DOMAIN h \subseteq {"model", "max_completion_tokens", "temperature", "tools", "tool_choice"}
  BY <1>3, <1>4, <1>5, <1>6, <1>7
<1>10. ToolList(s) = ToolList(h) /\ (Has(h, "tools") => h["tools"] \in Seq(ToolForm))
  BY <1>6, <1>8, SameTools
<1>11. FirstOf(s, LimitFields) = FirstOf(h, LimitFields)
  BY <1>2, <1>8, <1>9, OneOf DEF LimitFields
<1>12. FirstOf(s, WarmthFields) = FirstOf(h, WarmthFields)
  BY <1>8, OneOf DEF WarmthFields
<1>13. FirstOf(s, StopFields) = FirstOf(h, StopFields)
       /\ FirstOf(s, UserFields) = FirstOf(h, UserFields)
  BY <1>2, <1>9, NoneOf DEF StopFields, UserFields
<1>14. Chosen("responses", s) = Chosen("chat", h)
  BY <1>8 DEF Chosen, Field
<1>15. ~Serial("responses", s) /\ ~Serial("chat", h)
  BY <1>9 DEF Serial, Has
<1>16. AsksAlike("responses", s, "chat", h)
  BY <1>10, <1>11, <1>12, <1>13, <1>14, <1>15 DEF AsksAlike, SameWants, ChoiceMade
<1>17. HubForm(h)
  BY <1>8, <1>9, <1>10 DEF HubForm, HubSettings, HubFields, Field, Has
<1> QED  BY <1>2, <1>8, <1>16, <1>17 DEF Field

-----------------------------------------------------------------------------
(* An Anthropic or a Gemini request, read into the hub, asks there for     *)
(* what it asked for.                                                      *)
LEMMA MappedFromAnthropic ==
  ASSUME NEW s, Has(s, "tool_choice") => AnthropicChoice(s["tool_choice"]),
         NEW d, d = Mapped(s, "tool_choice", "tool_choice", anthropic_tool_choice_to_openai),
         ~Has(d, "bad")
  PROVE  /\ DOMAIN d \subseteq {"tool_choice"} /\ (Has(d, "tool_choice") <=> Has(s, "tool_choice"))
         /\ Has(s, "tool_choice") =>
              /\ d["tool_choice"] = anthropic_tool_choice_to_openai(s["tool_choice"])
              /\ OpenAIChoice(d["tool_choice"])
<1>1. CASE Has(s, "tool_choice")
  <2> DEFINE c == anthropic_tool_choice_to_openai(s["tool_choice"])
  <2>1. d = Refused \/ (c # Bad /\ d = Just("tool_choice", c))
    BY <1>1 DEF Mapped
  <2>2. d # Refused
    BY Single DEF Refused, Has
  <2>3. OpenAIChoice(c)
    BY <1>1, <2>1, <2>2, ChoiceRead
  <2> HIDE DEF c
  <2>4. DOMAIN d = {"tool_choice"} /\ d["tool_choice"] = c
    BY <2>1, <2>2, Single
  <2> QED  BY <1>1, <2>3, <2>4 DEF Has, c
<1>2. CASE ~Has(s, "tool_choice")
  <2>1. d = <<>>
    BY <1>2 DEF Mapped
  <2> QED  BY <1>2, <2>1, Nowhere DEF Has
<1> QED  BY <1>1, <1>2

LEMMA AnthropicAtTheHub ==
  ASSUME NEW r, NEW s, s = r.settings,
         Has(s, "tools") => s["tools"] \in Seq(ToolForm),
         Has(s, "tool_choice") => AnthropicChoice(s["tool_choice"]),
         anthropic_to_openai_chat(r) # Bad,
         NEW h, h = anthropic_to_openai_chat(r).settings, ~Has(h, "bad")
  PROVE  /\ DOMAIN s \subseteq {"model", "max_tokens", "tools", "tool_choice", "temperature",
                                "stop_sequences", "user_id"}
         /\ HubForm(h) /\ AsksAlike("anthropic", s, "chat", h)
         /\ Has(h, "tool_choice") => Has(s, "tool_choice")
<1> DEFINE serial == Has(s, "tool_choice") /\ s["tool_choice"].disable
<1>1. PICK a, b, c, d, e, g :
        /\ a = Keep(s, {"model", "max_tokens", "temperature"})
        /\ b = Copy(s, "stop_sequences", "stop")
        /\ c = Copy(s, "user_id", "user")
        /\ d = EachMapped(s, "tools", convert_anthropic_tools)
        /\ e = Mapped(s, "tool_choice", "tool_choice", anthropic_tool_choice_to_openai)
        /\ g = IF serial THEN Just("parallel_tool_calls", FALSE) ELSE <<>>
        /\ h = Fields(<<a, b, c, d, e, g>>)
  <2>1. h = Fields(<<Keep(s, {"model", "max_tokens", "temperature"}),
                     Copy(s, "stop_sequences", "stop"), Copy(s, "user_id", "user"),
                     EachMapped(s, "tools", convert_anthropic_tools),
                     Mapped(s, "tool_choice", "tool_choice", anthropic_tool_choice_to_openai),
                     IF serial THEN Just("parallel_tool_calls", FALSE) ELSE <<>>>>)
    BY Zenon DEF anthropic_to_openai_chat, Request
  <2> QED  BY <2>1, ZenonT(30)
<1>2. DOMAIN s \subseteq {"model", "max_tokens", "tools", "tool_choice", "temperature",
                          "stop_sequences", "user_id"}
  <2>1. Only(s, {"model", "max_tokens", "tools", "tool_choice", "temperature",
                 "stop_sequences", "user_id"})
    BY Zenon DEF anthropic_to_openai_chat
  <2> QED  BY <2>1 DEF Only
<1>3. /\ DOMAIN h = DOMAIN a \cup DOMAIN b \cup DOMAIN c \cup DOMAIN d \cup DOMAIN e \cup DOMAIN g
      /\ \A x : /\ InNone(x, {b, c, d, e, g}) => Field(h, x, a, x)
                /\ InNone(x, {a, c, d, e, g}) => Field(h, x, b, x)
                /\ InNone(x, {a, b, d, e, g}) => Field(h, x, c, x)
                /\ InNone(x, {a, b, c, e, g}) => Field(h, x, d, x)
                /\ InNone(x, {a, b, c, d, g}) => Field(h, x, e, x)
                /\ InNone(x, {a, b, c, d, e}) => Field(h, x, g, x)
  <2>1. LET t == Fields(<<a, b, c, d, e, g>>) IN
        /\ DOMAIN t = DOMAIN a \cup DOMAIN b \cup DOMAIN c \cup DOMAIN d \cup DOMAIN e \cup DOMAIN g
        /\ \A x : /\ InNone(x, {b, c, d, e, g}) => Field(t, x, a, x)
                  /\ InNone(x, {a, c, d, e, g}) => Field(t, x, b, x)
                  /\ InNone(x, {a, b, d, e, g}) => Field(t, x, c, x)
                  /\ InNone(x, {a, b, c, e, g}) => Field(t, x, d, x)
                  /\ InNone(x, {a, b, c, d, g}) => Field(t, x, e, x)
                  /\ InNone(x, {a, b, c, d, e}) => Field(t, x, g, x)
    BY Six
  <2>2. h = Fields(<<a, b, c, d, e, g>>)
    BY <1>1
  <2> QED  BY <2>1, <2>2, Zenon
<1>4. /\ DOMAIN a \subseteq {"model", "max_tokens", "temperature"}
      /\ Field(a, "max_tokens", s, "max_tokens") /\ Field(a, "temperature", s, "temperature")
  BY <1>1, Kept
<1>5. /\ DOMAIN b \subseteq {"stop"} /\ Field(b, "stop", s, "stop_sequences")
      /\ DOMAIN c \subseteq {"user"} /\ Field(c, "user", s, "user_id")
  BY <1>1, Copied
<1>6. ToolsPass(s, d) /\ DOMAIN d \subseteq {"tools"}
  <2>1. ~Has(d, "bad")
    BY <1>3 DEF Has
  <2>2. ToolsPass(s, d)
    BY <1>1, <2>1, ToolsFromAnthropic
  <2> QED  BY <2>2 DEF ToolsPass
<1>7. /\ DOMAIN e \subseteq {"tool_choice"} /\ (Has(e, "tool_choice") <=> Has(s, "tool_choice"))
      /\ Has(s, "tool_choice") =>
           /\ e["tool_choice"] = anthropic_tool_choice_to_openai(s["tool_choice"])
           /\ OpenAIChoice(e["tool_choice"])
  <2>1. ~Has(e, "bad")
    BY <1>3 DEF Has
  <2>2. e = Mapped(s, "tool_choice", "tool_choice", anthropic_tool_choice_to_openai)
    BY <1>1
  <2> QED  BY <2>1, <2>2, MappedFromAnthropic
<1>8. /\ DOMAIN g \subseteq {"parallel_tool_calls"} /\ (Has(g, "parallel_tool_calls") <=> serial)
      /\ serial => g["parallel_tool_calls"] = FALSE
  <2>1. CASE serial
    <3>1. g = Just("parallel_tool_calls", FALSE)
      BY <1>1, <2>1
    <3>2. DOMAIN g = {"parallel_tool_calls"} /\ g["parallel_tool_calls"] = FALSE
      BY <3>1, Single
    <3> QED  BY <2>1, <3>2 DEF Has
  <2>2. CASE ~serial
    <3>1. g = <<>>
      BY <1>1, <2>2
    <3> QED  BY <2>2, <3>1, Nowhere DEF Has
  <2> QED  BY <2>1, <2>2
<1> HIDE DEF serial
<1>9. /\ Field(h, "max_tokens", s, "max_tokens")
      /\ Field(h, "temperature", s, "temperature")
      /\ Field(h, "stop", s, "stop_sequences")
      /\ Field(h, "user", s, "user_id")
      /\ Field(h, "tools", d, "tools")
      /\ Field(h, "tool_choice", e, "tool_choice")
      /\ Field(h, "parallel_tool_calls", g, "parallel_tool_calls")
  BY <1>3, <1>4, <1>5, <1>6, <1>7, <1>8, FieldChain DEF InNone, Has
<1>10. DOMAIN h \subseteq {"model", "max_tokens", "temperature", "stop", "user", "tools",
                           "tool_choice", "parallel_tool_calls"}
  BY <1>3, <1>4, <1>5, <1>6, <1>7, <1>8
<1>11. ToolList(s) = ToolList(h) /\ (Has(h, "tools") => h["tools"] \in Seq(ToolForm))
  BY <1>6, <1>9, SameTools
<1>12. FirstOf(s, LimitFields) = FirstOf(h, LimitFields)
  BY <1>2, <1>9, <1>10, OneOf DEF LimitFields
<1>13. FirstOf(s, WarmthFields) = FirstOf(h, WarmthFields)
  BY <1>9, OneOf DEF WarmthFields
<1>14. FirstOf(s, StopFields) = FirstOf(h, StopFields)
  BY <1>2, <1>9, <1>10, OneOf DEF StopFields
<1>15. FirstOf(s, UserFields) = FirstOf(h, UserFields)
  <2>1. DOMAIN s \cap UserFields \subseteq {"user_id"} /\ "user_id" \in UserFields
    BY <1>2 DEF UserFields
  <2>2. DOMAIN h \cap UserFields \subseteq {"user"} /\ "user" \in UserFields
    BY <1>10 DEF UserFields
  <2> QED  BY <1>9, <2>1, <2>2, OneOf
<1>16. Chosen("anthropic", s) = Chosen("chat", h)
  BY <1>7, <1>9 DEF Chosen, Field
<1>17. ChoiceMade("anthropic", s) = ChoiceMade("chat", h)
  BY <1>11, <1>16 DEF ChoiceMade
<1>18. serial <=> Has(h, "parallel_tool_calls") /\ ~h["parallel_tool_calls"]
  BY <1>8, <1>9 DEF Field
<1>19. Serial("anthropic", s) <=> Serial("chat", h)
  BY <1>11, <1>17, <1>18 DEF Serial, serial
<1>20. AsksAlike("anthropic", s, "chat", h)
  BY <1>11, <1>12, <1>13, <1>14, <1>15, <1>17, <1>19 DEF AsksAlike, SameWants
<1>21. HubForm(h)
  BY <1>7, <1>8, <1>9, <1>10, <1>11 DEF HubForm, HubSettings, HubFields, Field, Has
<1> QED  BY <1>2, <1>7, <1>9, <1>20, <1>21 DEF Field

LEMMA MappedFromGemini ==
  ASSUME NEW s,
         NEW d, d = Mapped(s, "toolConfig", "tool_choice", gemini_tool_choice_to_chat),
         ~Has(d, "bad")
  PROVE  /\ DOMAIN d \subseteq {"tool_choice"} /\ (Has(d, "tool_choice") <=> Has(s, "toolConfig"))
         /\ Has(s, "toolConfig") =>
              /\ d["tool_choice"] = gemini_tool_choice_to_chat(s["toolConfig"])
              /\ OpenAIChoice(d["tool_choice"])
<1>1. CASE Has(s, "toolConfig")
  <2> DEFINE c == gemini_tool_choice_to_chat(s["toolConfig"])
  <2>1. d = Refused \/ (c # Bad /\ d = Just("tool_choice", c))
    BY <1>1 DEF Mapped
  <2>2. d # Refused
    BY Single DEF Refused, Has
  <2>3. OpenAIChoice(c)
    BY <1>1, <2>1, <2>2, ChoiceRead
  <2> HIDE DEF c
  <2>4. DOMAIN d = {"tool_choice"} /\ d["tool_choice"] = c
    BY <2>1, <2>2, Single
  <2> QED  BY <1>1, <2>3, <2>4 DEF Has, c
<1>2. CASE ~Has(s, "toolConfig")
  <2>1. d = <<>>
    BY <1>2 DEF Mapped
  <2> QED  BY <1>2, <2>1, Nowhere DEF Has
<1> QED  BY <1>1, <1>2

LEMMA GeminiAtTheHub ==
  ASSUME NEW r, NEW s, s = r.settings, NEW source_model,
         Has(s, "tools") => s["tools"] \in Seq(ToolForm),
         gemini_to_chat(source_model, r) # Bad,
         NEW h, h = gemini_to_chat(source_model, r).settings, ~Has(h, "bad")
  PROVE  /\ DOMAIN s \subseteq {"maxOutputTokens", "temperature", "stopSequences", "tools",
                                "toolConfig"}
         /\ HubForm(h) /\ AsksAlike("gemini", s, "chat", h)
         /\ Has(h, "tool_choice") => Has(s, "toolConfig")
<1>1. PICK a, b, c, d, e, g :
        /\ a = Just("model", source_model)
        /\ b = Copy(s, "maxOutputTokens", "max_completion_tokens")
        /\ c = Keep(s, {"temperature"})
        /\ d = Copy(s, "stopSequences", "stop")
        /\ e = EachMapped(s, "tools", gemini_tools_to_chat)
        /\ g = Mapped(s, "toolConfig", "tool_choice", gemini_tool_choice_to_chat)
        /\ h = Fields(<<a, b, c, d, e, g>>)
  <2>1. h = Fields(<<Just("model", source_model),
                     Copy(s, "maxOutputTokens", "max_completion_tokens"),
                     Keep(s, {"temperature"}), Copy(s, "stopSequences", "stop"),
                     EachMapped(s, "tools", gemini_tools_to_chat),
                     Mapped(s, "toolConfig", "tool_choice", gemini_tool_choice_to_chat)>>)
    BY Zenon DEF gemini_to_chat, Request
  <2> QED  BY <2>1, Zenon
<1>2. DOMAIN s \subseteq {"maxOutputTokens", "temperature", "stopSequences", "tools",
                          "toolConfig"}
  <2>1. Only(s, {"maxOutputTokens", "temperature", "stopSequences", "tools", "toolConfig"})
    BY Zenon DEF gemini_to_chat
  <2> QED  BY <2>1 DEF Only
<1>3. /\ DOMAIN h = DOMAIN a \cup DOMAIN b \cup DOMAIN c \cup DOMAIN d \cup DOMAIN e \cup DOMAIN g
      /\ \A x : /\ InNone(x, {b, c, d, e, g}) => Field(h, x, a, x)
                /\ InNone(x, {a, c, d, e, g}) => Field(h, x, b, x)
                /\ InNone(x, {a, b, d, e, g}) => Field(h, x, c, x)
                /\ InNone(x, {a, b, c, e, g}) => Field(h, x, d, x)
                /\ InNone(x, {a, b, c, d, g}) => Field(h, x, e, x)
                /\ InNone(x, {a, b, c, d, e}) => Field(h, x, g, x)
  <2>1. LET t == Fields(<<a, b, c, d, e, g>>) IN
        /\ DOMAIN t = DOMAIN a \cup DOMAIN b \cup DOMAIN c \cup DOMAIN d \cup DOMAIN e \cup DOMAIN g
        /\ \A x : /\ InNone(x, {b, c, d, e, g}) => Field(t, x, a, x)
                  /\ InNone(x, {a, c, d, e, g}) => Field(t, x, b, x)
                  /\ InNone(x, {a, b, d, e, g}) => Field(t, x, c, x)
                  /\ InNone(x, {a, b, c, e, g}) => Field(t, x, d, x)
                  /\ InNone(x, {a, b, c, d, g}) => Field(t, x, e, x)
                  /\ InNone(x, {a, b, c, d, e}) => Field(t, x, g, x)
    BY Six
  <2>2. h = Fields(<<a, b, c, d, e, g>>)
    BY <1>1
  <2> QED  BY <2>1, <2>2, Zenon
<1>4. /\ DOMAIN a = {"model"}
      /\ DOMAIN c \subseteq {"temperature"} /\ Field(c, "temperature", s, "temperature")
  BY <1>1, Kept, Single
<1>5. /\ DOMAIN b \subseteq {"max_completion_tokens"}
      /\ Field(b, "max_completion_tokens", s, "maxOutputTokens")
      /\ DOMAIN d \subseteq {"stop"} /\ Field(d, "stop", s, "stopSequences")
  BY <1>1, Copied
<1>6. ToolsPass(s, e) /\ DOMAIN e \subseteq {"tools"}
  BY <1>1, <1>3, ToolsFromGemini DEF Has, ToolsPass
<1>7. /\ DOMAIN g \subseteq {"tool_choice"} /\ (Has(g, "tool_choice") <=> Has(s, "toolConfig"))
      /\ Has(s, "toolConfig") =>
           /\ g["tool_choice"] = gemini_tool_choice_to_chat(s["toolConfig"])
           /\ OpenAIChoice(g["tool_choice"])
  BY <1>1, <1>3, MappedFromGemini DEF Has
<1>9. /\ Field(h, "max_completion_tokens", s, "maxOutputTokens")
      /\ Field(h, "temperature", s, "temperature")
      /\ Field(h, "stop", s, "stopSequences")
      /\ Field(h, "tools", e, "tools")
      /\ Field(h, "tool_choice", g, "tool_choice")
  BY <1>3, <1>4, <1>5, <1>6, <1>7, FieldChain DEF InNone, Has
<1>10. DOMAIN h \subseteq {"model", "max_completion_tokens", "temperature", "stop", "tools",
                           "tool_choice"}
  BY <1>3, <1>4, <1>5, <1>6, <1>7
<1>11. ToolList(s) = ToolList(h) /\ (Has(h, "tools") => h["tools"] \in Seq(ToolForm))
  BY <1>6, <1>9, SameTools
<1>12. FirstOf(s, LimitFields) = FirstOf(h, LimitFields)
  BY <1>2, <1>9, <1>10, OneOf DEF LimitFields
<1>13. FirstOf(s, WarmthFields) = FirstOf(h, WarmthFields)
  BY <1>9, OneOf DEF WarmthFields
<1>14. FirstOf(s, StopFields) = FirstOf(h, StopFields)
  <2>1. "stop" \in StopFields /\ "stopSequences" \in StopFields
        /\ DOMAIN s \cap StopFields \subseteq {"stopSequences"}
        /\ DOMAIN h \cap StopFields \subseteq {"stop"}
    BY <1>2, <1>10 DEF StopFields
  <2> QED  BY <1>9, <2>1, OneOf
<1>15. FirstOf(s, UserFields) = FirstOf(h, UserFields)
  BY <1>2, <1>10, NoneOf DEF UserFields
<1>16. Chosen("gemini", s) = Chosen("chat", h)
  BY <1>7, <1>9 DEF Chosen, Field
<1>17. ChoiceMade("gemini", s) = ChoiceMade("chat", h)
  BY <1>11, <1>16 DEF ChoiceMade
<1>19. ~Serial("gemini", s) /\ ~Serial("chat", h)
  BY <1>10 DEF Serial, Has
<1>20. AsksAlike("gemini", s, "chat", h)
  BY <1>11, <1>12, <1>13, <1>14, <1>15, <1>17, <1>19 DEF AsksAlike, SameWants
<1>21. HubForm(h)
  BY <1>7, <1>9, <1>10, <1>11 DEF HubForm, HubSettings, HubFields, Field, Has
<1> QED  BY <1>2, <1>7, <1>9, <1>20, <1>21 DEF Field

-----------------------------------------------------------------------------
(* The hub may hold the limit of an answer under two names; the target     *)
(* gets one of them (translate.rs, reconcile_max_tokens).                  *)
LEMMA LimitReconciled ==
  ASSUME NEW s, NEW field \in LimitFields,
         DOMAIN s \cap {"max_output_tokens", "maxOutputTokens"} = {},
         NEW d, d = reconcile_max_tokens(s, field), ~Has(d, "bad")
  PROVE  DOMAIN d \subseteq {field} /\ FirstOf(s, LimitFields) = FirstOf(d, LimitFields)
<1>1. FirstOf(s, LimitFields) = Limits(s)
  <2>1. DOMAIN s \cap LimitFields = DOMAIN s \cap {"max_tokens", "max_completion_tokens"}
    BY DEF LimitFields
  <2> QED  BY <2>1 DEF FirstOf, Limits
<1>2. CASE Limits(s) = {}
  <2>1. d = <<>>
    BY <1>2 DEF reconcile_max_tokens
  <2>2. FirstOf(d, LimitFields) = {}
    BY <2>1, Nowhere DEF FirstOf
  <2> QED  BY <1>1, <1>2, <2>1, <2>2, Nowhere
<1>3. CASE Limits(s) # {}
  <2>1. d # Refused
    <3>1. DOMAIN Refused = {"bad"}
      BY Single DEF Refused
    <3> QED  BY <3>1 DEF Has
  <2>2. PICK n \in Limits(s) : Limits(s) = {n}
    BY <1>3, <2>1 DEF reconcile_max_tokens
  <2>3. (CHOOSE m \in Limits(s) : TRUE) = n
    BY <2>2
  <2>4. d = Just(field, n)
    BY <1>3, <2>2, <2>3 DEF reconcile_max_tokens
  <2>5. DOMAIN d = {field} /\ d[field] = n
    BY <2>4, Single
  <2>6. FirstOf(d, LimitFields) = {n}
    BY <2>5 DEF FirstOf
  <2> QED  BY <1>1, <2>2, <2>5, <2>6
<1> QED  BY <1>2, <1>3

(* A Responses or a Gemini request, written from the hub, asks for what    *)
(* the hub asked for; only Responses does not say to call one tool at a    *)
(* time.                                                                   *)
LEMMA ToResponses ==
  ASSUME NEW r, NEW s, s = r.settings, HubSettings(s), chat_to_responses(r) # Bad,
         NEW h, h = chat_to_responses(r).settings, ~Has(h, "bad")
  PROVE  /\ DOMAIN s \subseteq HubFields
         /\ DOMAIN h \subseteq {"model", "max_output_tokens", "temperature", "tools", "tool_choice"}
         /\ SameWants("chat", s, "responses", h)
         /\ Field(h, "model", s, "model")
<1>1. PICK a, b, c, d :
        /\ a = reconcile_max_tokens(s, "max_output_tokens")
        /\ b = Keep(s, {"model", "temperature"})
        /\ c = EachMapped(s, "tools", chat_tools_to_responses)
        /\ d = Mapped(s, "tool_choice", "tool_choice", chat_tool_choice_to_responses)
        /\ h = Fields(<<a, b, c, d>>)
  <2>1. h = Fields(<<reconcile_max_tokens(s, "max_output_tokens"),
                     Keep(s, {"model", "temperature"}),
                     EachMapped(s, "tools", chat_tools_to_responses),
                     Mapped(s, "tool_choice", "tool_choice", chat_tool_choice_to_responses)>>)
    BY Zenon DEF chat_to_responses, Request
  <2> QED  BY <2>1, Zenon
<1>2. DOMAIN s \subseteq {"model", "max_tokens", "max_completion_tokens", "tools",
                          "tool_choice", "temperature", "n", "parallel_tool_calls",
                          "response_format"}
  <2>1. Only(s, {"model", "max_tokens", "max_completion_tokens", "tools", "tool_choice",
                 "temperature", "n", "parallel_tool_calls", "response_format"})
    BY Zenon DEF chat_to_responses
  <2> QED  BY <2>1 DEF Only
<1>3. /\ DOMAIN h = DOMAIN a \cup DOMAIN b \cup DOMAIN c \cup DOMAIN d
      /\ \A x : /\ InNone(x, {b, c, d}) => Field(h, x, a, x)
                /\ InNone(x, {a, c, d}) => Field(h, x, b, x)
                /\ InNone(x, {a, b, d}) => Field(h, x, c, x)
                /\ InNone(x, {a, b, c}) => Field(h, x, d, x)
  <2>1. LET t == Fields(<<a, b, c, d>>) IN
        /\ DOMAIN t = DOMAIN a \cup DOMAIN b \cup DOMAIN c \cup DOMAIN d
        /\ \A x : /\ InNone(x, {b, c, d}) => Field(t, x, a, x)
                  /\ InNone(x, {a, c, d}) => Field(t, x, b, x)
                  /\ InNone(x, {a, b, d}) => Field(t, x, c, x)
                  /\ InNone(x, {a, b, c}) => Field(t, x, d, x)
    BY Four
  <2>2. h = Fields(<<a, b, c, d>>)
    BY <1>1
  <2> QED  BY <2>1, <2>2, Zenon
<1>4. DOMAIN a \subseteq {"max_output_tokens"}
      /\ FirstOf(s, LimitFields) = FirstOf(a, LimitFields)
  <2>1. /\ "max_output_tokens" \in LimitFields
        /\ DOMAIN s \cap {"max_output_tokens", "maxOutputTokens"} = {}
    BY <1>2 DEF LimitFields
  <2>2. a = reconcile_max_tokens(s, "max_output_tokens") /\ ~Has(a, "bad")
    BY <1>1, <1>3 DEF Has
  <2> QED  BY <2>1, <2>2, LimitReconciled
<1>5. /\ DOMAIN b \subseteq {"model", "temperature"}
      /\ Field(b, "temperature", s, "temperature") /\ Field(b, "model", s, "model")
  BY <1>1, Kept
<1>6. ToolsPass(s, c) /\ DOMAIN c \subseteq {"tools"}
  BY <1>1, <1>3, ToolsToResponses DEF Has, ToolsPass, HubSettings
<1>7. DOMAIN d \subseteq {"tool_choice"} /\ Field(d, "tool_choice", s, "tool_choice")
  <2>1. ~Has(d, "bad")
    BY <1>3 DEF Has
  <2>2. d = Mapped(s, "tool_choice", "tool_choice", chat_tool_choice_to_responses)
    BY <1>1
  <2> QED  BY <2>1, <2>2, MappedInResponses
<1>8. /\ Field(h, "max_output_tokens", a, "max_output_tokens")
      /\ Field(h, "temperature", s, "temperature") /\ Field(h, "model", s, "model")
      /\ Field(h, "tools", c, "tools")
      /\ Field(h, "tool_choice", s, "tool_choice")
  BY <1>3, <1>4, <1>5, <1>6, <1>7, FieldChain DEF InNone, Has
<1>9. DOMAIN h \subseteq {"model", "max_output_tokens", "temperature", "tools", "tool_choice"}
  BY <1>3, <1>4, <1>5, <1>6, <1>7
<1>10. ToolList(s) = ToolList(h)
  BY <1>6, <1>8, SameTools DEF HubSettings
<1>11. FirstOf(s, LimitFields) = FirstOf(h, LimitFields)
  <2>1. /\ "max_output_tokens" \in LimitFields
        /\ DOMAIN a \cap LimitFields \subseteq {"max_output_tokens"}
        /\ DOMAIN h \cap LimitFields \subseteq {"max_output_tokens"}
    BY <1>4, <1>9 DEF LimitFields
  <2> QED  BY <1>4, <1>8, <2>1, OneOf
<1>12. FirstOf(s, WarmthFields) = FirstOf(h, WarmthFields)
  BY <1>8, OneOf DEF WarmthFields
<1>13. FirstOf(s, StopFields) = FirstOf(h, StopFields)
       /\ FirstOf(s, UserFields) = FirstOf(h, UserFields)
  BY <1>2, <1>9, NoneOf DEF StopFields, UserFields
<1>14. Chosen("chat", s) = Chosen("responses", h)
  BY <1>8 DEF Chosen, Field
<1>16. SameWants("chat", s, "responses", h)
  BY <1>10, <1>11, <1>12, <1>13, <1>14 DEF SameWants, ChoiceMade
<1>17. DOMAIN s \subseteq HubFields
  BY <1>2 DEF HubFields
<1> QED  BY <1>8, <1>9, <1>16, <1>17

LEMMA MappedToGemini ==
  ASSUME NEW s, Has(s, "tool_choice") => OpenAIChoice(s["tool_choice"]),
         NEW d, d = Mapped(s, "tool_choice", "toolConfig", chat_tool_choice_to_gemini),
         ~Has(d, "bad")
  PROVE  /\ DOMAIN d \subseteq {"toolConfig"} /\ (Has(d, "toolConfig") <=> Has(s, "tool_choice"))
         /\ Has(s, "tool_choice") =>
              gemini_tool_choice_to_chat(d["toolConfig"]) = s["tool_choice"]
<1>1. CASE Has(s, "tool_choice")
  <2> DEFINE c == chat_tool_choice_to_gemini(s["tool_choice"])
  <2>1. d = Refused \/ (c # Bad /\ d = Just("toolConfig", c))
    BY <1>1 DEF Mapped
  <2>2. d # Refused
    BY Single DEF Refused, Has
  <2>3. gemini_tool_choice_to_chat(c) = s["tool_choice"]
    BY <1>1, <2>1, <2>2, ChoiceWritten
  <2> HIDE DEF c
  <2>4. DOMAIN d = {"toolConfig"} /\ d["toolConfig"] = c
    BY <2>1, <2>2, Single
  <2> QED  BY <1>1, <2>3, <2>4 DEF Has
<1>2. CASE ~Has(s, "tool_choice")
  <2>1. d = <<>>
    BY <1>2 DEF Mapped
  <2> QED  BY <1>2, <2>1, Nowhere DEF Has
<1> QED  BY <1>1, <1>2

LEMMA ToGemini ==
  ASSUME NEW r, NEW s, s = r.settings, HubSettings(s), chat_to_gemini(r) # Bad,
         NEW h, h = chat_to_gemini(r).settings, ~Has(h, "bad")
  PROVE  /\ DOMAIN s \subseteq HubFields
         /\ DOMAIN h \subseteq {"maxOutputTokens", "temperature", "stopSequences", "tools",
                                "toolConfig"}
         /\ AsksAlike("chat", s, "gemini", h)
         /\ \A i \in DOMAIN ToolList(h) : ToolList(h)[i].description # "unset"
<1>1. PICK a, b, c, d, e :
        /\ a = reconcile_max_tokens(s, "maxOutputTokens")
        /\ b = Keep(s, {"temperature"})
        /\ c = Copy(s, "stop", "stopSequences")
        /\ d = EachMapped(s, "tools", chat_tools_to_gemini)
        /\ e = Mapped(s, "tool_choice", "toolConfig", chat_tool_choice_to_gemini)
        /\ h = Fields(<<a, b, c, d, e>>)
  <2>1. h = Fields(<<reconcile_max_tokens(s, "maxOutputTokens"),
                     Keep(s, {"temperature"}), Copy(s, "stop", "stopSequences"),
                     EachMapped(s, "tools", chat_tools_to_gemini),
                     Mapped(s, "tool_choice", "toolConfig", chat_tool_choice_to_gemini)>>)
    BY Zenon DEF chat_to_gemini, Request
  <2> QED  BY <2>1, Zenon
<1>2. /\ DOMAIN s \subseteq {"model", "max_tokens", "max_completion_tokens", "tools",
                             "tool_choice", "temperature", "stop", "n",
                             "parallel_tool_calls", "response_format"}
      /\ ~(Has(s, "parallel_tool_calls") /\ ~s["parallel_tool_calls"])
  <2>1. /\ Only(s, {"model", "max_tokens", "max_completion_tokens", "tools", "tool_choice",
                    "temperature", "stop", "n", "parallel_tool_calls", "response_format"})
        /\ ~(Has(s, "parallel_tool_calls") /\ ~s["parallel_tool_calls"])
    BY Zenon DEF chat_to_gemini
  <2> QED  BY <2>1 DEF Only
<1>3. /\ DOMAIN h = DOMAIN a \cup DOMAIN b \cup DOMAIN c \cup DOMAIN d \cup DOMAIN e
      /\ \A x : /\ InNone(x, {b, c, d, e}) => Field(h, x, a, x)
                /\ InNone(x, {a, c, d, e}) => Field(h, x, b, x)
                /\ InNone(x, {a, b, d, e}) => Field(h, x, c, x)
                /\ InNone(x, {a, b, c, e}) => Field(h, x, d, x)
                /\ InNone(x, {a, b, c, d}) => Field(h, x, e, x)
  <2>1. LET t == Fields(<<a, b, c, d, e>>) IN
        /\ DOMAIN t = DOMAIN a \cup DOMAIN b \cup DOMAIN c \cup DOMAIN d \cup DOMAIN e
        /\ \A x : /\ InNone(x, {b, c, d, e}) => Field(t, x, a, x)
                  /\ InNone(x, {a, c, d, e}) => Field(t, x, b, x)
                  /\ InNone(x, {a, b, d, e}) => Field(t, x, c, x)
                  /\ InNone(x, {a, b, c, e}) => Field(t, x, d, x)
                  /\ InNone(x, {a, b, c, d}) => Field(t, x, e, x)
    BY Five
  <2>2. h = Fields(<<a, b, c, d, e>>)
    BY <1>1
  <2> QED  BY <2>1, <2>2, Zenon
<1>4. DOMAIN a \subseteq {"maxOutputTokens"}
      /\ FirstOf(s, LimitFields) = FirstOf(a, LimitFields)
  <2>1. /\ "maxOutputTokens" \in LimitFields
        /\ DOMAIN s \cap {"max_output_tokens", "maxOutputTokens"} = {}
    BY <1>2 DEF LimitFields
  <2>2. a = reconcile_max_tokens(s, "maxOutputTokens") /\ ~Has(a, "bad")
    BY <1>1, <1>3 DEF Has
  <2> QED  BY <2>1, <2>2, LimitReconciled
<1>5. /\ DOMAIN b \subseteq {"temperature"} /\ Field(b, "temperature", s, "temperature")
      /\ DOMAIN c \subseteq {"stopSequences"} /\ Field(c, "stopSequences", s, "stop")
  BY <1>1, Kept, Copied
<1>6. ToolsPass(s, d) /\ DOMAIN d \subseteq {"tools"}
  BY <1>1, <1>3, ToolsToGemini DEF Has, ToolsPass, HubSettings
<1>7. /\ DOMAIN e \subseteq {"toolConfig"} /\ (Has(e, "toolConfig") <=> Has(s, "tool_choice"))
      /\ Has(s, "tool_choice") =>
           gemini_tool_choice_to_chat(e["toolConfig"]) = s["tool_choice"]
  <2>1. ~Has(e, "bad")
    BY <1>3 DEF Has
  <2>2. e = Mapped(s, "tool_choice", "toolConfig", chat_tool_choice_to_gemini)
    BY <1>1
  <2> QED  BY <2>1, <2>2, MappedToGemini DEF HubSettings
<1>8. /\ Field(h, "maxOutputTokens", a, "maxOutputTokens")
      /\ Field(h, "temperature", s, "temperature")
      /\ Field(h, "stopSequences", s, "stop")
      /\ Field(h, "tools", d, "tools")
      /\ Field(h, "toolConfig", e, "toolConfig")
  BY <1>3, <1>4, <1>5, <1>6, <1>7, FieldChain DEF InNone, Has
<1>9. DOMAIN h \subseteq {"maxOutputTokens", "temperature", "stopSequences", "tools",
                          "toolConfig"}
  BY <1>3, <1>4, <1>5, <1>6, <1>7
<1>10. ToolList(s) = ToolList(h)
  BY <1>6, <1>8, SameTools DEF HubSettings
<1>11. FirstOf(s, LimitFields) = FirstOf(h, LimitFields)
  <2>1. /\ "maxOutputTokens" \in LimitFields
        /\ DOMAIN a \cap LimitFields \subseteq {"maxOutputTokens"}
        /\ DOMAIN h \cap LimitFields \subseteq {"maxOutputTokens"}
    BY <1>4, <1>9 DEF LimitFields
  <2> QED  BY <1>4, <1>8, <2>1, OneOf
<1>12. FirstOf(s, WarmthFields) = FirstOf(h, WarmthFields)
  BY <1>8, OneOf DEF WarmthFields
<1>13. FirstOf(s, StopFields) = FirstOf(h, StopFields)
  <2>1. "stop" \in StopFields /\ "stopSequences" \in StopFields
        /\ DOMAIN s \cap StopFields \subseteq {"stop"}
        /\ DOMAIN h \cap StopFields \subseteq {"stopSequences"}
    BY <1>2, <1>9 DEF StopFields
  <2> QED  BY <1>8, <2>1, OneOf
<1>14. FirstOf(s, UserFields) = FirstOf(h, UserFields)
  BY <1>2, <1>9, NoneOf DEF UserFields
<1>15. Chosen("chat", s) = Chosen("gemini", h)
  BY <1>7, <1>8 DEF Chosen, Field
<1>16. SameWants("chat", s, "gemini", h)
  BY <1>10, <1>11, <1>12, <1>13, <1>14, <1>15 DEF SameWants, ChoiceMade
<1>17. ~Serial("chat", s) /\ ~Serial("gemini", h)
  BY <1>2 DEF Serial
<1>18. DOMAIN s \subseteq HubFields
  BY <1>2 DEF HubFields
<1>19. ASSUME NEW i \in DOMAIN ToolList(h)
       PROVE  ToolList(h)[i].description # "unset"
  <2>1. Has(h, "tools")
    BY <1>19 DEF ToolList
  <2>2. h["tools"] = d["tools"] /\ Has(d, "tools") /\ d["tools"] \in Seq(ToolForm)
    BY <1>6, <1>8, <2>1 DEF Field, ToolsPass
  <2>3. ToolList(h) = [k \in DOMAIN h["tools"] |-> Plainly(h["tools"][k])]
    BY <2>1 DEF ToolList, Each, Plainly
  <2>4. d["tools"][i].description # "unset" /\ d["tools"][i] \in ToolForm
    <3>1. ~Has(d, "bad")
      BY <1>6 DEF Has
    <3>2. \A k \in DOMAIN d["tools"] : d["tools"][k].description # "unset"
      BY <1>1, <2>2, <3>1, ToolsDescribed DEF HubSettings
    <3> QED  BY <1>19, <2>2, <2>3, <3>2
  <2>5. \A u \in ToolForm : Plainly(u).description = u.description
    BY DEF ToolForm, Plainly
  <2> QED  BY <1>19, <2>2, <2>3, <2>4, <2>5
<1> QED  BY <1>9, <1>16, <1>17, <1>18, <1>19 DEF AsksAlike

-----------------------------------------------------------------------------
(* Calls one at a time, and only where calls may be made.                  *)
OneAtATime(s) == Has(s, "parallel_tool_calls") /\ ~s["parallel_tool_calls"]

LEMMA ChoiceToAnthropic ==
  ASSUME NEW s, Has(s, "tool_choice") => OpenAIChoice(s["tool_choice"]),
         NEW has_tools \in BOOLEAN,
         NEW d, d = openai_tool_choice_to_anthropic(s, has_tools), ~Has(d, "bad")
  PROVE  /\ DOMAIN d \subseteq {"tool_choice"}
         /\ Has(s, "tool_choice") =>
              /\ Has(d, "tool_choice")
              /\ anthropic_tool_choice_to_openai(d["tool_choice"]) = s["tool_choice"]
              /\ d["tool_choice"].disable <=> OneAtATime(s) /\ s["tool_choice"].mode # "none"
         /\ ~Has(s, "tool_choice") =>
              /\ Has(d, "tool_choice") <=> OneAtATime(s) /\ has_tools
              /\ Has(d, "tool_choice") =>
                   /\ anthropic_tool_choice_to_openai(d["tool_choice"]) = Choice("auto", "")
                   /\ d["tool_choice"].disable
<1> DEFINE one == OneAtATime(s)
<1>1. CASE Has(s, "tool_choice")
  <2> DEFINE c == openai_choice(s["tool_choice"], one)
  <2>1. d = Refused \/ (c # Bad /\ d = Just("tool_choice", c))
    <3>1. d = Mapped(s, "tool_choice", "tool_choice", LAMBDA x : openai_choice(x, one))
      BY <1>1, Zenon DEF openai_tool_choice_to_anthropic, OneAtATime
    <3> HIDE DEF one
    <3> QED  BY <1>1, <3>1 DEF Mapped
  <2>2. d # Refused
    <3>1. DOMAIN Refused = {"bad"}
      BY Single DEF Refused
    <3> QED  BY <3>1 DEF Has
  <2>3. one \in BOOLEAN
    BY DEF OneAtATime
  <2>4. /\ anthropic_tool_choice_to_openai(c) = s["tool_choice"]
        /\ c.disable <=> one /\ s["tool_choice"].mode # "none"
    <3> HIDE DEF one
    <3> QED  BY <1>1, <2>1, <2>2, <2>3, ChoiceWritten
  <2> HIDE DEF c
  <2>5. DOMAIN d = {"tool_choice"} /\ d["tool_choice"] = c
    BY <2>1, <2>2, Single
  <2> QED  BY <1>1, <2>4, <2>5 DEF Has
<1>2. CASE ~Has(s, "tool_choice")
  <2> DEFINE c == openai_choice(Choice("auto", ""), TRUE)
  <2>1. CASE one /\ has_tools
    <3>1. d = Just("tool_choice", c)
      BY <1>2, <2>1, Zenon DEF openai_tool_choice_to_anthropic, OneAtATime
    <3>2. c = [mode |-> "auto", name |-> "", disable |-> TRUE]
      BY DEF openai_choice, Choice
    <3> HIDE DEF c
    <3>3. anthropic_tool_choice_to_openai(c) = Choice("auto", "") /\ c.disable
      <4>1. c.mode = "auto" /\ c.disable
        BY <3>2
      <4> QED  BY <4>1 DEF anthropic_tool_choice_to_openai
    <3>4. DOMAIN d = {"tool_choice"} /\ d["tool_choice"] = c
      BY <3>1, Single
    <3> QED  BY <1>2, <2>1, <3>3, <3>4 DEF Has
  <2>2. CASE ~(one /\ has_tools)
    <3>1. d = <<>>
      BY <1>2, <2>2, Zenon DEF openai_tool_choice_to_anthropic, OneAtATime
    <3> QED  BY <1>2, <2>2, <3>1, Nowhere DEF Has
  <2> QED  BY <2>1, <2>2
<1> QED  BY <1>1, <1>2

(* An Anthropic request, written from the hub, asks for what the hub asked *)
(* for, and forbids parallel calls only where a tool may be called.        *)
LEMMA ToAnthropic ==
  ASSUME NEW r, NEW s, s = r.settings, HubSettings(s), openai_chat_to_anthropic(r) # Bad,
         NEW h, h = openai_chat_to_anthropic(r).settings, ~Has(h, "bad")
  PROVE  /\ DOMAIN s \subseteq HubFields
         /\ DOMAIN h \subseteq {"model", "max_tokens", "temperature", "stop_sequences",
                                "user_id", "tools", "tool_choice"}
         /\ AsksAlike("chat", s, "anthropic", h)
         /\ Field(h, "model", s, "model") /\ Has(h, "max_tokens")
         /\ Has(h, "tool_choice") =>
              /\ ToolList(h) # <<>> \/ Has(s, "tool_choice")
              /\ h["tool_choice"].disable => h["tool_choice"].mode # "none"
<1> DEFINE has_tools == Has(s, "tools") /\ s["tools"] # <<>>
<1>1. PICK a, b, c, d, e, g :
        /\ a = reconcile_max_tokens(s, "max_tokens")
        /\ b = Keep(s, {"model", "temperature"})
        /\ c = Copy(s, "stop", "stop_sequences")
        /\ d = Copy(s, "user", "user_id")
        /\ e = EachMapped(s, "tools", convert_openai_tools)
        /\ g = openai_tool_choice_to_anthropic(s, has_tools)
        /\ h = Fields(<<a, b, c, d, e, g>>)
  <2>1. h = Fields(<<reconcile_max_tokens(s, "max_tokens"),
                     Keep(s, {"model", "temperature"}),
                     Copy(s, "stop", "stop_sequences"), Copy(s, "user", "user_id"),
                     EachMapped(s, "tools", convert_openai_tools),
                     openai_tool_choice_to_anthropic(s, has_tools)>>)
    BY Zenon DEF openai_chat_to_anthropic, Request
  <2> HIDE DEF has_tools
  <2> QED  BY <2>1, ZenonT(30)
<1>2. DOMAIN s \subseteq {"model", "max_tokens", "max_completion_tokens", "tools",
                          "tool_choice", "temperature", "stop", "user", "n",
                          "parallel_tool_calls", "response_format"}
  <2>1. Only(s, {"model", "max_tokens", "max_completion_tokens", "tools",
                 "tool_choice", "temperature", "stop", "user", "n",
                 "parallel_tool_calls", "response_format"})
    BY Zenon DEF openai_chat_to_anthropic
  <2> QED  BY <2>1 DEF Only
<1>3. /\ DOMAIN h = DOMAIN a \cup DOMAIN b \cup DOMAIN c \cup DOMAIN d \cup DOMAIN e \cup DOMAIN g
      /\ \A x : /\ InNone(x, {b, c, d, e, g}) => Field(h, x, a, x)
                /\ InNone(x, {a, c, d, e, g}) => Field(h, x, b, x)
                /\ InNone(x, {a, b, d, e, g}) => Field(h, x, c, x)
                /\ InNone(x, {a, b, c, e, g}) => Field(h, x, d, x)
                /\ InNone(x, {a, b, c, d, g}) => Field(h, x, e, x)
                /\ InNone(x, {a, b, c, d, e}) => Field(h, x, g, x)
  <2>1. LET t == Fields(<<a, b, c, d, e, g>>) IN
        /\ DOMAIN t = DOMAIN a \cup DOMAIN b \cup DOMAIN c \cup DOMAIN d \cup DOMAIN e \cup DOMAIN g
        /\ \A x : /\ InNone(x, {b, c, d, e, g}) => Field(t, x, a, x)
                  /\ InNone(x, {a, c, d, e, g}) => Field(t, x, b, x)
                  /\ InNone(x, {a, b, d, e, g}) => Field(t, x, c, x)
                  /\ InNone(x, {a, b, c, e, g}) => Field(t, x, d, x)
                  /\ InNone(x, {a, b, c, d, g}) => Field(t, x, e, x)
                  /\ InNone(x, {a, b, c, d, e}) => Field(t, x, g, x)
    BY Six
  <2>2. h = Fields(<<a, b, c, d, e, g>>)
    BY <1>1
  <2> QED  BY <2>1, <2>2, Zenon
<1>4. DOMAIN a \subseteq {"max_tokens"}
      /\ FirstOf(s, LimitFields) = FirstOf(a, LimitFields)
  <2>1. /\ "max_tokens" \in LimitFields
        /\ DOMAIN s \cap {"max_output_tokens", "maxOutputTokens"} = {}
    BY <1>2 DEF LimitFields
  <2>2. a = reconcile_max_tokens(s, "max_tokens") /\ ~Has(a, "bad")
    BY <1>1, <1>3 DEF Has
  <2> QED  BY <2>1, <2>2, LimitReconciled
<1>5. /\ DOMAIN b \subseteq {"model", "temperature"}
      /\ Field(b, "temperature", s, "temperature") /\ Field(b, "model", s, "model")
      /\ DOMAIN c \subseteq {"stop_sequences"} /\ Field(c, "stop_sequences", s, "stop")
      /\ DOMAIN d \subseteq {"user_id"} /\ Field(d, "user_id", s, "user")
  BY <1>1, Kept, Copied
<1>6. ToolsPass(s, e) /\ DOMAIN e \subseteq {"tools"}
  BY <1>1, <1>3, ToolsToAnthropic DEF Has, ToolsPass, HubSettings
<1>7. /\ DOMAIN g \subseteq {"tool_choice"}
      /\ Has(s, "tool_choice") =>
           /\ Has(g, "tool_choice")
           /\ anthropic_tool_choice_to_openai(g["tool_choice"]) = s["tool_choice"]
           /\ g["tool_choice"].disable <=> OneAtATime(s) /\ s["tool_choice"].mode # "none"
      /\ ~Has(s, "tool_choice") =>
           /\ Has(g, "tool_choice") <=> OneAtATime(s) /\ has_tools
           /\ Has(g, "tool_choice") =>
                /\ anthropic_tool_choice_to_openai(g["tool_choice"]) = Choice("auto", "")
                /\ g["tool_choice"].disable
  <2>1. ~Has(g, "bad")
    BY <1>3 DEF Has
  <2>2. g = openai_tool_choice_to_anthropic(s, has_tools) /\ has_tools \in BOOLEAN
    BY <1>1
  <2> HIDE DEF has_tools
  <2> QED  BY <2>1, <2>2, ChoiceToAnthropic DEF HubSettings
<1>8. ToolList(s) # <<>> <=> has_tools
  BY SomeTools DEF HubSettings
<1> HIDE DEF has_tools
<1>9. /\ Field(h, "max_tokens", a, "max_tokens")
      /\ Field(h, "temperature", s, "temperature") /\ Field(h, "model", s, "model")
      /\ Field(h, "stop_sequences", s, "stop")
      /\ Field(h, "user_id", s, "user")
      /\ Field(h, "tools", e, "tools")
      /\ Field(h, "tool_choice", g, "tool_choice")
  <2>1. /\ Field(h, "max_tokens", a, "max_tokens")
        /\ Field(h, "temperature", b, "temperature") /\ Field(h, "model", b, "model")
        /\ Field(h, "stop_sequences", c, "stop_sequences")
        /\ Field(h, "user_id", d, "user_id")
        /\ Field(h, "tools", e, "tools")
        /\ Field(h, "tool_choice", g, "tool_choice")
    BY <1>3, <1>4, <1>5, <1>6, <1>7 DEF InNone, Has
  <2> QED  BY <1>5, <2>1, FieldChain
<1>10. DOMAIN h \subseteq {"model", "max_tokens", "temperature", "stop_sequences",
                           "user_id", "tools", "tool_choice"}
  BY <1>3, <1>4, <1>5, <1>6, <1>7
<1>11. ToolList(s) = ToolList(h)
  BY <1>6, <1>9, SameTools DEF HubSettings
<1>12. FirstOf(s, LimitFields) = FirstOf(h, LimitFields)
  <2>1. /\ "max_tokens" \in LimitFields
        /\ DOMAIN a \cap LimitFields \subseteq {"max_tokens"}
        /\ DOMAIN h \cap LimitFields \subseteq {"max_tokens"}
    BY <1>4, <1>10 DEF LimitFields
  <2> QED  BY <1>4, <1>9, <2>1, OneOf
<1>13. FirstOf(s, WarmthFields) = FirstOf(h, WarmthFields)
  BY <1>9, OneOf DEF WarmthFields
<1>14. FirstOf(s, StopFields) = FirstOf(h, StopFields)
  <2>1. "stop" \in StopFields /\ "stop_sequences" \in StopFields
        /\ DOMAIN s \cap StopFields \subseteq {"stop"}
        /\ DOMAIN h \cap StopFields \subseteq {"stop_sequences"}
    BY <1>2, <1>10 DEF StopFields
  <2> QED  BY <1>9, <2>1, OneOf
<1>15. FirstOf(s, UserFields) = FirstOf(h, UserFields)
  <2>1. "user" \in UserFields /\ "user_id" \in UserFields
        /\ DOMAIN s \cap UserFields \subseteq {"user"}
        /\ DOMAIN h \cap UserFields \subseteq {"user_id"}
    BY <1>2, <1>10 DEF UserFields
  <2> QED  BY <1>9, <2>1, OneOf
<1>16. Chosen("chat", s) = Chosen("anthropic", h)
  <2>1. CASE Has(s, "tool_choice")
    BY <1>7, <1>9, <2>1 DEF Chosen, Field
  <2>2. CASE ~Has(s, "tool_choice")
    BY <1>7, <1>9, <2>2 DEF Chosen, Field
  <2> QED  BY <2>1, <2>2
<1>17. ChoiceMade("chat", s) = ChoiceMade("anthropic", h)
  BY <1>11, <1>16 DEF ChoiceMade
<1>18. Serial("chat", s) <=> Serial("anthropic", h)
  <2>1. Serial("chat", s) <=>
          ToolList(s) # <<>> /\ ChoiceMade("chat", s).mode # "none" /\ OneAtATime(s)
    BY DEF Serial, OneAtATime
  <2>2. Serial("anthropic", h) <=>
          /\ ToolList(s) # <<>> /\ ChoiceMade("chat", s).mode # "none"
          /\ Has(h, "tool_choice") /\ h["tool_choice"].disable
    BY <1>11, <1>17 DEF Serial
  <2>3. ToolList(s) # <<>> => ChoiceMade("chat", s) = Chosen("chat", s)
    BY DEF ChoiceMade
  <2>4. Has(s, "tool_choice") => Chosen("chat", s) = s["tool_choice"]
    BY DEF Chosen
  <2>5. Has(h, "tool_choice") <=> Has(g, "tool_choice")
    BY <1>9 DEF Field
  <2>6. Has(g, "tool_choice") => h["tool_choice"] = g["tool_choice"]
    BY <1>9 DEF Field
  <2> QED  BY <1>7, <1>8, <2>1, <2>2, <2>3, <2>4, <2>5, <2>6
<1>19. DOMAIN s \subseteq HubFields
  BY <1>2 DEF HubFields
<1>20. AsksAlike("chat", s, "anthropic", h)
  BY <1>11, <1>12, <1>13, <1>14, <1>15, <1>17, <1>18 DEF AsksAlike, SameWants
<1>21. Has(h, "max_tokens")
  <2>1. Limits(s) # {}
    BY Zenon DEF openai_chat_to_anthropic
  <2>2. PICK x \in DOMAIN s : x \in LimitFields
    BY <2>1 DEF Limits, LimitFields
  <2>3. s[x] \in FirstOf(s, LimitFields)
    BY <2>2 DEF FirstOf
  <2>4. DOMAIN h \cap LimitFields # {}
    BY <1>12, <2>3 DEF FirstOf
  <2> QED  BY <1>10, <2>4 DEF LimitFields, Has
<1>22. ASSUME Has(h, "tool_choice")
       PROVE  /\ ToolList(h) # <<>> \/ Has(s, "tool_choice")
              /\ h["tool_choice"].disable => h["tool_choice"].mode # "none"
  <2>1. Has(g, "tool_choice") /\ h["tool_choice"] = g["tool_choice"]
    BY <1>9, <1>22 DEF Field
  <2>2. g["tool_choice"].mode = "none" =>
          anthropic_tool_choice_to_openai(g["tool_choice"]) = Choice("none", "")
    BY DEF anthropic_tool_choice_to_openai
  <2>3. Choice("none", "").mode = "none" /\ Choice("auto", "").mode = "auto"
    BY DEF Choice
  <2>4. Choice("none", "") # Choice("auto", "")
    BY <2>3
  <2> QED  BY <1>7, <1>8, <1>11, <2>1, <2>2, <2>3, <2>4
<1> QED  BY <1>9, <1>10, <1>19, <1>20, <1>21, <1>22

-----------------------------------------------------------------------------
(* Reasoning, which is taken out of a request and put back into it.        *)
AllReasoning == {"reasoning_effort", "reasoning", "thinking", "thinkingBudget", "thinkingLevel"}
EffortsIn(s) ==
  FirstOf(s, {"reasoning_effort", "reasoning"})
    \cup {e \in Efforts : "thinkingLevel" \in DOMAIN s /\ thinkingLevel[e] = s["thinkingLevel"]}
BudgetsIn(s) == FirstOf(s, {"thinking", "thinkingBudget"})

Reasons(s, R) ==
  \/ R = <<>> /\ EffortsIn(s) = {} /\ BudgetsIn(s) = {}
  \/ /\ R # <<>> /\ R[1].is = "effort" /\ R[1].effort \in Efforts
     /\ EffortsIn(s) = {R[1].effort} /\ BudgetsIn(s) = {}
  \/ R # <<>> /\ R[1].is = "budget" /\ EffortsIn(s) = {} /\ BudgetsIn(s) = {R[1].tokens}

LEMMA ReasonsSame ==
  ASSUME NEW s, NEW t, NEW R, Reasons(s, R), Reasons(t, R)
  PROVE  EffortsIn(s) = EffortsIn(t) /\ BudgetsIn(s) = BudgetsIn(t)
<1>1. R # <<>> /\ R[1].is = "effort" => R[1].is # "budget"
  OBVIOUS
<1> QED  BY <1>1 DEF Reasons

LEMMA LevelsDiffer ==
  ASSUME NEW e \in Efforts, NEW l, thinkingLevel[e] = l
  PROVE  /\ {x \in Efforts : thinkingLevel[x] = l} = {e}
         /\ LevelEffort(l) = [is |-> "effort", effort |-> e]
<1>1. ASSUME NEW x \in Efforts, thinkingLevel[x] = l
      PROVE  x = e
  BY <1>1 DEF Efforts, thinkingLevel
<1>2. {x \in Efforts : thinkingLevel[x] = l} = {e}
  BY <1>1
<1>3. (CHOOSE x \in Efforts : thinkingLevel[x] = l) = e
  BY <1>1
<1>4. LevelEffort(l) = Effort(e)
  BY <1>3, Zenon DEF LevelEffort
<1> QED  BY <1>2, <1>4 DEF Effort

LEMMA Unreasoned ==
  ASSUME NEW s, DOMAIN s \cap AllReasoning = {}
  PROVE  Reasons(s, <<>>)
<1>1. /\ DOMAIN s \cap {"reasoning_effort", "reasoning"} = {}
      /\ DOMAIN s \cap {"thinking", "thinkingBudget"} = {}
      /\ "thinkingLevel" \notin DOMAIN s
  BY DEF AllReasoning
<1> QED  BY <1>1 DEF Reasons, EffortsIn, BudgetsIn, FirstOf

(* Settings that say their reasoning with one field.                       *)
LEMMA EffortSaid ==
  ASSUME NEW s, NEW x \in {"reasoning_effort", "reasoning"}, NEW e \in Efforts,
         DOMAIN s \cap AllReasoning = {x}, s[x] = e
  PROVE  EffortsIn(s) = {e} /\ BudgetsIn(s) = {}
<1>1. /\ DOMAIN s \cap {"reasoning_effort", "reasoning"} = {x}
      /\ DOMAIN s \cap {"thinking", "thinkingBudget"} = {}
      /\ "thinkingLevel" \notin DOMAIN s
  BY DEF AllReasoning
<1>2. FirstOf(s, {"reasoning_effort", "reasoning"}) = {e}
      /\ FirstOf(s, {"thinking", "thinkingBudget"}) = {}
  BY <1>1 DEF FirstOf
<1> QED  BY <1>1, <1>2 DEF EffortsIn, BudgetsIn

LEMMA LevelSaid ==
  ASSUME NEW s, NEW e \in Efforts,
         DOMAIN s \cap AllReasoning = {"thinkingLevel"}, s["thinkingLevel"] = thinkingLevel[e]
  PROVE  EffortsIn(s) = {e} /\ BudgetsIn(s) = {}
<1>1. /\ DOMAIN s \cap {"reasoning_effort", "reasoning"} = {}
      /\ DOMAIN s \cap {"thinking", "thinkingBudget"} = {}
      /\ "thinkingLevel" \in DOMAIN s
  BY DEF AllReasoning
<1>2. FirstOf(s, {"reasoning_effort", "reasoning"}) = {}
      /\ FirstOf(s, {"thinking", "thinkingBudget"}) = {}
  BY <1>1 DEF FirstOf
<1>3. {x \in Efforts : thinkingLevel[x] = s["thinkingLevel"]} = {e}
  BY LevelsDiffer
<1> QED  BY <1>1, <1>2, <1>3 DEF EffortsIn, BudgetsIn

LEMMA BudgetSaid ==
  ASSUME NEW s, NEW x \in {"thinking", "thinkingBudget"},
         DOMAIN s \cap AllReasoning = {x}
  PROVE  EffortsIn(s) = {} /\ BudgetsIn(s) = {s[x]}
<1>1. /\ DOMAIN s \cap {"reasoning_effort", "reasoning"} = {}
      /\ DOMAIN s \cap {"thinking", "thinkingBudget"} = {x}
      /\ "thinkingLevel" \notin DOMAIN s
  BY DEF AllReasoning
<1>2. FirstOf(s, {"reasoning_effort", "reasoning"}) = {}
      /\ FirstOf(s, {"thinking", "thinkingBudget"}) = {s[x]}
  BY <1>1 DEF FirstOf
<1> QED  BY <1>1, <1>2 DEF EffortsIn, BudgetsIn

LEMMA ReasonRead ==
  ASSUME NEW from \in Format, NEW s, NEW R, R = extract_reasoning(from, s), ~AnyBad(R),
         DOMAIN s \cap AllReasoning \subseteq ReasoningFields[from]
  PROVE  Reasons(s, R)
<1>1. ASSUME NEW r, R = <<r>>  PROVE r # Bad /\ R # <<>> /\ R[1] = r
  <2>1. 1 \in DOMAIN R /\ R[1] = r
    BY <1>1
  <2> QED  BY <2>1 DEF AnyBad
<1>2. ASSUME NEW x \in {"reasoning_effort", "reasoning"}, R = <<Effort(s[x])>>,
             DOMAIN s \cap AllReasoning = {x}
      PROVE  Reasons(s, R)
  <2>1. Effort(s[x]) # Bad /\ R # <<>> /\ R[1] = Effort(s[x])
    BY <1>1, <1>2
  <2>2. s[x] \in Efforts /\ Effort(s[x]) = [is |-> "effort", effort |-> s[x]]
    BY <2>1 DEF Effort
  <2>3. R[1].is = "effort" /\ R[1].effort = s[x]
    BY <2>1, <2>2
  <2>4. EffortsIn(s) = {s[x]} /\ BudgetsIn(s) = {}
    BY <1>2, <2>2, EffortSaid
  <2> QED  BY <2>1, <2>2, <2>3, <2>4 DEF Reasons
<1>3. ASSUME NEW x \in {"thinking", "thinkingBudget"}, R = <<Budget(s[x])>>,
             DOMAIN s \cap AllReasoning = {x}
      PROVE  Reasons(s, R)
  <2>1. R # <<>> /\ R[1] = Budget(s[x])
    BY <1>1, <1>3
  <2>2. R[1].is = "budget" /\ R[1].tokens = s[x]
    BY <2>1 DEF Budget
  <2> QED  BY <1>3, <2>1, <2>2, BudgetSaid DEF Reasons
<1>4. CASE from = "chat"
  <2>1. DOMAIN s \cap AllReasoning \subseteq {"reasoning_effort"}
    BY <1>4 DEF ReasoningFields
  <2>2. CASE Has(s, "reasoning_effort")
    <3>1. R = <<Effort(s["reasoning_effort"])>>
      BY <1>4, <2>2 DEF extract_reasoning
    <3>2. DOMAIN s \cap AllReasoning = {"reasoning_effort"}
      BY <2>1, <2>2 DEF Has, AllReasoning
    <3> QED  BY <1>2, <3>1, <3>2
  <2>3. CASE ~Has(s, "reasoning_effort")
    <3>1. R = <<>> /\ DOMAIN s \cap AllReasoning = {}
      BY <1>4, <2>1, <2>3 DEF extract_reasoning, Has
    <3> QED  BY <3>1, Unreasoned
  <2> QED  BY <2>2, <2>3
<1>5. CASE from = "responses"
  <2>1. DOMAIN s \cap AllReasoning \subseteq {"reasoning"}
    BY <1>5 DEF ReasoningFields
  <2>2. CASE Has(s, "reasoning")
    <3>1. R = <<Effort(s["reasoning"])>>
      BY <1>5, <2>2 DEF extract_reasoning
    <3>2. DOMAIN s \cap AllReasoning = {"reasoning"}
      BY <2>1, <2>2 DEF Has, AllReasoning
    <3> QED  BY <1>2, <3>1, <3>2
  <2>3. CASE ~Has(s, "reasoning")
    <3>1. R = <<>> /\ DOMAIN s \cap AllReasoning = {}
      BY <1>5, <2>1, <2>3 DEF extract_reasoning, Has
    <3> QED  BY <3>1, Unreasoned
  <2> QED  BY <2>2, <2>3
<1>6. CASE from = "anthropic"
  <2>1. DOMAIN s \cap AllReasoning \subseteq {"thinking"}
    BY <1>6 DEF ReasoningFields
  <2>2. CASE Has(s, "thinking")
    <3> DEFINE p == parse_anthropic_reasoning(s["thinking"], Optional(s, "max_tokens"))
    <3>1. R = <<p>>
      BY <1>6, <2>2 DEF extract_reasoning
    <3>2. p = Budget(s["thinking"]) \/ p = Bad
      BY DEF parse_anthropic_reasoning
    <3> HIDE DEF p
    <3>3. R = <<Budget(s["thinking"])>>
      BY <1>1, <3>1, <3>2
    <3>4. DOMAIN s \cap AllReasoning = {"thinking"}
      BY <2>1, <2>2 DEF Has, AllReasoning
    <3> QED  BY <1>3, <3>3, <3>4
  <2>3. CASE ~Has(s, "thinking")
    <3>1. R = <<>> /\ DOMAIN s \cap AllReasoning = {}
      BY <1>6, <2>1, <2>3 DEF extract_reasoning, Has
    <3> QED  BY <3>1, Unreasoned
  <2> QED  BY <2>2, <2>3
<1>7. CASE from = "gemini"
  <2>1. DOMAIN s \cap AllReasoning \subseteq {"thinkingBudget", "thinkingLevel"}
    BY <1>7 DEF ReasoningFields
  <2>2. CASE Has(s, "thinkingBudget") \/ Has(s, "thinkingLevel")
    <3>1. R = <<parse_gemini_reasoning(s)>> /\ parse_gemini_reasoning(s) # Bad
      BY <1>1, <1>7, <2>2 DEF extract_reasoning
    <3>2. CASE Has(s, "thinkingBudget")
      <4>1. ~Has(s, "thinkingLevel")
        BY <3>1, <3>2 DEF parse_gemini_reasoning
      <4>2. R = <<Budget(s["thinkingBudget"])>>
        BY <3>1, <3>2, <4>1 DEF parse_gemini_reasoning
      <4>3. DOMAIN s \cap AllReasoning = {"thinkingBudget"}
        BY <2>1, <3>2, <4>1 DEF Has, AllReasoning
      <4> QED  BY <1>3, <4>2, <4>3
    <3>3. CASE ~Has(s, "thinkingBudget")
      <4>1. R = <<LevelEffort(s["thinkingLevel"])>> /\ LevelEffort(s["thinkingLevel"]) # Bad
        BY <3>1, <3>3 DEF parse_gemini_reasoning
      <4>2. PICK e \in Efforts : thinkingLevel[e] = s["thinkingLevel"]
        BY <4>1, Zenon DEF LevelEffort
      <4>3. R # <<>> /\ R[1] = [is |-> "effort", effort |-> e]
        BY <1>1, <4>1, <4>2, LevelsDiffer
      <4>4. R[1].is = "effort" /\ R[1].effort = e
        BY <4>3
      <4>5. DOMAIN s \cap AllReasoning = {"thinkingLevel"}
        BY <2>1, <2>2, <3>3 DEF Has, AllReasoning
      <4> QED  BY <4>2, <4>3, <4>4, <4>5, LevelSaid DEF Reasons
    <3> QED  BY <3>2, <3>3
  <2>3. CASE ~(Has(s, "thinkingBudget") \/ Has(s, "thinkingLevel"))
    <3>1. R = <<>> /\ DOMAIN s \cap AllReasoning = {}
      BY <1>7, <2>1, <2>3 DEF extract_reasoning, Has
    <3> QED  BY <3>1, Unreasoned
  <2> QED  BY <2>2, <2>3
<1> QED  BY <1>4, <1>5, <1>6, <1>7 DEF Format

(* Reasoning is put back into a request that holds none, and touches no    *)
(* other setting.                                                          *)
LEMMA ReasonWritten ==
  ASSUME NEW to \in Format, NEW b, DOMAIN b \cap AllReasoning = {},
         NEW s, NEW R, Reasons(s, R),
         NEW t, t = insert_reasoning(to, R, b), ~Has(t, "bad")
  PROVE  Reasons(t, R) /\ \A x : x \notin AllReasoning => Field(t, x, b, x)
<1>1. CASE R = <<>>
  <2>1. t = b
    BY <1>1 DEF insert_reasoning
  <2> QED  BY <1>1, <2>1, Unreasoned DEF Field
<1>2. CASE R # <<>>
  <2> DEFINE r == R[1]
  <2>1. (r.is = "effort" /\ r.effort \in Efforts) \/ r.is = "budget"
    BY <1>2 DEF Reasons
  <2>2. t # Put(b, "bad", TRUE)
    <3>1. "bad" \in DOMAIN Put(b, "bad", TRUE)
      BY DEF Put
    <3> QED  BY <3>1 DEF Has
  <2>3. ASSUME NEW x \in AllReasoning, NEW v, t = Put(b, x, v)
        PROVE  /\ DOMAIN t \cap AllReasoning = {x} /\ t[x] = v
               /\ \A y : y \notin AllReasoning => Field(t, y, b, y)
    <3>1. /\ DOMAIN Put(b, x, v) = DOMAIN b \cup {x} /\ Put(b, x, v)[x] = v
          /\ \A y : y # x => Field(Put(b, x, v), y, b, y)
      BY DEF Put, Field, Has
    <3>2. /\ DOMAIN t = DOMAIN b \cup {x} /\ t[x] = v
          /\ \A y : y # x => Field(t, y, b, y)
      BY <2>3, <3>1
    <3> QED  BY <3>2
  <2>4. CASE r.is = "effort" /\ r.effort \in Efforts
    <3>1. \/ t = Put(b, "reasoning_effort", r.effort)
          \/ t = Put(b, "reasoning", r.effort)
          \/ t = Put(b, "thinkingLevel", thinkingLevel[r.effort])
      BY <1>2, <2>2, <2>4 DEF insert_reasoning
    <3>2. /\ "reasoning_effort" \in AllReasoning /\ "reasoning" \in AllReasoning
          /\ "thinkingLevel" \in AllReasoning
      BY DEF AllReasoning
    <3>3. EffortsIn(t) = {r.effort} /\ BudgetsIn(t) = {}
      BY <2>3, <2>4, <3>1, <3>2, EffortSaid, LevelSaid
    <3>4. \A y : y \notin AllReasoning => Field(t, y, b, y)
      BY <2>3, <3>1, <3>2
    <3> QED  BY <1>2, <2>4, <3>3, <3>4 DEF Reasons
  <2>5. CASE r.is = "budget"
    <3>1. \/ t = Put(b, "thinkingBudget", r.tokens)
          \/ t = Put(b, "thinking", r.tokens)
      BY <1>2, <2>2, <2>5 DEF insert_reasoning
    <3>2. "thinkingBudget" \in AllReasoning /\ "thinking" \in AllReasoning
      BY DEF AllReasoning
    <3>3. EffortsIn(t) = {} /\ BudgetsIn(t) = {r.tokens}
      BY <2>3, <3>1, <3>2, BudgetSaid
    <3>4. \A y : y \notin AllReasoning => Field(t, y, b, y)
      BY <2>3, <3>1, <3>2
    <3> QED  BY <1>2, <2>5, <3>3, <3>4 DEF Reasons
  <2> QED  BY <2>1, <2>4, <2>5
<1> QED  BY <1>1, <1>2

-----------------------------------------------------------------------------
(* What a request asks for, part by part.                                  *)
ShapesIn(s) ==
  FirstOf(s, {"size"})
    \cup {z \in DOMAIN ratio : "aspectRatio" \in DOMAIN s /\ ratio[z] = s["aspectRatio"]}

LEMMA AsksOf ==
  ASSUME NEW f, NEW s, NEW g, NEW t, SameWants(f, s, g, t),
         EffortsIn(s) = EffortsIn(t), BudgetsIn(s) = BudgetsIn(t), ShapesIn(s) = ShapesIn(t)
  PROVE  Asks(g, t) = Asks(f, s)
  BY DEF SameWants, EffortsIn, BudgetsIn, ShapesIn, Asks,
         LimitFields, WarmthFields, StopFields, UserFields

LEMMA Shapeless ==
  ASSUME NEW s, "size" \notin DOMAIN s, "aspectRatio" \notin DOMAIN s
  PROVE  ShapesIn(s) = {}
<1>1. FirstOf(s, {"size"}) = {}
  <2>1. DOMAIN s \cap {"size"} = {}
    OBVIOUS
  <2> QED  BY <2>1 DEF FirstOf
<1> QED  BY <1>1 DEF ShapesIn

(* A request read into the hub: its settings, without reasoning and stream *)
(* of its own, ask there for what they asked for.                          *)
KnownTo(from) ==
  CASE from = "responses" ->
         {"model", "max_output_tokens", "tools", "tool_choice", "temperature"}
    [] from = "anthropic" ->
         {"model", "max_tokens", "tools", "tool_choice", "temperature", "stop_sequences",
          "user_id"}
    [] from = "gemini" ->
         {"maxOutputTokens", "temperature", "stopSequences", "tools", "toolConfig"}
    [] from = "chat" -> HubFields

TakenOut(from) == ReasoningFields[from] \cup IF from = "gemini" THEN {} ELSE {"stream"}

LEMMA FieldsKnown ==
  ASSUME NEW from \in Format
  PROVE  /\ KnownTo(from) \cap (AllReasoning \cup {"stream", "size", "aspectRatio"}) = {}
         /\ ReasoningFields[from] \subseteq AllReasoning
         /\ WantsFields \cap TakenOut(from) = {} /\ "model" \notin WantsFields
         /\ "size" \notin AllReasoning /\ "aspectRatio" \notin AllReasoning
         /\ "stream" \notin AllReasoning
<1>1. "model" \notin WantsFields
  BY DEF WantsFields, LimitFields, WarmthFields, StopFields, UserFields
<1>2. /\ "size" \notin AllReasoning /\ "aspectRatio" \notin AllReasoning
      /\ "stream" \notin AllReasoning
  BY DEF AllReasoning
<1>3. CASE from = "chat"
  BY <1>1, <1>2, <1>3 DEF KnownTo, HubFields, AllReasoning, ReasoningFields, WantsFields,
     TakenOut, LimitFields, WarmthFields, StopFields, UserFields
<1>4. CASE from = "responses"
  BY <1>1, <1>2, <1>4 DEF KnownTo, AllReasoning, ReasoningFields, WantsFields,
     TakenOut, LimitFields, WarmthFields, StopFields, UserFields
<1>5. CASE from = "anthropic"
  BY <1>1, <1>2, <1>5 DEF KnownTo, AllReasoning, ReasoningFields, WantsFields,
     TakenOut, LimitFields, WarmthFields, StopFields, UserFields
<1>6. CASE from = "gemini"
  BY <1>1, <1>2, <1>6 DEF KnownTo, AllReasoning, ReasoningFields, WantsFields,
     TakenOut, LimitFields, WarmthFields, StopFields, UserFields
<1> QED  BY <1>3, <1>4, <1>5, <1>6 DEF Format

Formed(q) == q = Request(q.system, q.turns, q.settings)

LEMMA HubOf ==
  ASSUME NEW from \in Format, NEW r, Written(from, r), NEW context,
         NEW hub, hub = request_to_chat(from, context, r), hub # Bad, Checked(hub) # Bad
  PROVE  /\ ~AnyBad(extract_reasoning(from, r.settings))
         /\ HubSettings(hub.settings)
         /\ \/ DOMAIN Drop(r.settings, TakenOut(from)) \subseteq KnownTo(from)
               /\ DOMAIN hub.settings \subseteq HubFields
            \/ from = "chat" /\ hub.settings = Drop(r.settings, TakenOut(from))
         /\ AsksAlike(from, r.settings, "chat", hub.settings)
         /\ Formed(hub)
         /\ Has(hub.settings, "tool_choice") =>
              DOMAIN r.settings \cap {"tool_choice", "toolConfig"} # {}
<1> DEFINE s == r.settings
           c == Drop(s, TakenOut(from))
           clean == Request(r.system, r.turns, c)
<1>1. r = Request(r.system, r.turns, s)
  BY DEF Written
<1>2. [r EXCEPT !.settings = Drop(@, TakenOut(from))] = clean
  BY <1>1 DEF Request
<1>3. /\ ~AnyBad(extract_reasoning(from, s))
      /\ hub = CASE from = "chat" -> clean
                 [] from = "responses" -> responses_to_chat(clean)
                 [] from = "anthropic" -> anthropic_to_openai_chat(clean)
                 [] from = "gemini" -> gemini_to_chat(context.source_model, clean)
  BY <1>2, Zenon DEF request_to_chat, TakenOut
<1>4. clean.settings = c
  BY DEF Request
<1>5. ~Has(hub.settings, "bad")
  BY DEF Checked
<1>6. \A x \in WantsFields : Field(c, x, s, x)
  BY FieldsKnown, Dropped
<1>7. AsksAlike(from, s, from, c)
  <2> HIDE DEF c, s
  <2> QED  BY <1>6, AgreeAsks
<1>8. /\ Has(c, "tools") => c["tools"] \in Seq(ToolForm)
      /\ Has(c, "parallel_tool_calls") => c["parallel_tool_calls"] \in BOOLEAN
      /\ Has(c, "tool_choice") =>
           IF from = "anthropic" THEN AnthropicChoice(c["tool_choice"])
             ELSE OpenAIChoice(c["tool_choice"])
  <2>1. /\ Field(c, "tools", s, "tools") /\ Field(c, "tool_choice", s, "tool_choice")
        /\ Field(c, "parallel_tool_calls", s, "parallel_tool_calls")
    BY <1>6 DEF WantsFields
  <2> HIDE DEF c
  <2> QED  BY <2>1 DEF Written, Field
<1>13. DOMAIN c \subseteq DOMAIN s
  BY DEF Drop
<1> HIDE DEF c, clean
<1>9. CASE from = "chat"
  <2>1. hub = clean /\ hub.settings = c
    BY <1>3, <1>4, <1>9
  <2>2. Formed(hub)
    BY <2>1 DEF clean, Request, Formed
  <2>3. HubSettings(c)
    BY <1>8, <1>9 DEF HubSettings
  <2>4. AsksAlike("chat", s, "chat", c)
    BY <1>7, <1>9
  <2>5. Has(hub.settings, "tool_choice") =>
          DOMAIN s \cap {"tool_choice", "toolConfig"} # {}
    BY <1>13, <2>1 DEF Has
  <2> QED  BY <1>3, <1>9, <2>1, <2>2, <2>3, <2>4, <2>5 DEF c
<1>10. CASE from = "responses"
  <2>1. hub = responses_to_chat(clean)
    BY <1>3, <1>10
  <2>2. DOMAIN c \subseteq KnownTo(from) /\ HubForm(hub.settings)
        /\ AsksAlike("responses", c, "chat", hub.settings)
        /\ (Has(hub.settings, "tool_choice") => Has(c, "tool_choice"))
    BY <1>4, <1>5, <1>8, <1>10, <2>1, ResponsesAtTheHub DEF KnownTo
  <2>3. Formed(hub)
    <3>1. \E x, y, z : hub = Request(x, y, z)
      BY <2>1, Zenon DEF responses_to_chat
    <3> QED  BY <3>1 DEF Request, Formed
  <2>4. Has(hub.settings, "tool_choice") =>
          DOMAIN s \cap {"tool_choice", "toolConfig"} # {}
    BY <1>13, <2>2 DEF Has
  <2> QED  BY <1>3, <1>7, <1>10, <2>2, <2>3, <2>4, AsksChain DEF HubForm, c
<1>11. CASE from = "anthropic"
  <2>1. hub = anthropic_to_openai_chat(clean)
    BY <1>3, <1>11
  <2>2. DOMAIN c \subseteq KnownTo(from) /\ HubForm(hub.settings)
        /\ AsksAlike("anthropic", c, "chat", hub.settings)
        /\ (Has(hub.settings, "tool_choice") => Has(c, "tool_choice"))
    BY <1>4, <1>5, <1>8, <1>11, <2>1, AnthropicAtTheHub DEF KnownTo
  <2>3. Formed(hub)
    <3>1. \E x, y, z : hub = Request(x, y, z)
      BY <2>1, Zenon DEF anthropic_to_openai_chat
    <3> QED  BY <3>1 DEF Request, Formed
  <2>4. Has(hub.settings, "tool_choice") =>
          DOMAIN s \cap {"tool_choice", "toolConfig"} # {}
    BY <1>13, <2>2 DEF Has
  <2> QED  BY <1>3, <1>7, <1>11, <2>2, <2>3, <2>4, AsksChain DEF HubForm, c
<1>12. CASE from = "gemini"
  <2>1. hub = gemini_to_chat(context.source_model, clean)
    BY <1>3, <1>12
  <2>2. DOMAIN c \subseteq KnownTo(from) /\ HubForm(hub.settings)
        /\ AsksAlike("gemini", c, "chat", hub.settings)
        /\ (Has(hub.settings, "tool_choice") => Has(c, "toolConfig"))
    BY <1>4, <1>5, <1>8, <1>12, <2>1, GeminiAtTheHub DEF KnownTo
  <2>3. Formed(hub)
    <3>1. \E x, y, z : hub = Request(x, y, z)
      BY <2>1, Zenon DEF gemini_to_chat
    <3> QED  BY <3>1 DEF Request, Formed
  <2>4. Has(hub.settings, "tool_choice") =>
          DOMAIN s \cap {"tool_choice", "toolConfig"} # {}
    BY <1>13, <2>2 DEF Has
  <2> QED  BY <1>3, <1>7, <1>12, <2>2, <2>3, <2>4, AsksChain DEF HubForm, c
<1> QED  BY <1>9, <1>10, <1>11, <1>12 DEF Format

-----------------------------------------------------------------------------
(* That an answer is to be streamed is a field of the body in all dialects *)
(* but Gemini, where it is in the address.                                 *)
LEMMA Streams ==
  ASSUME NEW to \in Format, NEW b, "stream" \notin DOMAIN b, NEW stream \in BOOLEAN,
         NEW t, t = insert_stream(to, stream, b)
  PROVE  /\ \A x : x # "stream" => Field(t, x, b, x)
         /\ to # "gemini" => extract_stream(to, FALSE, t) = stream
<1>1. CASE stream /\ to # "gemini"
  <2>1. t = Put(b, "stream", TRUE)
    BY <1>1 DEF insert_stream
  <2>2. Has(t, "stream") /\ t["stream"] = TRUE /\ \A x : x # "stream" => Field(t, x, b, x)
    BY <2>1 DEF Put, Has, Field
  <2> QED  BY <1>1, <2>2 DEF extract_stream
<1>2. CASE ~(stream /\ to # "gemini")
  <2>1. t = b
    BY <1>2 DEF insert_stream
  <2> QED  BY <1>2, <2>1 DEF extract_stream, Has, Field
<1> QED  BY <1>1, <1>2

(* What a vendor accepts of the settings, "chosen" being whether the       *)
(* client made a choice among the tools.                                   *)
Accepted(to, chosen, t) ==
  /\ to = "anthropic" =>
       /\ Has(t, "max_tokens")
       /\ Has(t, "thinking") =>
            t["thinking"] >= MinThinking /\ t["thinking"] < t["max_tokens"]
       /\ Has(t, "tool_choice") =>
            /\ ToolList(t) # <<>> \/ chosen
            /\ t["tool_choice"].disable => t["tool_choice"].mode # "none"
  /\ to = "gemini" => \A i \in DOMAIN ToolList(t) : ToolList(t)[i].description # "unset"

(* A request put together for a target carries what the hub's asked for.   *)
Carried(chat, R, stream, to, sent) ==
  LET h == chat.settings
      t == sent.body.settings
  IN /\ DOMAIN h \subseteq HubFields
     /\ SameWants("chat", h, to, t)
     /\ to # "responses" => (Serial("chat", h) <=> Serial(to, t))
     /\ Reasons(t, R) /\ ShapesIn(t) = {}
     /\ sent.stream = stream
     /\ to # "gemini" => extract_stream(to, FALSE, t) = stream
     /\ h["model"] = IF to = "gemini" THEN sent.model[1] ELSE t["model"]
     /\ Accepted(to, Has(h, "tool_choice"), t)

(* request_from_chat makes such a request of the hub's, or refuses it.     *)
LEMMA BodyOf ==
  ASSUME NEW to \in Format, NEW chat, Formed(chat), HubSettings(chat.settings),
         "model" \in DOMAIN chat.settings,
         to = "chat" => DOMAIN chat.settings \subseteq HubFields,
         NEW s, NEW R, Reasons(s, R), NEW stream \in BOOLEAN,
         request_from_chat(to, chat, R, stream) # Bad
  PROVE  Carried(chat, R, stream, to, request_from_chat(to, chat, R, stream))
<1> SUFFICES ASSUME NEW sent, sent = request_from_chat(to, chat, R, stream)
             PROVE  Carried(chat, R, stream, to, sent)
  OBVIOUS
<1> DEFINE h == chat.settings
           body == CASE to = "chat" -> chat
                     [] to = "responses" -> chat_to_responses(chat)
                     [] to = "anthropic" -> openai_chat_to_anthropic(chat)
                     [] to = "gemini" -> chat_to_gemini(chat)
           b == body.settings
           i == insert_reasoning(to, R, b)
           t == insert_stream(to, stream, i)
           full == [body EXCEPT !.settings = insert_stream(to, stream, insert_reasoning(to, R, @))]
<1>1. /\ body # Bad /\ Checked(body) # Bad /\ Checked(full) # Bad
      /\ sent = Sent(full, IF to = "gemini" THEN <<h["model"]>> ELSE <<>>, stream)
  BY Zenon DEF request_from_chat
<1>2. Formed(body)
  <2>1. CASE to = "chat"
    BY <2>1
  <2>2. CASE to # "chat"
    <3>1. \E x, y, z : body = Request(x, y, z)
      <4>1. CASE to = "responses"
        <5>1. body = chat_to_responses(chat)
          BY <4>1
        <5> HIDE DEF body
        <5> QED  BY <1>1, <5>1, Zenon DEF chat_to_responses
      <4>2. CASE to = "anthropic"
        <5>1. body = openai_chat_to_anthropic(chat)
          BY <4>2
        <5> HIDE DEF body
        <5> QED  BY <1>1, <5>1, Zenon DEF openai_chat_to_anthropic
      <4>3. CASE to = "gemini"
        <5>1. body = chat_to_gemini(chat)
          BY <4>3
        <5> HIDE DEF body
        <5> QED  BY <1>1, <5>1, Zenon DEF chat_to_gemini
      <4> QED  BY <2>2, <4>1, <4>2, <4>3 DEF Format
    <3> HIDE DEF body
    <3> QED  BY <3>1 DEF Request, Formed
  <2> QED  BY <2>1, <2>2
<1>3. full = Request(body.system, body.turns, t)
  <2> HIDE DEF body
  <2> QED  BY <1>2 DEF Formed, Request
<1>4. /\ sent.body.settings = t /\ sent.stream = stream
      /\ sent.model = IF to = "gemini" THEN <<h["model"]>> ELSE <<>>
  <2> HIDE DEF t, full, h
  <2>1. full.settings = t
    BY <1>3 DEF Request
  <2> QED  BY <1>1, <2>1 DEF Sent
<1>5. ~Has(b, "bad") /\ ~Has(t, "bad")
  <2> HIDE DEF t, full, body
  <2>1. full.settings = t
    BY <1>3 DEF Request
  <2> QED  BY <1>1, <2>1 DEF Checked
<1>6. /\ DOMAIN h \subseteq HubFields /\ DOMAIN b \subseteq KnownTo(to)
      /\ SameWants("chat", h, to, b)
      /\ to # "responses" => (Serial("chat", h) <=> Serial(to, b))
      /\ to # "gemini" => Field(b, "model", h, "model")
      /\ to = "anthropic" =>
           /\ Has(b, "max_tokens")
           /\ Has(b, "tool_choice") =>
                /\ ToolList(b) # <<>> \/ Has(h, "tool_choice")
                /\ b["tool_choice"].disable => b["tool_choice"].mode # "none"
      /\ to = "gemini" => \A k \in DOMAIN ToolList(b) : ToolList(b)[k].description # "unset"
  <2>1. CASE to = "chat"
    <3>1. b = h
      BY <2>1
    <3> HIDE DEF b, h
    <3> QED  BY <2>1, <3>1 DEF KnownTo, SameWants, Field, h
  <2>2. CASE to = "responses"
    <3>1. body = chat_to_responses(chat)
      BY <2>2
    <3> HIDE DEF body
    <3> QED  BY <1>1, <1>5, <2>2, <3>1, ToResponses DEF KnownTo
  <2>3. CASE to = "anthropic"
    <3>1. body = openai_chat_to_anthropic(chat)
      BY <2>3
    <3> HIDE DEF body
    <3> QED  BY <1>1, <1>5, <2>3, <3>1, ToAnthropic DEF KnownTo, AsksAlike
  <2>4. CASE to = "gemini"
    <3>1. body = chat_to_gemini(chat)
      BY <2>4
    <3> HIDE DEF body
    <3> QED  BY <1>1, <1>5, <2>4, <3>1, ToGemini DEF KnownTo, AsksAlike
  <2> QED  BY <2>1, <2>2, <2>3, <2>4 DEF Format
<1> HIDE DEF body, b
<1>7. DOMAIN b \cap AllReasoning = {} /\ "stream" \notin DOMAIN b
      /\ "size" \notin DOMAIN b /\ "aspectRatio" \notin DOMAIN b
  BY <1>6, FieldsKnown
<1>8. ~Has(i, "bad")
  <2>1. CASE stream /\ to # "gemini"
    <3>1. t = Put(i, "stream", TRUE)
      BY <2>1 DEF insert_stream
    <3> HIDE DEF i, t
    <3> QED  BY <1>5, <3>1 DEF Put, Has
  <2>2. CASE ~(stream /\ to # "gemini")
    <3>1. t = i
      BY <2>2 DEF insert_stream
    <3> QED  BY <1>5, <3>1
  <2> QED  BY <2>1, <2>2
<1>9. Reasons(i, R) /\ \A x : x \notin AllReasoning => Field(i, x, b, x)
  <2> HIDE DEF t
  <2> QED  BY <1>7, <1>8, ReasonWritten
<1>20. to = "anthropic" /\ Has(i, "thinking") =>
          i["thinking"] >= MinThinking /\ i["thinking"] < b["max_tokens"]
  <2> SUFFICES ASSUME to = "anthropic", Has(i, "thinking")
               PROVE  i["thinking"] >= MinThinking /\ i["thinking"] < b["max_tokens"]
    OBVIOUS
  <2>1. ~Has(b, "thinking") /\ i # b
    BY <1>7 DEF AllReasoning, Has
  <2>2. i # Put(b, "bad", TRUE)
    <3>1. "bad" \in DOMAIN Put(b, "bad", TRUE)
      BY DEF Put
    <3> QED  BY <1>8, <3>1 DEF Has
  <2>3. /\ i = Put(b, "thinking", R[1].tokens)
        /\ R[1].tokens >= MinThinking /\ R[1].tokens < b["max_tokens"]
    BY <2>1, <2>2 DEF insert_reasoning
  <2>4. i["thinking"] = R[1].tokens
    BY <2>3 DEF Put
  <2> QED  BY <2>3, <2>4
<1> HIDE DEF i
<1>10. "stream" \notin DOMAIN i
  BY <1>7, <1>9, FieldsKnown DEF Field, Has
<1>11. /\ \A x : x # "stream" => Field(t, x, i, x)
       /\ to # "gemini" => extract_stream(to, FALSE, t) = stream
  BY <1>10, Streams
<1> HIDE DEF t, h, full
<1>12. \A x : x \notin AllReasoning /\ x # "stream" => Field(t, x, b, x)
  BY <1>9, <1>11, FieldChain
<1>13. AsksAlike(to, b, to, t)
  <2>1. \A x \in WantsFields : x \notin AllReasoning /\ x # "stream"
    BY DEF WantsFields, LimitFields, WarmthFields, StopFields, UserFields, AllReasoning
  <2> QED  BY <1>12, <2>1, AgreeAsks
<1>14. Reasons(t, R)
  <2>1. \A x \in AllReasoning : Field(t, x, i, x)
    BY <1>11, FieldsKnown
  <2>2. /\ FirstOf(t, {"reasoning_effort", "reasoning"}) = FirstOf(i, {"reasoning_effort", "reasoning"})
        /\ FirstOf(t, {"thinking", "thinkingBudget"}) = FirstOf(i, {"thinking", "thinkingBudget"})
        /\ Field(t, "thinkingLevel", i, "thinkingLevel")
    BY <2>1, FirstOfAgree DEF AllReasoning
  <2>3. EffortsIn(t) = EffortsIn(i) /\ BudgetsIn(t) = BudgetsIn(i)
    BY <2>2 DEF EffortsIn, BudgetsIn, Field, Has
  <2> QED  BY <1>9, <2>3 DEF Reasons
<1>15. ShapesIn(t) = {}
  <2>1. Field(t, "size", b, "size") /\ Field(t, "aspectRatio", b, "aspectRatio")
    BY <1>12, FieldsKnown
  <2>2. "size" \notin DOMAIN t /\ "aspectRatio" \notin DOMAIN t
    BY <1>7, <2>1 DEF Field, Has
  <2> QED  BY <2>2, Shapeless
<1>16. to # "gemini" => t["model"] = h["model"]
  <2>1. Field(t, "model", b, "model")
    BY <1>12 DEF AllReasoning
  <2>2. Field(b, "model", h, "model") \/ to = "gemini"
    BY <1>6
  <2>3. "model" \in DOMAIN h
    BY DEF h
  <2> QED  BY <2>1, <2>2, <2>3 DEF Field, Has
<1>17. SameWants("chat", h, to, t)
       /\ (to # "responses" => (Serial("chat", h) <=> Serial(to, t)))
  BY <1>6, <1>13 DEF AsksAlike, SameWants
<1>21. Accepted(to, Has(h, "tool_choice"), t)
  <2>1. Field(t, "thinking", i, "thinking")
    BY <1>11
  <2>2. Field(t, "max_tokens", b, "max_tokens") /\ Field(t, "tool_choice", b, "tool_choice")
    BY <1>12 DEF AllReasoning
  <2>3. ToolList(t) = ToolList(b)
    BY <1>13 DEF AsksAlike, SameWants
  <2>4. to = "anthropic" =>
          /\ Has(t, "max_tokens")
          /\ Has(t, "thinking") =>
               t["thinking"] >= MinThinking /\ t["thinking"] < t["max_tokens"]
    BY <1>6, <1>20, <2>1, <2>2 DEF Field
  <2>5. to = "anthropic" /\ Has(t, "tool_choice") =>
          /\ ToolList(t) # <<>> \/ Has(h, "tool_choice")
          /\ t["tool_choice"].disable => t["tool_choice"].mode # "none"
    BY <1>6, <2>2, <2>3 DEF Field
  <2>6. to = "gemini" => \A k \in DOMAIN ToolList(t) : ToolList(t)[k].description # "unset"
    BY <1>6, <2>3
  <2> QED  BY <2>4, <2>5, <2>6 DEF Accepted
<1>18. h["model"] = IF to = "gemini" THEN sent.model[1] ELSE t["model"]
  <2>1. <<h["model"]>>[1] = h["model"]
    OBVIOUS
  <2> QED  BY <1>4, <1>16, <2>1
<1>19. chat.settings = h
  BY DEF h
<1> QED  BY <1>4, <1>6, <1>11, <1>14, <1>15, <1>17, <1>18, <1>19, <1>21 DEF Carried

-----------------------------------------------------------------------------
(* A hub request that a target takes has no field but those that the hub   *)
(* may hold: nothing it does not know is passed over in silence.           *)
LEMMA TargetKnows ==
  ASSUME NEW to \in Format \ {"chat"}, NEW chat, NEW R, NEW stream,
         request_from_chat(to, chat, R, stream) # Bad
  PROVE  DOMAIN chat.settings \subseteq HubFields
<1> DEFINE s == chat.settings
<1>1. CASE to = "responses"
  <2>1. chat_to_responses(chat) # Bad
    BY <1>1, Zenon DEF request_from_chat
  <2>2. Only(s, {"model", "max_tokens", "max_completion_tokens", "tools", "tool_choice",
                 "temperature", "n", "parallel_tool_calls", "response_format"})
    BY <2>1, Zenon DEF chat_to_responses
  <2> QED  BY <2>2 DEF Only, HubFields
<1>2. CASE to = "anthropic"
  <2>1. openai_chat_to_anthropic(chat) # Bad
    BY <1>2, Zenon DEF request_from_chat
  <2>2. Only(s, {"model", "max_tokens", "max_completion_tokens", "tools",
                 "tool_choice", "temperature", "stop", "user", "n",
                 "parallel_tool_calls", "response_format"})
    BY <2>1, Zenon DEF openai_chat_to_anthropic
  <2> QED  BY <2>2 DEF Only, HubFields
<1>3. CASE to = "gemini"
  <2>1. chat_to_gemini(chat) # Bad
    BY <1>3, Zenon DEF request_from_chat
  <2>2. Only(s, {"model", "max_tokens", "max_completion_tokens", "tools", "tool_choice",
                 "temperature", "stop", "n", "parallel_tool_calls", "response_format"})
    BY <2>1, Zenon DEF chat_to_gemini
  <2> QED  BY <2>2 DEF Only, HubFields
<1> QED  BY <1>1, <1>2, <1>3 DEF Format

(* A request that is sent asks for what it was asked for.                  *)
Settled(from, r, to, context, sent) ==
  /\ from # to =>
       /\ Asks(to, sent.body.settings) = Asks(from, r.settings)
       /\ Serial(to, sent.body.settings) <=> Serial(from, r.settings) /\ to # "responses"
       /\ Accepted(to, DOMAIN r.settings \cap {"tool_choice", "toolConfig"} # {},
                   sent.body.settings)
  /\ "images" \notin {from, to} =>
       /\ sent.stream = extract_stream(from, context.source_stream, r.settings)
       /\ to # "gemini" => extract_stream(to, FALSE, sent.body.settings) = sent.stream
  /\ context.target_model = IF to = "gemini" THEN sent.model[1]
                              ELSE sent.body.settings["model"]

(* So does what translate_request makes for another dialect ...            *)
LEMMA TextSettled ==
  ASSUME NEW from \in Format, NEW to \in Format, from # to, NEW r, Written(from, r),
         NEW context, context.source_stream \in BOOLEAN,
         NEW sent, sent = translate_request(from, to, context, r), sent # Bad
  PROVE  Settled(from, r, to, context, sent)
<1> DEFINE s == r.settings
           R == extract_reasoning(from, s)
           stream == extract_stream(from, context.source_stream, s)
           hub == request_to_chat(from, context, r)
           chat == [hub EXCEPT !.settings = Renamed(@, context.target_model)]
<1>1. /\ hub # Bad /\ Checked(hub) # Bad
      /\ sent = request_from_chat(to, chat, R, stream)
  BY Zenon DEF translate_request
<1>2. stream \in BOOLEAN
  BY DEF extract_stream, Written
<1>3. /\ ~AnyBad(R) /\ HubSettings(hub.settings)
      /\ \/ DOMAIN Drop(s, TakenOut(from)) \subseteq KnownTo(from)
            /\ DOMAIN hub.settings \subseteq HubFields
         \/ from = "chat" /\ hub.settings = Drop(s, TakenOut(from))
      /\ AsksAlike(from, s, "chat", hub.settings)
      /\ Formed(hub)
      /\ Has(hub.settings, "tool_choice") =>
           DOMAIN s \cap {"tool_choice", "toolConfig"} # {}
  BY <1>1, HubOf
<1> HIDE DEF stream, hub
<1> DEFINE h == Renamed(hub.settings, context.target_model)
<1>4. Formed(chat) /\ chat.settings = h
  <2>1. chat = Request(hub.system, hub.turns, h)
    <3> HIDE DEF h
    <3>1. hub = Request(hub.system, hub.turns, hub.settings)
      BY <1>3 DEF Formed
    <3>2. chat = [hub EXCEPT !.settings = h]
      BY DEF h
    <3> HIDE DEF chat
    <3> QED  BY <3>1, <3>2 DEF Request
  <2> HIDE DEF chat, h
  <2> QED  BY <2>1 DEF Request, Formed
<1> HIDE DEF chat
<1>5. /\ DOMAIN h = DOMAIN hub.settings \cup {"model"}
      /\ h["model"] = context.target_model
      /\ \A x : x # "model" => Field(h, x, hub.settings, x)
  BY DEF Renamed, Put, Has, Field
<1> HIDE DEF h
<1>6. HubSettings(h)
  <2>1. /\ Field(h, "tools", hub.settings, "tools")
        /\ Field(h, "tool_choice", hub.settings, "tool_choice")
        /\ Field(h, "parallel_tool_calls", hub.settings, "parallel_tool_calls")
    BY <1>5
  <2> QED  BY <1>3, <2>1 DEF HubSettings, Field
<1>7. AsksAlike(from, s, "chat", h)
  <2>1. \A x \in WantsFields : Field(h, x, hub.settings, x)
    BY <1>5, FieldsKnown
  <2>2. AsksAlike("chat", hub.settings, "chat", h)
    BY <2>1, AgreeAsks
  <2> QED  BY <1>3, <2>2, AsksChain
<1>8. DOMAIN Drop(s, TakenOut(from)) \subseteq KnownTo(from) /\ DOMAIN h \subseteq HubFields
  <2>1. CASE from = "chat"
    <3>1. DOMAIN chat.settings \subseteq HubFields
      BY <1>1, <2>1, TargetKnows
    <3>2. DOMAIN hub.settings \subseteq HubFields
      BY <1>4, <1>5, <3>1
    <3> QED  BY <1>3, <1>4, <2>1, <3>1, <3>2 DEF KnownTo
  <2>2. CASE from # "chat"
    <3>1. "model" \in HubFields
      BY DEF HubFields
    <3> QED  BY <1>3, <1>5, <2>2, <3>1
  <2> QED  BY <2>1, <2>2
<1>9. DOMAIN s \subseteq KnownTo(from) \cup TakenOut(from)
  BY <1>8 DEF Drop
<1>10. Reasons(s, R)
  <2>1. DOMAIN s \cap AllReasoning \subseteq ReasoningFields[from]
    BY <1>9, FieldsKnown DEF TakenOut
  <2> HIDE DEF s
  <2> QED  BY <1>3, <2>1, ReasonRead
<1> HIDE DEF R
<1>11. /\ SameWants("chat", h, to, sent.body.settings)
       /\ to # "responses" => (Serial("chat", h) <=> Serial(to, sent.body.settings))
       /\ Reasons(sent.body.settings, R) /\ ShapesIn(sent.body.settings) = {}
       /\ sent.stream = stream
       /\ to # "gemini" => extract_stream(to, FALSE, sent.body.settings) = stream
       /\ h["model"] = IF to = "gemini" THEN sent.model[1] ELSE sent.body.settings["model"]
       /\ Accepted(to, Has(h, "tool_choice"), sent.body.settings)
  <2>1. "model" \in DOMAIN chat.settings /\ DOMAIN chat.settings \subseteq HubFields
    BY <1>4, <1>5, <1>8
  <2>2. HubSettings(chat.settings)
    BY <1>4, <1>6
  <2> HIDE DEF s
  <2>3. Carried(chat, R, stream, to, sent)
    BY <1>1, <1>2, <1>4, <1>10, <2>1, <2>2, BodyOf
  <2> QED  BY <1>4, <2>3 DEF Carried
<1>12. ShapesIn(s) = {}
  <2>1. "size" \notin DOMAIN s /\ "aspectRatio" \notin DOMAIN s
    BY <1>9, FieldsKnown DEF TakenOut
  <2> QED  BY <2>1, Shapeless
<1>13. Asks(to, sent.body.settings) = Asks(from, s)
  <2>1. SameWants(from, s, to, sent.body.settings)
    BY <1>7, <1>11 DEF AsksAlike, SameWants
  <2> HIDE DEF s
  <2> QED  BY <1>10, <1>11, <1>12, <2>1, ReasonsSame, AsksOf
<1>14. Serial(to, sent.body.settings) <=> Serial(from, s) /\ to # "responses"
  <2>1. CASE to = "responses"
    BY <2>1 DEF Serial
  <2>2. CASE to # "responses"
    BY <1>7, <1>11, <2>2 DEF AsksAlike
  <2> QED  BY <2>1, <2>2
<1>15. "images" \notin {from, to}
  BY DEF Format
<1>16. Accepted(to, DOMAIN s \cap {"tool_choice", "toolConfig"} # {}, sent.body.settings)
  <2>1. Has(h, "tool_choice") => DOMAIN s \cap {"tool_choice", "toolConfig"} # {}
    BY <1>3, <1>5 DEF Field
  <2> HIDE DEF s
  <2> QED  BY <1>11, <2>1 DEF Accepted
<1> QED  BY <1>5, <1>11, <1>13, <1>14, <1>15, <1>16 DEF Settled, stream

(* ... and what it passes on in the same dialect, with the model renamed.  *)
LEMMA SameDialectSettled ==
  ASSUME NEW f \in Format, NEW r, Written(f, r),
         NEW context,
         context.source_stream \in (IF f = "gemini" THEN BOOLEAN ELSE {FALSE})
  PROVE  Settled(f, r, f, context, translate_request(f, f, context, r))
<1> SUFFICES ASSUME NEW sent, sent = translate_request(f, f, context, r)
             PROVE  Settled(f, r, f, context, sent)
  OBVIOUS
<1> DEFINE s == r.settings
           stream == extract_stream(f, context.source_stream, s)
<1>1. CASE f = "gemini"
  <2>1. sent = Sent(r, <<context.target_model>>, stream)
    BY <1>1, Zenon DEF translate_request
  <2>2. <<context.target_model>>[1] = context.target_model
    OBVIOUS
  <2> QED  BY <1>1, <2>1, <2>2 DEF Sent, Settled
<1>2. CASE f # "gemini"
  <2> DEFINE t == Renamed(s, context.target_model)
  <2>1. sent = Sent([r EXCEPT !.settings = Renamed(@, context.target_model)], <<>>, stream)
    BY <1>2, Zenon DEF translate_request
  <2>2. [r EXCEPT !.settings = Renamed(@, context.target_model)] = Request(r.system, r.turns, t)
    <3>1. r = Request(r.system, r.turns, s)
      BY DEF Written
    <3> HIDE DEF s
    <3> QED  BY <3>1 DEF Request
  <2> HIDE DEF t
  <2>3. sent.body.settings = t /\ sent.stream = stream
    BY <2>1, <2>2 DEF Request, Sent
  <2>4. t["model"] = context.target_model /\ Field(t, "stream", s, "stream")
    BY DEF t, Renamed, Put, Field, Has
  <2>5. extract_stream(f, FALSE, t) = stream
    BY <1>2, <2>4 DEF extract_stream, Field
  <2> QED  BY <1>2, <2>3, <2>4, <2>5 DEF Settled
<1> QED  BY <1>1, <1>2

-----------------------------------------------------------------------------
(* A prompt for a picture asks for its shape, and for nothing else.        *)
LEMMA PictureAsks ==
  ASSUME NEW f \in {"images", "gemini"}, NEW s, NEW g \in {"images", "gemini"}, NEW t,
         DOMAIN s \subseteq {"model", "size", "n", "responseModalities", "aspectRatio"},
         DOMAIN t \subseteq {"model", "size", "n", "responseModalities", "aspectRatio"},
         ShapesIn(s) = ShapesIn(t)
  PROVE  /\ Asks(g, t) = Asks(f, s) /\ ~Serial(f, s) /\ ~Serial(g, t)
         /\ \A chosen : Accepted(g, chosen, t)
<1>1. ASSUME NEW u, NEW d \in {"images", "gemini"},
             DOMAIN u \subseteq {"model", "size", "n", "responseModalities", "aspectRatio"}
      PROVE  /\ FirstOf(u, LimitFields) = {} /\ FirstOf(u, WarmthFields) = {}
             /\ FirstOf(u, StopFields) = {} /\ FirstOf(u, UserFields) = {}
             /\ EffortsIn(u) = {} /\ BudgetsIn(u) = {}
             /\ ToolList(u) = <<>> /\ ChoiceMade(d, u) = Choice("none", "")
             /\ ~Serial(d, u)
  <2>1. /\ DOMAIN u \cap LimitFields = {} /\ DOMAIN u \cap WarmthFields = {}
        /\ DOMAIN u \cap StopFields = {} /\ DOMAIN u \cap UserFields = {}
    BY <1>1 DEF LimitFields, WarmthFields, StopFields, UserFields
  <2>2. DOMAIN u \cap AllReasoning = {}
    BY <1>1 DEF AllReasoning
  <2>3. EffortsIn(u) = {} /\ BudgetsIn(u) = {}
    BY <2>2, Unreasoned DEF Reasons
  <2>4. ToolList(u) = <<>>
    BY <1>1 DEF ToolList, Has
  <2>5. Chosen(d, u) = Choice("auto", "")
    BY <1>1 DEF Chosen, Has
  <2>6. ChoiceMade(d, u) = Choice("none", "")
    <3>1. Choice("auto", "").mode = "auto"
      BY DEF Choice
    <3> QED  BY <2>4, <2>5, <3>1 DEF ChoiceMade
  <2>7. ~Serial(d, u)
    BY <2>4 DEF Serial
  <2> QED  BY <2>1, <2>3, <2>4, <2>6, <2>7 DEF FirstOf
<1>2. SameWants(f, s, g, t)
  BY <1>1 DEF SameWants
<1>3. /\ EffortsIn(s) = EffortsIn(t) /\ BudgetsIn(s) = BudgetsIn(t)
      /\ ~Serial(f, s) /\ ~Serial(g, t)
  BY <1>1
<1>4. ASSUME NEW chosen
      PROVE  Accepted(g, chosen, t)
  <2>1. ToolList(t) = <<>>
    BY <1>1
  <2> QED  BY <2>1, Nowhere DEF Accepted
<1> QED  BY <1>2, <1>3, <1>4, AsksOf

(* A size and an aspect ratio name the same shape, one for one.            *)
LEMMA ListedIn ==
  ASSUME NEW s, NEW x, NEW y, NEW table,
         NEW d, d = Listed(s, x, y, table), ~Has(d, "bad")
  PROVE  /\ DOMAIN d \subseteq {y} /\ (Has(d, y) <=> Has(s, x))
         /\ Has(s, x) => s[x] \in DOMAIN table /\ d[y] = table[s[x]]
<1>1. CASE Has(s, x)
  <2>1. d = Refused \/ (s[x] \in DOMAIN table /\ d = Just(y, table[s[x]]))
    BY <1>1 DEF Listed
  <2>2. d # Refused
    <3>1. DOMAIN Refused = {"bad"}
      BY Single DEF Refused
    <3> QED  BY <3>1 DEF Has
  <2>3. DOMAIN d = {y} /\ d[y] = table[s[x]]
    BY <2>1, <2>2, Single
  <2> QED  BY <1>1, <2>1, <2>2, <2>3 DEF Has
<1>2. CASE ~Has(s, x)
  <2>1. d = <<>>
    BY <1>2 DEF Listed
  <2> QED  BY <1>2, <2>1, Nowhere DEF Has
<1> QED  BY <1>1, <1>2

LEMMA RatiosDiffer ==
  /\ \A z, y \in DOMAIN ratio : ratio[z] = ratio[y] => z = y
  /\ \A r \in DOMAIN size : size[r] \in DOMAIN ratio /\ ratio[size[r]] = r
<1>1. ASSUME NEW z \in DOMAIN ratio, NEW y \in DOMAIN ratio, ratio[z] = ratio[y]
      PROVE  z = y
  <2>1. DOMAIN ratio = {"1024x1024", "1536x1024", "1024x1536"}
    BY DEF ratio
  <2>2. /\ ratio["1024x1024"] = "1:1" /\ ratio["1536x1024"] = "3:2"
        /\ ratio["1024x1536"] = "2:3"
    BY DEF ratio
  <2> QED  BY <1>1, <2>1, <2>2
<1>2. ASSUME NEW r \in DOMAIN size
      PROVE  size[r] \in DOMAIN ratio /\ ratio[size[r]] = r
  <2>1. DOMAIN size = {ratio[z] : z \in DOMAIN ratio}
        /\ size[r] = CHOOSE z \in DOMAIN ratio : ratio[z] = r
    BY DEF size
  <2>2. \E z \in DOMAIN ratio : ratio[z] = r
    BY <2>1
  <2> QED  BY <2>1, <2>2
<1> QED  BY <1>1, <1>2

LEMMA SizeIsShape ==
  ASSUME NEW s, "aspectRatio" \notin DOMAIN s, NEW t, "size" \notin DOMAIN t,
         Has(t, "aspectRatio") <=> Has(s, "size"),
         Has(s, "size") => s["size"] \in DOMAIN ratio /\ t["aspectRatio"] = ratio[s["size"]]
  PROVE  ShapesIn(s) = ShapesIn(t)
<1>1. CASE Has(s, "size")
  <2>1. DOMAIN s \cap {"size"} = {"size"} /\ DOMAIN t \cap {"size"} = {}
    BY <1>1 DEF Has
  <2>2. FirstOf(s, {"size"}) = {s["size"]} /\ FirstOf(t, {"size"}) = {}
    BY <2>1 DEF FirstOf
  <2>3. {z \in DOMAIN ratio : ratio[z] = t["aspectRatio"]} = {s["size"]}
    BY <1>1, RatiosDiffer
  <2> QED  BY <1>1, <2>2, <2>3 DEF ShapesIn, Has
<1>2. CASE ~Has(s, "size")
  BY <1>2, Shapeless DEF Has
<1> QED  BY <1>1, <1>2

(* translate_image_request and the chat routes of pictures ask for the     *)
(* shape they were asked for.                                              *)
LEMMA PictureSettled ==
  ASSUME NEW from \in Dialect, NEW to \in Dialect, "images" \in {from, to},
         NEW r, Written(from, r), NEW context, context.source_stream \in BOOLEAN,
         NEW sent, sent = translate_image_request(from, to, context, r), sent # Bad
  PROVE  Settled(from, r, to, context, sent)
<1> DEFINE s == r.settings
           body == CASE from = "images" /\ to = "gemini" -> openai_image_to_gemini(r)
                     [] from = "gemini" /\ to = "images" ->
                          gemini_image_to_openai(context.target_model, r)
                     [] from = to -> [r EXCEPT !.settings = Renamed(@, context.target_model)]
                     [] OTHER -> Bad
           t == body.settings
<1>1. /\ body # Bad /\ Checked(body) # Bad
      /\ sent = Sent(body, IF to = "gemini" THEN <<context.target_model>> ELSE <<>>, FALSE)
  BY Zenon DEF translate_image_request
<1>2. \/ from = "images" /\ to = "gemini" /\ body = openai_image_to_gemini(r)
      \/ /\ from = "gemini" /\ to = "images"
         /\ body = gemini_image_to_openai(context.target_model, r)
      \/ /\ from = "images" /\ to = "images"
         /\ body = [r EXCEPT !.settings = Renamed(@, context.target_model)]
  BY <1>1
<1> HIDE DEF body
<1>3. /\ ~Has(t, "bad") /\ sent.body.settings = t
      /\ sent.model = IF to = "gemini" THEN <<context.target_model>> ELSE <<>>
  <2>1. ~Has(t, "bad")
    BY <1>1 DEF Checked
  <2> QED  BY <1>1, <2>1 DEF Sent
<1>4. CASE from = "images" /\ to = "gemini" /\ body = openai_image_to_gemini(r)
  <2>1. PICK a, b :
          /\ a = Just("responseModalities", <<"IMAGE">>)
          /\ b = Listed(s, "size", "aspectRatio", ratio)
          /\ t = Fields(<<a, b>>)
    <3>1. t = Fields(<<Just("responseModalities", <<"IMAGE">>),
                       Listed(s, "size", "aspectRatio", ratio)>>)
      BY <1>1, <1>4, Zenon DEF openai_image_to_gemini, Request
    <3> QED  BY <3>1, Zenon
  <2>2. Only(s, {"model", "size", "n"})
    BY <1>1, <1>4, Zenon DEF openai_image_to_gemini
  <2>3. /\ DOMAIN t = DOMAIN a \cup DOMAIN b
        /\ \A x : InNone(x, {a}) => Field(t, x, b, x)
    <3>1. LET u == Fields(<<a, b>>) IN
          /\ DOMAIN u = DOMAIN a \cup DOMAIN b
          /\ \A x : /\ InNone(x, {b}) => Field(u, x, a, x)
                    /\ InNone(x, {a}) => Field(u, x, b, x)
      BY Two
    <3>2. t = Fields(<<a, b>>)
      BY <2>1
    <3> QED  BY <3>1, <3>2, Zenon
  <2>4. DOMAIN a = {"responseModalities"}
    BY <2>1, Single
  <2>5. /\ DOMAIN b \subseteq {"aspectRatio"} /\ (Has(b, "aspectRatio") <=> Has(s, "size"))
        /\ Has(s, "size") => s["size"] \in DOMAIN ratio /\ b["aspectRatio"] = ratio[s["size"]]
    <3>1. ~Has(b, "bad")
      BY <1>3, <2>3 DEF Has
    <3> QED  BY <2>1, <3>1, ListedIn
  <2>6. Field(t, "aspectRatio", b, "aspectRatio")
    BY <2>3, <2>4 DEF InNone, Has
  <2>7. ShapesIn(s) = ShapesIn(t)
    <3>1. "aspectRatio" \notin DOMAIN s /\ "size" \notin DOMAIN t
      BY <2>2, <2>3, <2>4, <2>5 DEF Only
    <3>2. /\ Has(t, "aspectRatio") <=> Has(s, "size")
          /\ Has(s, "size") => s["size"] \in DOMAIN ratio /\ t["aspectRatio"] = ratio[s["size"]]
      BY <2>5, <2>6 DEF Field
    <3> HIDE DEF s, t
    <3> QED  BY <3>1, <3>2, SizeIsShape
  <2>8. /\ DOMAIN s \subseteq {"model", "size", "n", "responseModalities", "aspectRatio"}
        /\ DOMAIN t \subseteq {"model", "size", "n", "responseModalities", "aspectRatio"}
    BY <2>2, <2>3, <2>4, <2>5 DEF Only
  <2>9. /\ Asks(to, t) = Asks(from, s) /\ ~Serial(from, s) /\ ~Serial(to, t)
        /\ Accepted(to, DOMAIN s \cap {"tool_choice", "toolConfig"} # {}, t)
    <3> HIDE DEF s, t
    <3> QED  BY <1>4, <2>7, <2>8, PictureAsks
  <2>10. sent.model[1] = context.target_model
    BY <1>3, <1>4
  <2> QED  BY <1>3, <1>4, <2>9, <2>10 DEF Settled
<1>5. CASE /\ from = "gemini" /\ to = "images"
           /\ body = gemini_image_to_openai(context.target_model, r)
  <2>1. PICK a, b :
          /\ a = Just("model", context.target_model)
          /\ b = Listed(s, "aspectRatio", "size", size)
          /\ t = Fields(<<a, b>>)
    <3>1. t = Fields(<<Just("model", context.target_model),
                       Listed(s, "aspectRatio", "size", size)>>)
      BY <1>1, <1>5, Zenon DEF gemini_image_to_openai, Request
    <3> QED  BY <3>1, Zenon
  <2>2. Only(s, {"responseModalities", "aspectRatio"})
    BY <1>1, <1>5, Zenon DEF gemini_image_to_openai
  <2>3. /\ DOMAIN t = DOMAIN a \cup DOMAIN b
        /\ \A x : /\ InNone(x, {b}) => Field(t, x, a, x)
                  /\ InNone(x, {a}) => Field(t, x, b, x)
    <3>1. LET u == Fields(<<a, b>>) IN
          /\ DOMAIN u = DOMAIN a \cup DOMAIN b
          /\ \A x : /\ InNone(x, {b}) => Field(u, x, a, x)
                    /\ InNone(x, {a}) => Field(u, x, b, x)
      BY Two
    <3>2. t = Fields(<<a, b>>)
      BY <2>1
    <3> QED  BY <3>1, <3>2, Zenon
  <2>4. DOMAIN a = {"model"} /\ a["model"] = context.target_model
    BY <2>1, Single
  <2>5. /\ DOMAIN b \subseteq {"size"} /\ (Has(b, "size") <=> Has(s, "aspectRatio"))
        /\ Has(s, "aspectRatio") =>
             s["aspectRatio"] \in DOMAIN size /\ b["size"] = size[s["aspectRatio"]]
    <3>1. ~Has(b, "bad")
      BY <1>3, <2>3 DEF Has
    <3> QED  BY <2>1, <3>1, ListedIn
  <2>6. Field(t, "size", b, "size") /\ Field(t, "model", a, "model")
    BY <2>3, <2>4, <2>5 DEF InNone, Has
  <2>7. ShapesIn(t) = ShapesIn(s)
    <3>1. "aspectRatio" \notin DOMAIN t /\ "size" \notin DOMAIN s
      BY <2>2, <2>3, <2>4, <2>5 DEF Only
    <3>2. /\ Has(s, "aspectRatio") <=> Has(t, "size")
          /\ Has(t, "size") => t["size"] \in DOMAIN ratio /\ s["aspectRatio"] = ratio[t["size"]]
      BY <2>5, <2>6, RatiosDiffer DEF Field
    <3> HIDE DEF s, t
    <3> QED  BY <3>1, <3>2, SizeIsShape
  <2>8. /\ DOMAIN s \subseteq {"model", "size", "n", "responseModalities", "aspectRatio"}
        /\ DOMAIN t \subseteq {"model", "size", "n", "responseModalities", "aspectRatio"}
    BY <2>2, <2>3, <2>4, <2>5 DEF Only
  <2>9. /\ Asks(to, t) = Asks(from, s) /\ ~Serial(from, s) /\ ~Serial(to, t)
        /\ Accepted(to, DOMAIN s \cap {"tool_choice", "toolConfig"} # {}, t)
    <3> HIDE DEF s, t
    <3> QED  BY <1>5, <2>7, <2>8, PictureAsks
  <2>10. t["model"] = context.target_model
    BY <2>4, <2>6 DEF Field, Has
  <2> QED  BY <1>3, <1>5, <2>9, <2>10 DEF Settled
<1>6. CASE /\ from = "images" /\ to = "images"
           /\ body = [r EXCEPT !.settings = Renamed(@, context.target_model)]
  <2> DEFINE u == Renamed(s, context.target_model)
  <2>1. body = Request(r.system, r.turns, u)
    <3>1. r = Request(r.system, r.turns, s)
      BY DEF Written
    <3>2. body = [r EXCEPT !.settings = u]
      BY <1>6
    <3> HIDE DEF s, u
    <3> QED  BY <3>1, <3>2 DEF Request
  <2>2. t["model"] = context.target_model
    <3>1. u["model"] = context.target_model
      BY DEF Renamed, Put
    <3> HIDE DEF u
    <3> QED  BY <2>1, <3>1 DEF Request
  <2> QED  BY <1>3, <1>6, <2>2 DEF Settled
<1> QED  BY <1>2, <1>4, <1>5, <1>6

-----------------------------------------------------------------------------
(* What the client has written keeps its form, and what is sent is its     *)
(* translation.                                                            *)
SettingsInvariant ==
  /\ client \in Dialect /\ streamed \in BOOLEAN
  /\ client # "gemini" => streamed = FALSE
  /\ Written(client, doc)
  /\ stage = "asked" => upstream \in Dialect /\ Settled(client, doc, upstream, Context, asked)

(* Further turns leave the settings of a document as they were.            *)
LEMMA StillWritten ==
  ASSUME NEW f, NEW d, Written(f, d), NEW turns
  PROVE  /\ Written(f, [d EXCEPT !.turns = turns])
         /\ [d EXCEPT !.turns = turns].settings = d.settings
<1>1. [d EXCEPT !.turns = turns] = Request(d.system, turns, d.settings)
  BY DEF Written, Request
<1>2. \A e : e = Request(d.system, turns, d.settings) => Written(f, e) /\ e.settings = d.settings
  BY DEF Written, Request
<1> QED  BY <1>1, <1>2

LEMMA AskSettles ==
  ASSUME SettingsInvariant, NEW to \in Dialect, Ask(to)
  PROVE  SettingsInvariant'
<1> DEFINE sent == IF "images" \in {client, to}
                     THEN translate_image_request(client, to, Context, doc)
                     ELSE translate_request(client, to, Context, doc)
<1>1. /\ upstream' = to
      /\ \/ stage' = "refused" /\ asked' = Nothing
         \/ stage' = "asked" /\ asked' = sent /\ sent # Bad
      /\ UNCHANGED <<client, doc, streamed>>
  BY Zenon DEF Ask
<1>2. Context.source_stream = streamed
  BY DEF Context
<1>3. sent # Bad => Settled(client, doc, to, Context, sent)
  <2> SUFFICES ASSUME sent # Bad
               PROVE  Settled(client, doc, to, Context, sent)
    OBVIOUS
  <2>1. CASE "images" \in {client, to}
    BY <1>2, <2>1, PictureSettled DEF SettingsInvariant
  <2>2. CASE "images" \notin {client, to}
    <3>1. client \in Format /\ to \in Format /\ sent = translate_request(client, to, Context, doc)
      BY <2>2 DEF SettingsInvariant, Dialect
    <3> HIDE DEF sent
    <3>2. CASE client # to
      BY <1>2, <3>1, <3>2, TextSettled DEF SettingsInvariant
    <3>3. CASE client = to
      <4>1. sent = translate_request(client, client, Context, doc)
        BY <3>1, <3>3
      <4>2. Settled(client, doc, client, Context, sent)
        <5>1. /\ client \in Format /\ Written(client, doc)
              /\ Context.source_stream \in (IF client = "gemini" THEN BOOLEAN ELSE {FALSE})
          BY <1>2, <3>1 DEF SettingsInvariant
        <5>2. Settled(client, doc, client, Context, translate_request(client, client, Context, doc))
          BY <5>1, SameDialectSettled
        <5> QED  BY <4>1, <5>2
      <4> QED  BY <3>3, <4>2
    <3> QED  BY <3>2, <3>3
  <2> QED  BY <2>1, <2>2
<1> HIDE DEF sent
<1>4. Context' = Context
  BY <1>1 DEF Context
<1> QED  BY <1>1, <1>3, <1>4 DEF SettingsInvariant

LEMMA SettingsInvariantHolds == Spec => []SettingsInvariant
<1>1. Init => SettingsInvariant
  BY DEF Init, SettingsInvariant
<1>2. SettingsInvariant /\ [Next]_vars => SettingsInvariant'
  <2> SUFFICES ASSUME SettingsInvariant, [Next]_vars
               PROVE  SettingsInvariant'
    OBVIOUS
  <2>1. CASE Write
    BY <2>1, StillWritten DEF Write, SettingsInvariant
  <2>2. ASSUME NEW to \in Dialect, Ask(to)
        PROVE  SettingsInvariant'
    BY <2>2, AskSettles
  <2>3. CASE Respond
    BY <2>3 DEF Respond, SettingsInvariant
  <2>4. CASE Return
    <3>1. stage' # "asked" /\ UNCHANGED <<client, doc, streamed>>
      BY <2>4, Zenon DEF Return
    <3> QED  BY <3>1 DEF SettingsInvariant
  <2>5. CASE Continue
    <3>1. stage' = "writing" /\ UNCHANGED <<client, streamed>>
      BY <2>5 DEF Continue
    <3>2. \E turns : doc' = [doc EXCEPT !.turns = turns]
      BY <2>5, Zenon DEF Continue
    <3> QED  BY <3>1, <3>2, StillWritten DEF SettingsInvariant
  <2>6. CASE UNCHANGED vars
    BY <2>6 DEF vars, SettingsInvariant, Context
  <2> QED  BY <2>1, <2>2, <2>3, <2>4, <2>5, <2>6 DEF Next
<1> QED  BY <1>1, <1>2, PTL DEF Spec

(* SettingsKept of every conversation, for settings and tools of any       *)
(* number and value: what the relay sends names the model that was chosen  *)
(* and asks for the limit, temperature, stop words, user, tools, choice,   *)
(* reasoning, shape and streaming the client asked for, through both       *)
(* halves of translate_request (from the client's dialect to the hub and   *)
(* from there to the target's) and through translate_image_request.        *)
THEOREM SettingsKeptHeld == Spec => []SettingsKept
<1>1. SettingsInvariant => SettingsKept
  <2> SUFFICES ASSUME SettingsInvariant, stage = "asked"
               PROVE  SettingsKept
    BY DEF SettingsKept
  <2>1. Settled(client, doc, upstream, Context, asked)
    BY DEF SettingsInvariant
  <2>2. Context.source_stream = streamed /\ Context.target_model = Model.target
    BY DEF Context
  <2>3. upstream # client =>
          (Serial(upstream, asked.body.settings)
             = (Serial(client, doc.settings) /\ ~LosesSerial))
    <3>1. /\ Serial(upstream, asked.body.settings) \in BOOLEAN
          /\ Serial(client, doc.settings) \in BOOLEAN
      BY DEF Serial
    <3>2. Serial(client, doc.settings) /\ ~LosesSerial
            <=> Serial(client, doc.settings) /\ upstream # "responses"
      BY DEF LosesSerial
    <3> QED  BY <2>1, <3>1, <3>2 DEF Settled
  <2> QED  BY <2>1, <2>2, <2>3 DEF Settled, SettingsKept, Crossed
<1> QED  BY <1>1, SettingsInvariantHolds, PTL

(* The settings half of TargetAccepts: a request that crosses to another   *)
(* dialect has a limit and a reasoning budget in range, a choice only      *)
(* beside tools, and descriptions where the vendor demands them, as        *)
(* insert_reasoning, openai_tool_choice_to_anthropic and the tool writers  *)
(* of translate.rs and relay/mod.rs make them.                             *)
THEOREM SettingsAcceptedHeld == Spec => []SettingsAccepted
<1>1. SettingsInvariant => SettingsAccepted
  <2> SUFFICES ASSUME SettingsInvariant, stage = "asked", upstream # client
               PROVE  SettingsAccepted
    BY DEF SettingsAccepted, Crossed
  <2>1. Accepted(upstream, DOMAIN doc.settings \cap {"tool_choice", "toolConfig"} # {},
                 asked.body.settings)
    BY DEF SettingsInvariant, Settled
  <2> QED  BY <2>1 DEF Accepted, SettingsAccepted
<1> QED  BY <1>1, SettingsInvariantHolds, PTL

-----------------------------------------------------------------------------
(* What the hub says of a client's document: the same, in the same order   *)
(* unless the dialect keeps another, and nothing of a file's type.         *)
InHubOrder(from, d) ==
  CASE from = "anthropic" -> \A i \in DOMAIN d.turns : InOrder(d.turns[i].content.parts)
    [] from = "gemini" -> \A i \in DOMAIN d.turns : Sequenced(d.turns[i].parts)
    [] OTHER -> TRUE
InHubTypes(from, d) ==
  from = "gemini" => \A i \in DOMAIN d.turns : Typeless(d.turns[i].parts)
HubTells(from, d, ms) ==
  /\ ChatForms(ms)
  /\ InHubTypes(from, d) =>
       /\ from # "chat" => AllTidy(ms)
       /\ Rearranged(Concat(Told(ms)), Speech(from, d))
       /\ InHubOrder(from, d) => Concat(Told(ms)) = Speech(from, d)

LEMMA SameIsRearranged ==
  ASSUME NEW said
  PROVE  Rearranged(said, said)
BY DEF Rearranged

LEMMA ChatToHub ==
  ASSUME NEW d, Worded("chat", d)
  PROVE  HubTells("chat", d, d.turns)
<1>1. IsSeq(d.turns) /\ DOMAIN d.turns = 1..Len(d.turns) /\ d.system = <<>>
      /\ \A i \in DOMAIN d.turns : ChatForm(d.turns[i])
  <2>1. IsSeq(d.turns) /\ d.system = <<>> /\ \A i \in DOMAIN d.turns : ChatForm(d.turns[i])
    BY DEF Worded, TurnForm
  <2> QED  BY <2>1 DEF IsSeq
<1>2. ChatForms(d.turns)
  BY <1>1 DEF ChatForms
<1>3. Speech("chat", d) = Concat(Told(d.turns))
  <2>1. Spoke("system", d.system) = <<>>
    BY <1>1, SpokeNone
  <2>2. Each(LAMBDA t : Turn("chat", t), d.turns) = Told(d.turns)
    BY SMT DEF Each, Told, Turn
  <2>3. Speech("chat", d) = Spoke("system", d.system) \o Concat(Each(LAMBDA t : Turn("chat", t), d.turns))
    BY Zenon DEF Speech
  <2>4. IsSeq(Concat(Told(d.turns)))
    BY <1>2, ToldLists
  <2>5. <<>> \o Concat(Told(d.turns)) = Concat(Told(d.turns))
    BY <2>4, Empty
  <2> QED  BY <2>1, <2>2, <2>3, <2>5
<1> QED  BY <1>2, <1>3, SameIsRearranged DEF HubTells
LEMMA TellsHub ==
  ASSUME NEW from, from # "chat", NEW d, NEW ms, ~AnyBad(ms),
         Tells(ms, Speech(from, d))
  PROVE  HubTells(from, d, ms)
<1>1. ChatForms(ms) /\ AllTidy(ms) /\ Concat(Told(ms)) = Speech(from, d)
  BY HubGood DEF Tells
<1>2. Rearranged(Concat(Told(ms)), Speech(from, d))
  BY <1>1, SameIsRearranged
<1> QED  BY <1>1, <1>2 DEF HubTells

LEMMA ResponsesToHub ==
  ASSUME NEW d, Worded("responses", d), NEW hub, hub = responses_to_chat(d), hub # Bad,
         ~AnyBad(hub.turns)
  PROVE  hub.system = <<>> /\ HubTells("responses", d, hub.turns)
<1>1. \E s : hub = Request(<<>>, responses_input_to_chat(d.turns, Instructions(d.system)), s)
  BY Zenon DEF responses_to_chat, Instructions
<1>2. hub.system = <<>> /\ hub.turns = responses_input_to_chat(d.turns, Instructions(d.system))
  BY <1>1 DEF Request
<1>3. Tells(hub.turns, Speech("responses", d))
  BY <1>2, ResponsesTold
<1> QED  BY <1>2, <1>3, TellsHub

LEMMA AnthropicToHub ==
  ASSUME NEW d, Worded("anthropic", d), NEW hub, hub = anthropic_to_openai_chat(d), hub # Bad,
         ~AnyBad(hub.turns)
  PROVE  hub.system = <<>> /\ HubTells("anthropic", d, hub.turns)
<1>1. \E s : hub = Request(<<>>, AnthropicHub(d), s)
  BY Zenon DEF anthropic_to_openai_chat, AnthropicHub, Prompt
<1>2. hub.system = <<>> /\ hub.turns = AnthropicHub(d)
  BY <1>1 DEF Request
<1>3. Loosely(hub.turns, Speech("anthropic", d))
  BY <1>2, AnthropicTold
<1>4. /\ ChatForms(hub.turns) /\ AllTidy(hub.turns)
      /\ Rearranged(Concat(Told(hub.turns)), Speech("anthropic", d))
  BY <1>3, HubGood DEF Loosely
<1>5. ASSUME \A i \in DOMAIN d.turns : InOrder(d.turns[i].content.parts)
      PROVE  HubTells("anthropic", d, hub.turns)
  <2>1. Tells(hub.turns, Speech("anthropic", d))
    BY <1>2, <1>5, AnthropicTold
  <2> QED  BY <2>1, TellsHub
<1>6. ASSUME ~(\A i \in DOMAIN d.turns : InOrder(d.turns[i].content.parts))
      PROVE  HubTells("anthropic", d, hub.turns)
  <2>1. ~InHubOrder("anthropic", d)
    BY <1>6 DEF InHubOrder
  <2> QED  BY <1>4, <2>1 DEF HubTells
<1> QED  BY <1>2, <1>5, <1>6

LEMMA GeminiToHub ==
  ASSUME NEW d, Worded("gemini", d), NEW model, NEW hub, hub = gemini_to_chat(model, d),
         hub # Bad, ~AnyBad(hub.turns)
  PROVE  hub.system = <<>> /\ HubTells("gemini", d, hub.turns)
<1>1. \E s : hub = Request(<<>>, GeminiDoc(d), s)
  BY Zenon DEF gemini_to_chat, GeminiDoc, Prompt
<1>2. hub.system = <<>> /\ hub.turns = GeminiDoc(d)
  BY <1>1 DEF Request
<1>3. Hub(hub.turns)
  BY <1>2, GeminiTold
<1>4. ChatForms(hub.turns)
  BY <1>3, HubGood
<1>6. ASSUME InHubTypes("gemini", d)
      PROVE  AllTidy(hub.turns) /\ Rearranged(Concat(Told(hub.turns)), Speech("gemini", d))
  <2>1. \A i \in DOMAIN d.turns : Typeless(d.turns[i].parts)
    BY <1>6 DEF InHubTypes
  <2>2. Loosely(hub.turns, Speech("gemini", d))
    BY <1>2, <2>1, GeminiTold
  <2>3. ~AnyBad(hub.turns)
    OBVIOUS
  <2> QED  BY <2>2, <2>3 DEF Loosely
<1>7. ASSUME InHubTypes("gemini", d), InHubOrder("gemini", d)
      PROVE  Concat(Told(hub.turns)) = Speech("gemini", d)
  <2>1. \A i \in DOMAIN d.turns : Typeless(d.turns[i].parts) /\ Sequenced(d.turns[i].parts)
    BY <1>7 DEF InHubTypes, InHubOrder
  <2>2. Tells(hub.turns, Speech("gemini", d))
    BY <1>2, <2>1, GeminiTold
  <2> QED  BY <2>2 DEF Tells
<1> QED  BY <1>2, <1>4, <1>6, <1>7 DEF HubTells

(* The document without its reasoning and its stream is put the same way.  *)
LEMMA HubSays ==
  ASSUME NEW from \in Format, NEW d, Written(from, d), Worded(from, d), NEW context,
         NEW hub, hub = request_to_chat(from, context, d), hub # Bad, ~AnyBad(hub.turns)
  PROVE  hub.system = <<>> /\ HubTells(from, d, hub.turns)
<1> DEFINE c == Drop(d.settings, TakenOut(from))
           clean == Request(d.system, d.turns, c)
<1>1. d = Request(d.system, d.turns, d.settings)
  BY DEF Written
<1>2. [d EXCEPT !.settings = Drop(@, TakenOut(from))] = clean
  BY <1>1 DEF Request
<1>3. hub = CASE from = "chat" -> clean
              [] from = "responses" -> responses_to_chat(clean)
              [] from = "anthropic" -> anthropic_to_openai_chat(clean)
              [] from = "gemini" -> gemini_to_chat(context.source_model, clean)
  BY <1>2, Zenon DEF request_to_chat, TakenOut
<1>4. clean.system = d.system /\ clean.turns = d.turns
  BY DEF Request
<1> HIDE DEF clean
<1>5. Worded(from, clean) /\ Speech(from, clean) = Speech(from, d)
  BY <1>4 DEF Worded, Speech
<1>6. HubTells(from, clean, hub.turns) => HubTells(from, d, hub.turns)
  BY <1>4, <1>5 DEF HubTells, InHubTypes, InHubOrder
<1>7. CASE from = "chat"
  <2>1. hub = clean /\ clean.system = <<>>
    BY <1>3, <1>5, <1>7 DEF Worded
  <2>2. HubTells("chat", clean, clean.turns)
    BY <1>5, <1>7, ChatToHub
  <2> QED  BY <1>6, <1>7, <2>1, <2>2
<1>8. CASE from = "responses"
  <2>1. hub = responses_to_chat(clean)
    BY <1>3, <1>8
  <2> QED  BY <1>5, <1>6, <1>8, <2>1, ResponsesToHub
<1>9. CASE from = "anthropic"
  <2>1. hub = anthropic_to_openai_chat(clean)
    BY <1>3, <1>9
  <2> QED  BY <1>5, <1>6, <1>9, <2>1, AnthropicToHub
<1>10. CASE from = "gemini"
  <2>1. hub = gemini_to_chat(context.source_model, clean)
    BY <1>3, <1>10
  <2> QED  BY <1>5, <1>6, <1>10, <2>1, GeminiToHub
<1> QED  BY <1>7, <1>8, <1>9, <1>10 DEF Format

-----------------------------------------------------------------------------
(* A target's body says what the hub's messages say, and has turns its     *)
(* vendor accepts.                                                         *)
TurnsGood(to, turns) ==
  /\ to = "anthropic" =>
       turns # <<>> /\ \A i \in 1..Len(turns) - 1 : turns[i].role # turns[i + 1].role
  /\ to = "gemini" =>
       \A i \in DOMAIN turns : turns[i].parts # <<>>
         /\ \A j \in DOMAIN turns[i].parts :
              turns[i].parts[j].is = "functionResponse" => turns[i].parts[j].name # ""

LEMMA ToChatSays ==
  ASSUME NEW r, r.system = <<>>, ChatForms(r.turns)
  PROVE  Speech("chat", r) = Concat(Told(r.turns))
<1>1. Spoke("system", r.system) = <<>>
  BY SpokeNone
<1>2. Each(LAMBDA t : Turn("chat", t), r.turns) = Told(r.turns)
  BY SMT DEF Each, Told, Turn
<1>3. Speech("chat", r)
        = Spoke("system", r.system) \o Concat(Each(LAMBDA t : Turn("chat", t), r.turns))
  BY Zenon DEF Speech
<1>4. IsSeq(Concat(Told(r.turns)))
  BY ToldLists
<1>5. <<>> \o Concat(Told(r.turns)) = Concat(Told(r.turns))
  BY <1>4, Empty
<1> QED  BY <1>1, <1>2, <1>3, <1>5

LEMMA ToResponsesSays ==
  ASSUME NEW r, ChatForms(r.turns), NEW b, b = chat_to_responses(r), b # Bad, ~AnyBad(b.turns)
  PROVE  AllTidy(r.turns) => Speech("responses", b) = Concat(Told(r.turns))
<1>1. \E s : b = Request(<<>>, chat_messages_to_responses(r.turns), s)
  BY Zenon DEF chat_to_responses
<1>2. b.system = <<>> /\ b.turns = chat_messages_to_responses(r.turns)
  BY <1>1 DEF Request
<1>3. AllTidy(r.turns) => Heard("responses", b.turns) = Concat(Told(r.turns))
  BY <1>2, ResponsesHeard
<1>4. Speech("responses", b) = Concat(Each(LAMBDA t : Texts("system", t), b.system))
                                 \o Heard("responses", b.turns)
  BY Zenon DEF Speech, Heard, Voiced
<1>5. Concat(Each(LAMBDA t : Texts("system", t), b.system)) = <<>>
  <2>1. Each(LAMBDA t : Texts("system", t), b.system) = <<>>
    BY <1>2, SMT DEF Each
  <2> QED  BY <2>1, NoLists
<1>6. IsSeq(Concat(Told(r.turns)))
  BY ToldLists
<1>7. <<>> \o Concat(Told(r.turns)) = Concat(Told(r.turns))
  BY <1>6, Empty
<1> QED  BY <1>3, <1>4, <1>5, <1>7

LEMMA ToAnthropicSays ==
  ASSUME NEW r, ChatForms(r.turns), NEW b, b = openai_chat_to_anthropic(r), b # Bad,
         ~AnyBad(b.system), ~AnyBad(b.turns)
  PROVE  Speech("anthropic", b) = Concat(Told(r.turns)) /\ TurnsGood("anthropic", b.turns)
<1>1. PICK h : h = convert_openai_messages(r.turns)
  OBVIOUS
<1>2. h.messages # <<>> /\ \E s : b = Request(h.system, h.messages, s)
  BY <1>1, Zenon DEF openai_chat_to_anthropic
<1>3. b.system = h.system /\ b.turns = h.messages
  BY <1>2 DEF Request
<1>4. Alternates(h.messages)
  BY <1>1, <1>3, AnthropicHeard
<1>5. Spoke("system", h.system) \o Heard("anthropic", h.messages) = Concat(Told(r.turns))
  BY <1>1, <1>3, AnthropicHeard
<1>6. Speech("anthropic", b) = Spoke("system", b.system) \o Heard("anthropic", b.turns)
  BY Zenon DEF Speech, Heard, Voiced
<1> QED  BY <1>2, <1>3, <1>4, <1>5, <1>6 DEF TurnsGood, Alternates

LEMMA ToGeminiSays ==
  ASSUME NEW r, ChatForms(r.turns), NEW b, b = chat_to_gemini(r), b # Bad,
         ~AnyBad(b.system), ~AnyBad(b.turns)
  PROVE  /\ AllTidy(r.turns) => Speech("gemini", b) = Concat(Told(r.turns))
         /\ TurnsGood("gemini", b.turns)
<1>1. PICK h : h = chat_messages_to_gemini(r.turns)
  OBVIOUS
<1>2. \E s : b = Request(h.system, h.contents, s)
  BY <1>1, Zenon DEF chat_to_gemini
<1>3. b.system = h.system /\ b.turns = h.contents
  BY <1>2 DEF Request
<1>4. IsSeq(h.contents) /\ \A i \in 1..Len(h.contents) : GeminiGood(h.contents[i])
  BY <1>1, <1>3, GeminiHeard
<1>5. ASSUME AllTidy(r.turns)
      PROVE  Speech("gemini", b) = Concat(Told(r.turns))
  <2>1. Spoke("system", h.system) \o Heard("gemini", h.contents) = Concat(Told(r.turns))
    BY <1>1, <1>3, <1>5, GeminiHeard
  <2>2. Speech("gemini", b) = Spoke("system", b.system) \o Heard("gemini", b.turns)
    BY Zenon DEF Speech, Heard, Voiced
  <2> QED  BY <1>3, <2>1, <2>2
<1>6. DOMAIN b.turns = 1..Len(h.contents)
  BY <1>3, <1>4, SeqIs
<1>7. TurnsGood("gemini", b.turns)
  BY <1>3, <1>4, <1>6, ZenonT(30) DEF TurnsGood, GeminiGood
<1> QED  BY <1>5, <1>7

LEMMA HubOfChat ==
  ASSUME NEW d, Written("chat", d), NEW context, NEW hub,
         hub = request_to_chat("chat", context, d), hub # Bad
  PROVE  hub.turns = d.turns
<1>1. PICK c : c = Drop(d.settings, TakenOut("chat"))
  OBVIOUS
<1>2. d = Request(d.system, d.turns, d.settings)
  BY DEF Written
<1>3. [d EXCEPT !.settings = Drop(@, TakenOut("chat"))] = Request(d.system, d.turns, c)
  BY <1>1, <1>2 DEF Request
<1>4. hub = Request(d.system, d.turns, c)
  BY <1>3, Zenon DEF request_to_chat, TakenOut
<1> QED  BY <1>4 DEF Request

(* What request_from_chat sends is that body: what is asked beside it      *)
(* leaves the turns as they are.                                           *)
LEMMA SentSays ==
  ASSUME NEW to \in Format, NEW chat, Formed(chat), chat.system = <<>>, ChatForms(chat.turns),
         NEW R, NEW stream,
         NEW sent, sent = request_from_chat(to, chat, R, stream), sent # Bad
  PROVE  /\ TurnsGood(to, sent.body.turns)
         /\ (to \in {"responses", "gemini"} => AllTidy(chat.turns)) =>
              Speech(to, sent.body) = Concat(Told(chat.turns))
<1> DEFINE body == CASE to = "chat" -> chat
                     [] to = "responses" -> chat_to_responses(chat)
                     [] to = "anthropic" -> openai_chat_to_anthropic(chat)
                     [] to = "gemini" -> chat_to_gemini(chat)
           t == insert_stream(to, stream, insert_reasoning(to, R, body.settings))
           full == [body EXCEPT !.settings = insert_stream(to, stream, insert_reasoning(to, R, @))]
<1>1. /\ body # Bad /\ Checked(body) # Bad
      /\ \E m : sent = Sent(full, m, stream)
  BY Zenon DEF request_from_chat
<1>2. Formed(body)
  <2>1. CASE to = "chat"
    BY <2>1
  <2>2. CASE to # "chat"
    <3>1. \E x, y, z : body = Request(x, y, z)
      <4>1. CASE to = "responses"
        <5>1. body = chat_to_responses(chat)
          BY <4>1
        <5> HIDE DEF body
        <5> QED  BY <1>1, <5>1, Zenon DEF chat_to_responses
      <4>2. CASE to = "anthropic"
        <5>1. body = openai_chat_to_anthropic(chat)
          BY <4>2
        <5> HIDE DEF body
        <5> QED  BY <1>1, <5>1, Zenon DEF openai_chat_to_anthropic
      <4>3. CASE to = "gemini"
        <5>1. body = chat_to_gemini(chat)
          BY <4>3
        <5> HIDE DEF body
        <5> QED  BY <1>1, <5>1, Zenon DEF chat_to_gemini
      <4> QED  BY <2>2, <4>1, <4>2, <4>3 DEF Format
    <3> HIDE DEF body
    <3> QED  BY <3>1 DEF Request, Formed
  <2> QED  BY <2>1, <2>2
<1>3. full = Request(body.system, body.turns, t)
  <2> HIDE DEF body
  <2> QED  BY <1>2 DEF Formed, Request
<1>4. sent.body = Request(body.system, body.turns, t)
  <2> HIDE DEF t, full, body
  <2> QED  BY <1>1, <1>3 DEF Sent
<1>5. sent.body.system = body.system /\ sent.body.turns = body.turns
  <2> HIDE DEF t, body
  <2> QED  BY <1>4 DEF Request
<1>6. ~AnyBad(body.system) /\ ~AnyBad(body.turns)
  <2> HIDE DEF body
  <2> QED  BY <1>1 DEF Checked
<1>7. Speech(to, sent.body) = Speech(to, body)
  <2> HIDE DEF body
  <2> QED  BY <1>5, Zenon DEF Speech
<1>8. CASE to = "chat"
  <2>1. body = chat
    BY <1>8
  <2>2. Speech("chat", chat) = Concat(Told(chat.turns))
    BY ToChatSays
  <2> HIDE DEF body
  <2> QED  BY <1>5, <1>7, <1>8, <2>1, <2>2 DEF TurnsGood
<1>9. CASE to = "responses"
  <2>1. body = chat_to_responses(chat)
    BY <1>9
  <2> HIDE DEF body
  <2>2. AllTidy(chat.turns) => Speech("responses", body) = Concat(Told(chat.turns))
    BY <1>1, <1>6, <2>1, ToResponsesSays
  <2> QED  BY <1>7, <1>9, <2>2 DEF TurnsGood
<1>10. CASE to = "anthropic"
  <2>1. body = openai_chat_to_anthropic(chat)
    BY <1>10
  <2> HIDE DEF body
  <2>2. Speech("anthropic", body) = Concat(Told(chat.turns)) /\ TurnsGood("anthropic", body.turns)
    BY <1>1, <1>6, <2>1, ToAnthropicSays
  <2> QED  BY <1>5, <1>7, <1>10, <2>2
<1>11. CASE to = "gemini"
  <2>1. body = chat_to_gemini(chat)
    BY <1>11
  <2> HIDE DEF body
  <2>2. /\ AllTidy(chat.turns) => Speech("gemini", body) = Concat(Told(chat.turns))
        /\ TurnsGood("gemini", body.turns)
    BY <1>1, <1>6, <2>1, ToGeminiSays
  <2> QED  BY <1>5, <1>7, <1>11, <2>2
<1> QED  BY <1>8, <1>9, <1>10, <1>11 DEF Format

(* What a target of another dialect is sent says what the client said.     *)
ChatTidy(from, to, d) == from = "chat" /\ to \in {"responses", "gemini"} => AllTidy(d.turns)
SaysAlike(from, d, to, body) ==
  /\ TurnsGood(to, body.turns)
  /\ InHubTypes(from, d) /\ ChatTidy(from, to, d) =>
       /\ Rearranged(Speech(to, body), Speech(from, d))
       /\ InHubOrder(from, d) => Speech(to, body) = Speech(from, d)

LEMMA TextSaid ==
  ASSUME NEW from \in Format, NEW to \in Format, from # to,
         NEW d, Written(from, d), Worded(from, d), NEW context,
         NEW sent, sent = translate_request(from, to, context, d), sent # Bad
  PROVE  SaysAlike(from, d, to, sent.body)
<1> DEFINE R == extract_reasoning(from, d.settings)
           stream == extract_stream(from, context.source_stream, d.settings)
           hub == request_to_chat(from, context, d)
           chat == [hub EXCEPT !.settings = Renamed(@, context.target_model)]
<1>1. /\ hub # Bad /\ Checked(hub) # Bad
      /\ sent = request_from_chat(to, chat, R, stream)
  BY Zenon DEF translate_request
<1>2. Formed(hub)
  BY <1>1, HubOf
<1> HIDE DEF R, stream, hub
<1>3. ~AnyBad(hub.turns)
  BY <1>1 DEF Checked
<1>4. hub.system = <<>> /\ HubTells(from, d, hub.turns)
  BY <1>1, <1>3, HubSays DEF hub
<1>5. Formed(chat) /\ chat.system = <<>> /\ chat.turns = hub.turns
  <2>1. chat = Request(hub.system, hub.turns, Renamed(hub.settings, context.target_model))
    BY <1>2 DEF Formed, Request
  <2> HIDE DEF chat
  <2> QED  BY <1>4, <2>1 DEF Request, Formed
<1> HIDE DEF chat
<1>6. ChatForms(chat.turns)
  BY <1>4, <1>5 DEF HubTells
<1>7. /\ TurnsGood(to, sent.body.turns)
      /\ (to \in {"responses", "gemini"} => AllTidy(chat.turns)) =>
           Speech(to, sent.body) = Concat(Told(chat.turns))
  BY <1>1, <1>5, <1>6, SentSays
<1>8. ASSUME InHubTypes(from, d), ChatTidy(from, to, d)
      PROVE  /\ Rearranged(Speech(to, sent.body), Speech(from, d))
             /\ InHubOrder(from, d) => Speech(to, sent.body) = Speech(from, d)
  <2>1. to \in {"responses", "gemini"} => AllTidy(chat.turns)
    <3>1. CASE from = "chat"
      <4>1. hub.turns = d.turns
        BY <1>1, <3>1, HubOfChat DEF hub
      <4> QED  BY <1>5, <1>8, <3>1, <4>1 DEF ChatTidy
    <3>2. CASE from # "chat"
      BY <1>4, <1>5, <1>8, <3>2 DEF HubTells
    <3> QED  BY <3>1, <3>2
  <2>2. Speech(to, sent.body) = Concat(Told(chat.turns))
    BY <1>7, <2>1
  <2> QED  BY <1>4, <1>5, <1>8, <2>2 DEF HubTells
<1> QED  BY <1>7, <1>8 DEF SaysAlike

-----------------------------------------------------------------------------
(* A prompt for a picture is the one turn of its document.                 *)
LEMMA OnePrompt ==
  ASSUME NEW f \in {"images", "gemini"}, NEW d, NEW t, d.system = <<>>, d.turns = <<t>>,
         t.role = "user", PlainParts(t.parts)
  PROVE  Speech(f, d) = Spoke("user", t.parts)
<1>1. Speech(f, d) = Spoke("system", d.system) \o Concat(Each(LAMBDA u : Turn(f, u), d.turns))
  BY Zenon DEF Speech
<1>2. Spoke("system", d.system) = <<>>
  BY SpokeNone
<1>3. Turn(f, t) = Spoke("user", t.parts)
  BY DEF Turn, Speaker
<1>4. IsSeq(Spoke("user", t.parts))
  BY SpokeSeq
<1>5. PICK s : s = Spoke("user", t.parts)
  OBVIOUS
<1>6. Each(LAMBDA u : Turn(f, u), d.turns) = <<s>>
  <2>1. DOMAIN <<t>> = 1..1 /\ <<t>>[1] = t
    OBVIOUS
  <2>2. Each(LAMBDA u : Turn(f, u), d.turns) = [i \in 1..1 |-> s]
    BY <1>3, <1>5, <2>1, SMT DEF Each
  <2> QED  BY <2>2
<1>7. Concat(<<s>>) = s /\ <<>> \o s = s
  BY <1>4, <1>5, ConcatOne, Empty
<1> QED  BY <1>1, <1>2, <1>5, <1>6, <1>7

LEMMA OnlyOne ==
  ASSUME NEW s, IsSeq(s), s # <<>>, Len(s) <= 1, NEW t, t = s[1]
  PROVE  Len(s) = 1 /\ 1 \in DOMAIN s /\ s = <<t>>
<1>1. Len(s) \in Nat /\ DOMAIN s = 1..Len(s)
  BY SeqIs
<1>2. Len(s) # 0
  BY Empty
<1>3. Len(s) = 1
  BY <1>1, <1>2
<1>4. PICK u : u = <<t>>
  OBVIOUS
<1>5. IsSeq(u) /\ Len(u) = 1 /\ u[1] = t
  BY <1>4, One
<1>6. \A i \in 1..Len(s) : s[i] = u[i]
  BY <1>3, <1>5
<1>7. s = u
  BY <1>3, <1>5, <1>6, Alike
<1> QED  BY <1>1, <1>3, <1>4, <1>7

LEMMA PictureSaid ==
  ASSUME NEW from \in Dialect, NEW to \in Dialect, "images" \in {from, to}, from # to,
         NEW d, Worded(from, d), d.turns # <<>>, NEW context,
         NEW sent, sent = translate_image_request(from, to, context, d), sent # Bad
  PROVE  /\ TurnsGood(to, sent.body.turns)
         /\ (from = "gemini" => d.turns[1].role = "user") =>
              Speech(to, sent.body) = Speech(from, d)
<1> DEFINE body == CASE from = "images" /\ to = "gemini" -> openai_image_to_gemini(d)
                     [] from = "gemini" /\ to = "images" ->
                          gemini_image_to_openai(context.target_model, d)
                     [] from = to ->
                          [d EXCEPT !.settings = Renamed(@, context.target_model)]
                     [] OTHER -> Bad
<1>1. body # Bad /\ \E m : sent = Sent(body, m, FALSE)
  BY Zenon DEF translate_image_request
<1>2. sent.body = body
  <2> HIDE DEF body
  <2> QED  BY <1>1 DEF Sent
<1>3. CASE from = "images" /\ to = "gemini"
  <2>1. body = openai_image_to_gemini(d)
    BY <1>3
  <2> HIDE DEF body
  <2>2. PICK t, u : /\ t = d.turns[1] /\ u = [role |-> "user", parts |-> t.parts]
    OBVIOUS
  <2>3. \E s : body = Request(<<>>, <<u>>, s)
    BY <1>1, <2>1, <2>2, Zenon DEF openai_image_to_gemini
  <2>4. body.system = <<>> /\ body.turns = <<u>>
    BY <2>3 DEF Request
  <2>5. /\ IsSeq(d.turns) /\ Len(d.turns) <= 1 /\ d.system = <<>>
        /\ \A i \in DOMAIN d.turns :
             /\ d.turns[i].role = "user" /\ PlainForm(d.turns[i].parts[1])
             /\ d.turns[i].parts = <<d.turns[i].parts[1]>> /\ d.turns[i].parts[1].is = "text"
    BY <1>3 DEF Worded, TurnForm
  <2>6. Len(d.turns) = 1 /\ 1 \in DOMAIN d.turns
    BY <2>5, OnlyOne
  <2>7. d.turns = <<t>>
    BY <2>2, <2>5, OnlyOne
  <2>8. /\ t.role = "user" /\ PlainForm(t.parts[1]) /\ t.parts = <<t.parts[1]>>
        /\ t.parts[1].is = "text"
    BY <2>2, <2>5, <2>6
  <2>9. PlainParts(t.parts)
    BY <2>8, SpokeOne
  <2>10. u.role = "user" /\ u.parts = t.parts
    BY <2>2
  <2>11. Speech("images", d) = Spoke("user", t.parts)
    BY <2>5, <2>7, <2>8, <2>9, OnePrompt
  <2>12. Speech("gemini", body) = Spoke("user", t.parts)
    BY <2>4, <2>9, <2>10, OnePrompt
  <2>13. TurnsGood("gemini", body.turns)
    <3>1. DOMAIN <<u>> = {1} /\ <<u>>[1] = u
      OBVIOUS
    <3>2. PICK p : p = t.parts[1]
      OBVIOUS
    <3>3. DOMAIN <<p>> = {1} /\ <<p>>[1] = p /\ <<p>> # <<>>
      OBVIOUS
    <3>4. u.parts = <<p>> /\ p.is = "text"
      BY <2>8, <2>10, <3>2
    <3> QED  BY <2>4, <3>1, <3>3, <3>4 DEF TurnsGood
  <2> QED  BY <1>2, <1>3, <2>11, <2>12, <2>13
<1>4. CASE from = "gemini" /\ to = "images"
  <2>1. body = gemini_image_to_openai(context.target_model, d)
    BY <1>4
  <2> HIDE DEF body
  <2>2. PICK t, u : /\ t = d.turns[1] /\ u = [role |-> "user", parts |-> t.parts]
    OBVIOUS
  <2>3. /\ \E s : body = Request(<<>>, <<u>>, s)
        /\ d.system = <<>> /\ Len(d.turns) = 1
    BY <1>1, <2>1, <2>2, Zenon DEF gemini_image_to_openai
  <2>4. body.system = <<>> /\ body.turns = <<u>>
    BY <2>3 DEF Request
  <2>5. IsSeq(d.turns) /\ \A i \in DOMAIN d.turns : ContentForm(d.turns[i])
    BY <1>4 DEF Worded, TurnForm
  <2>6. 1 \in DOMAIN d.turns
    BY <2>3, <2>5, SeqIs
  <2>7. d.turns = <<t>>
    <3>1. d.turns # <<>> /\ Len(d.turns) <= 1
      BY <2>3
    <3> QED  BY <2>2, <2>5, <3>1, OnlyOne
  <2>8. PlainParts(t.parts)
    BY <2>2, <2>5, <2>6, PartsPlain DEF ContentForm
  <2>9. u.role = "user" /\ u.parts = t.parts
    BY <2>2
  <2>10. TurnsGood("images", body.turns)
    BY DEF TurnsGood
  <2>11. ASSUME t.role = "user"
         PROVE  Speech("images", body) = Speech("gemini", d)
    <3>1. Speech("images", body) = Spoke("user", t.parts)
      BY <2>4, <2>8, <2>9, OnePrompt
    <3>2. Speech("gemini", d) = Spoke("user", t.parts)
      BY <2>3, <2>7, <2>8, <2>11, OnePrompt
    <3> QED  BY <3>1, <3>2
  <2> QED  BY <1>2, <1>4, <2>2, <2>10, <2>11
<1>5. CASE ~(from = "images" /\ to = "gemini") /\ ~(from = "gemini" /\ to = "images")
  <2>1. body = Bad
    BY <1>5
  <2> QED  BY <1>1, <2>1
<1> QED  BY <1>3, <1>4, <1>5

-----------------------------------------------------------------------------
(* A text said in pieces is said as a whole.                               *)
Fragment(by, f) == [by |-> by, is |-> "text", text |-> f]

LEMMA TextsChained ==
  ASSUME NEW by, NEW s, IsSeq(s), NEW T, \A i \in 1..Len(s) : s[i] \in T,
         NEW g, g = [f \in T |-> <<Fragment(by, f)>>]
  PROVE  Texts(by, s) = Chained(s, g) /\ \A i \in 1..Len(s) : IsSeq(g[s[i]])
<1>1. \A i \in 1..Len(s) : g[s[i]] = <<Fragment(by, s[i])>> /\ IsSeq(g[s[i]])
  BY One
<1>2. /\ Lists(Chain(s, g)) /\ Len(Chain(s, g)) = Len(s)
      /\ \A i \in 1..Len(s) : Chain(s, g)[i] = g[s[i]]
  BY <1>1, ChainLists
<1>3. PICK n : n = Len(s) /\ n \in Nat /\ DOMAIN s = 1..n
  BY SeqIs
<1>4. PICK f : f = [k \in 0..n |-> [i \in 1..k |-> Fragment(by, s[i])]]
  OBVIOUS
<1>5. f[0] = <<>>
  BY <1>3, <1>4
<1>6. ASSUME NEW k \in 1..n PROVE f[k] = f[k - 1] \o Chain(s, g)[k]
  <2>1. PICK a, b, c : /\ a = f[k - 1] /\ b = f[k] /\ c = <<Fragment(by, s[k])>>
    OBVIOUS
  <2>2. /\ k \in Nat /\ k - 1 \in Nat /\ k - 1 \in 0..n /\ k \in 0..n
    BY <1>3
  <2>3. /\ a = [i \in 1..k - 1 |-> Fragment(by, s[i])] /\ b = [i \in 1..k |-> Fragment(by, s[i])]
    BY <1>4, <2>1, <2>2
  <2>4. /\ IsSeq(a) /\ Len(a) = k - 1 /\ IsSeq(b) /\ Len(b) = k
    BY <2>2, <2>3, Listing
  <2>5. IsSeq(c) /\ Len(c) = 1 /\ c[1] = Fragment(by, s[k])
    BY <2>1, One
  <2>6. \A i \in 1..Len(a) : b[i] = a[i]
    BY <2>2, <2>3, <2>4
  <2>7. \A i \in 1..Len(c) : b[Len(a) + i] = c[i]
    BY <2>2, <2>3, <2>4, <2>5
  <2>8. Len(b) = Len(a) + Len(c)
    BY <2>2, <2>4, <2>5
  <2>9. b = a \o c
    BY <2>4, <2>5, <2>6, <2>7, <2>8, Fits
  <2>10. Chain(s, g)[k] = c
    BY <1>1, <1>2, <1>3, <2>1
  <2> QED  BY <2>1, <2>9, <2>10
<1>7. Concat(Chain(s, g)) = f[n]
  <2>1. PICK ss : ss = Chain(s, g)
    OBVIOUS
  <2>2. Lists(ss) /\ Len(ss) = n /\ \A k \in 1..Len(ss) : f[k] = f[k - 1] \o ss[k]
    BY <1>2, <1>3, <1>6, <2>1
  <2>3. Concat(ss) = f[Len(ss)]
    BY <1>5, <2>2, ConcatIs
  <2> QED  BY <2>1, <2>2, <2>3
<1>8. Texts(by, s) = [i \in 1..n |-> Fragment(by, s[i])]
  BY <1>3 DEF Texts, Each, Fragment
<1>9. f[n] = [i \in 1..n |-> Fragment(by, s[i])]
  BY <1>3, <1>4
<1> QED  BY <1>1, <1>7, <1>8, <1>9 DEF Chained

LEMMA TextsGathered ==
  ASSUME NEW by, NEW ss, Lists(ss)
  PROVE  Texts(by, Concat(ss)) = Concat([i \in DOMAIN ss |-> Texts(by, ss[i])])
<1>1. PICK T : T = UNION {{ss[i][j] : j \in 1..Len(ss[i])} : i \in 1..Len(ss)}
  OBVIOUS
<1>2. \A i \in 1..Len(ss) : \A j \in 1..Len(ss[i]) : ss[i][j] \in T
  BY <1>1
<1>3. PICK g : g = [f \in T |-> <<Fragment(by, f)>>]
  OBVIOUS
<1>4. /\ IsSeq(Concat(ss)) /\ \A j \in 1..Len(Concat(ss)) : Concat(ss)[j] \in T
  BY <1>2, ConcatSeq, Gathered
<1>5. Texts(by, Concat(ss)) = Chained(Concat(ss), g)
  BY <1>3, <1>4, TextsChained
<1>6. \A i \in 1..Len(ss) : \A j \in 1..Len(ss[i]) : IsSeq(g[ss[i][j]])
  BY <1>2, <1>3, One
<1>7. Chained(Concat(ss), g) = Concat([i \in DOMAIN ss |-> Chained(ss[i], g)])
  BY <1>6, ChainConcat
<1>8. DOMAIN ss = 1..Len(ss) /\ \A i \in 1..Len(ss) : IsSeq(ss[i])
  BY SeqIs DEF Lists
<1>9. \A i \in DOMAIN ss : Chained(ss[i], g) = Texts(by, ss[i])
  <2>1. ASSUME NEW i \in DOMAIN ss PROVE Chained(ss[i], g) = Texts(by, ss[i])
    <3>1. PICK s : s = ss[i] /\ IsSeq(s) /\ \A j \in 1..Len(s) : s[j] \in T
      BY <1>2, <1>8
    <3>2. Texts(by, s) = Chained(s, g)
      BY <1>3, <3>1, TextsChained
    <3> QED  BY <3>1, <3>2
  <2> QED  BY <2>1
<1>10. [i \in DOMAIN ss |-> Chained(ss[i], g)] = [i \in DOMAIN ss |-> Texts(by, ss[i])]
  BY <1>9
<1> QED  BY <1>5, <1>7, <1>10

LEMMA TextSpoken ==
  ASSUME NEW by, NEW texts, PlainParts(texts), \A i \in 1..Len(texts) : texts[i].is = "text"
  PROVE  /\ IsSeq(Concat(TextItems(texts)))
         /\ Texts(by, Concat(TextItems(texts))) = Spoke(by, texts)
<1>1. IsSeq(texts) /\ DOMAIN texts = 1..Len(texts)
      /\ \A i \in 1..Len(texts) : IsSeq(texts[i].text)
  BY SeqIs DEF PlainParts, PlainForm
<1>2. PICK ss : ss = TextItems(texts)
  OBVIOUS
<1>3. DOMAIN ss = DOMAIN texts /\ ss = [i \in DOMAIN ss |-> ss[i]]
      /\ \A i \in DOMAIN texts : ss[i] = texts[i].text
  BY <1>2, SMT DEF TextItems, Each
<1>4. Lists(ss) /\ Len(ss) = Len(texts)
  BY <1>1, <1>3, EachLists
<1>5. Texts(by, Concat(ss)) = Concat([i \in DOMAIN ss |-> Texts(by, ss[i])])
  BY <1>4, TextsGathered
<1>6. Spoke(by, texts) = Concat(Uttered(by, texts))
  BY SpokeSeq
<1>7. Uttered(by, texts) = [i \in DOMAIN ss |-> Texts(by, ss[i])]
  <2>1. \A i \in 1..Len(texts) : Utterance(by, texts[i]) = Texts(by, ss[i])
    BY <1>1, <1>3 DEF Utterance
  <2> QED  BY <1>1, <1>3, <2>1, SMT DEF Uttered, Each
<1> QED  BY <1>2, <1>4, <1>5, <1>6, <1>7, ConcatSeq

-----------------------------------------------------------------------------
(* The assistant's message of a text and calls says the text and makes the *)
(* calls.                                                                  *)
AnswersWith(m, text, calls) ==
  ChatTurn(m) = Texts("assistant", text) \o Concat(Called(calls))
AssistantForm(m) ==
  /\ ChatForm(m) /\ Tidy(m) /\ m.name = "" /\ m.role = "assistant"
  /\ m.content.form = "parts" => m.content.parts = <<>>

LEMMA StrTexts ==
  ASSUME NEW by, NEW text, IsSeq(text), NEW h, h = Str(text)
  PROVE  Spoke(by, h.parts) = Texts(by, text)
<1>1. \E p : p.is = "text" /\ p.text = text /\ h.parts = <<p>>
  BY DEF Str
<1>2. PICK p : p.is = "text" /\ p.text = text /\ h.parts = <<p>>
  BY <1>1
<1>3. PlainForm(p) /\ Utterance(by, p) = Texts(by, text)
  BY <1>2 DEF PlainForm, Utterance
<1> QED  BY <1>2, <1>3, SpokeOne

LEMMA AssistantSays ==
  ASSUME NEW text, IsSeq(text), NEW calls, IsSeq(calls),
         NEW m, m = Assistant(text, calls)
  PROVE  AssistantForm(m) /\ m.calls = calls /\ AnswersWith(m, text, calls)
<1>1. PICK h : /\ h = IF calls # <<>> /\ text = <<>> THEN Absent ELSE Str(text)
               /\ Content(h) /\ PlainParts(h.parts) /\ h.form # "parts"
               /\ Spoke("assistant", h.parts) = Texts("assistant", text)
  <2>1. CASE calls # <<>> /\ text = <<>>
    <3>1. Spoke("assistant", Absent.parts) = <<>>
      BY AbsentSays, SpokeNone
    <3>2. Texts("assistant", text) = <<>>
      BY <2>1, SMT DEF Texts, Each
    <3>3. Absent.form # "parts"
      BY AbsentSays
    <3> QED  BY <2>1, <3>1, <3>2, <3>3, AbsentSays
  <2>2. CASE ~(calls # <<>> /\ text = <<>>)
    <3>1. Str(text).form # "parts"
      BY TextOfStr
    <3>2. PICK h : h = Str(text)
      OBVIOUS
    <3>3. Content(h) /\ PlainParts(h.parts)
      BY <3>2, TextOfStr
    <3>4. Spoke("assistant", h.parts) = Texts("assistant", text)
      BY <3>2, StrTexts
    <3> QED  BY <2>2, <3>1, <3>2, <3>3, <3>4
  <2> QED  BY <2>1, <2>2
<1>2. /\ m.role = "assistant" /\ m.content = h /\ m.calls = calls /\ m.name = "" /\ m.id = ""
      /\ m = Message(m.role, m.content, m.calls, m.id, m.name)
  <2>1. PICK l : l = Message("assistant", h, calls, "", "")
    OBVIOUS
  <2>2. l.role = "assistant" /\ l.content = h /\ l.calls = calls /\ l.name = "" /\ l.id = ""
    BY <2>1 DEF Message
  <2>3. m = l
    BY <1>1, <2>1 DEF Assistant
  <2> QED  BY <2>1, <2>2, <2>3
<1>3. ChatForm(m) /\ Tidy(m)
  BY <1>1, <1>2 DEF ChatForm, Tidy
<1>4. SpeakerOf(m) = "assistant"
  <2>1. Speaker("assistant") = "assistant"
    BY DEF Speaker
  <2>2. m.name = "" /\ m.role = "assistant"
    BY <1>2
  <2> QED  BY <2>1, <2>2, Unlabelled
<1>5. ChatTurn(m) = Spoke("assistant", h.parts) \o Concat(Called(calls))
  BY <1>2, <1>3, <1>4, ChatTurnSays
<1> QED  BY <1>1, <1>2, <1>3, <1>5 DEF AssistantForm, AnswersWith

(* Calls are the dealings of an answer, if there are any.                  *)
LEMMA CallsCounted ==
  ASSUME NEW text, IsSeq(text), NEW calls, IsSeq(calls),
         NEW m, AnswersWith(m, text, calls)
  PROVE  calls # <<>> <=> Len(Traffic(ChatTurn(m))) > 0
<1>1. PICK a, b : /\ a = Texts("assistant", text) /\ b = Concat(Called(calls))
                  /\ IsSeq(a) /\ IsSeq(b)
  BY TextsSeq, CalledLists
<1>2. Traffic(ChatTurn(m)) = Kind(a \o b, Dealing)
  BY <1>1, ProseIs DEF AnswersWith
<1>3. Kind(a, Dealing) = <<>>
  <2>1. DOMAIN a = DOMAIN text /\ \A i \in DOMAIN text : a[i].is = "text"
    BY <1>1 DEF Texts, Each
  <2>2. \A i \in 1..Len(a) : a[i].is \notin Dealing
    BY <1>1, <2>1, SeqIs DEF Dealing
  <2> QED  BY <1>1, <2>2, KindBlank
<1>4. Kind(a \o b, Dealing) = Kind(b, Dealing) /\ IsSeq(Kind(b, Dealing))
  <2>1. Kind(a \o b, Dealing) = Kind(a, Dealing) \o Kind(b, Dealing)
    BY <1>1, KindJoin
  <2>2. IsSeq(Kind(b, Dealing))
    BY <1>1, KindJoin
  <2>3. <<>> \o Kind(b, Dealing) = Kind(b, Dealing)
    BY <2>2, Empty
  <2> QED  BY <1>3, <2>1, <2>2, <2>3
<1>5. CASE calls = <<>>
  <2>1. b = <<>>
    BY <1>1, <1>5, CalledNone
  <2>2. Kind(b, Dealing) = <<>>
    BY <2>1, KindNone
  <2>3. Len(<<>>) = 0
    BY Empty
  <2> QED  BY <1>2, <1>4, <1>5, <2>2, <2>3
<1>6. CASE calls # <<>>
  <2>1. PICK f, c : /\ f = Front(calls) /\ c = Last(calls) /\ IsSeq(f) /\ calls = f \o <<c>>
    BY <1>6, ButLast
  <2>2. PICK x, y : /\ x = Concat(Called(f)) /\ y = Concat(Called(<<c>>)) /\ IsSeq(x) /\ IsSeq(y)
    BY <2>1, One, CalledLists
  <2>3. b = x \o y
    BY <1>1, <2>1, <2>2, One, CalledJoin
  <2>4. PICK u : y = <<u>> /\ u.is = "call"
    <3>1. PICK u : u = [by |-> "assistant", is |-> "call", id |-> c.id, name |-> c.name,
                        args |-> c.args]
      OBVIOUS
    <3>2. u.is = "call" /\ Calls(c) = <<u>>
      BY <3>1 DEF Calls
    <3> QED  BY <2>2, <3>2, CalledOne
  <2>5. Kind(y, Dealing) = y
    <3>1. u.is \in Dealing
      BY <2>4 DEF Dealing
    <3> QED  BY <2>4, <3>1, KindOne
  <2>6. Kind(b, Dealing) = Kind(x, Dealing) \o y /\ IsSeq(Kind(x, Dealing))
    <3>1. Kind(x \o y, Dealing) = Kind(x, Dealing) \o Kind(y, Dealing)
      BY <2>2, KindJoin
    <3>2. IsSeq(Kind(x, Dealing))
      BY <2>2, KindJoin
    <3> QED  BY <2>3, <2>5, <3>1, <3>2
  <2>7. PICK z : z = Kind(x, Dealing) /\ IsSeq(z)
    BY <2>6
  <2>8. Len(z \o y) = Len(z) + Len(y) /\ Len(y) = 1 /\ Len(z) \in Nat
    BY <2>2, <2>4, <2>7, Joined, One, SeqIs
  <2> QED  BY <1>2, <1>4, <1>6, <2>6, <2>7, <2>8
<1> QED  BY <1>5, <1>6

-----------------------------------------------------------------------------
(* An answer of Anthropic, read as one of Chat: its texts, then its calls. *)
LEMMA BlocksSorted ==
  ASSUME NEW by, NEW parts, PlainParts(parts),
         \A i \in DOMAIN parts : parts[i].is \in {"text", "tool_use"},
         NEW K, K = Where(parts, {"text"}), NEW U, U = Where(parts, {"tool_use"}),
         NEW told, told = Spoke(by, Picked(parts, K)) \o Spoke(by, Picked(parts, U))
  PROVE  Rearranged(told, Spoke(by, parts))
<1>1. IsSeq(parts) /\ DOMAIN parts = 1..Len(parts) /\ Len(parts) \in Nat
  BY SeqIs DEF PlainParts
<1>2. PICK ss : /\ ss = Uttered(by, parts) /\ Lists(ss) /\ Len(ss) = Len(parts)
                /\ Spoke(by, parts) = Concat(ss)
                /\ \A i \in 1..Len(parts) : ss[i] = Utterance(by, parts[i])
  BY UtteredLists, SpokeSeq
<1>3. U = 1..Len(ss) \ K
  BY <1>1, <1>2 DEF Where
<1>4. told = Concat(Masked(ss, K)) \o Concat(Masked(ss, 1..Len(ss) \ K))
  <2>1. /\ Spoke(by, Picked(parts, K)) = Concat(Masked(ss, K))
        /\ Spoke(by, Picked(parts, U)) = Concat(Masked(ss, U))
    BY <1>2, SpokePicked
  <2> QED  BY <1>3, <2>1
<1>5. \A i \in K \cap 1..Len(ss) : Kind(ss[i], Dealing) = <<>>
  <2>1. ASSUME NEW i \in K \cap 1..Len(ss) PROVE Kind(ss[i], Dealing) = <<>>
    <3>1. PICK p : p = parts[i] /\ p.is = "text" /\ PlainForm(p) /\ ss[i] = Utterance(by, p)
      BY <1>1, <1>2, <2>1 DEF Where, PlainParts
    <3> QED  BY <3>1, TextKind
  <2> QED  BY <2>1
<1>6. \A i \in 1..Len(ss) \ K : Kind(ss[i], Telling) = <<>>
  <2>1. ASSUME NEW i \in 1..Len(ss) \ K PROVE Kind(ss[i], Telling) = <<>>
    <3>1. PICK p : p = parts[i] /\ p.is = "tool_use" /\ ss[i] = Utterance(by, p)
      BY <1>1, <1>2, <2>1 DEF Where
    <3> QED  BY <3>1, DealtKind
  <2> QED  BY <2>1
<1> QED  BY <1>2, <1>4, <1>5, <1>6, Unmixed

LEMMA BlockPicks ==
  ASSUME NEW parts, NEW kind
  PROVE  With(parts, LAMBDA p : p.is = kind) = Picked(parts, Where(parts, {kind}))
<1>1. With(parts, LAMBDA p : p.is = kind)
        = Concat([i \in DOMAIN parts |-> IF parts[i].is = kind THEN <<parts[i]>> ELSE <<>>])
  BY Zenon DEF With, Each
<1>2. AtPlaces(parts, Where(parts, {kind}))
        = [i \in DOMAIN parts |-> IF parts[i].is = kind THEN <<parts[i]>> ELSE <<>>]
  BY DEF AtPlaces, Where
<1> QED  BY <1>1, <1>2 DEF Picked

HubAnswer(from, a, h) ==
  /\ ChatForm(h.message) /\ h.message.name = ""
  /\ Rearranged(ChatTurn(h.message), AnswerSpeech(from, a))

LEMMA AnthropicAnswered ==
  ASSUME NEW a, PartsForm(a.content), NEW h, h = anthropic_response_to_chat(a), h # Bad
  PROVE  AssistantForm(h.message) /\ HubAnswer("anthropic", a, h)
<1>1. PICK parts : parts = a.content /\ PlainParts(parts)
  BY PartsPlain
<1>2. PICK K, U, texts, uu :
        /\ K = Where(parts, {"text"}) /\ U = Where(parts, {"tool_use"})
        /\ texts = Picked(parts, K) /\ uu = Picked(parts, U)
  OBVIOUS
<1>3. /\ With(parts, LAMBDA p : p.is = "text") = texts
      /\ With(parts, LAMBDA p : p.is = "tool_use") = uu
  BY <1>2, BlockPicks
<1>4. PICK text, calls : /\ text = Concat(TextItems(texts))
                         /\ calls = Each(convert_anthropic_tool_use, uu)
  OBVIOUS
<1>5. /\ \A i \in DOMAIN parts : parts[i].is \in {"text", "tool_use"}
      /\ ~AnyBad(calls)
      /\ h = Answer(Assistant(text, calls), anthropic_finish_to_chat(a.stop_reason),
                    CountsOf("anthropic", a.usage), FALSE)
  BY <1>1, <1>3, <1>4, Zenon DEF anthropic_response_to_chat, TextItems
<1>6. PlainParts(texts) /\ PlainParts(uu)
  BY <1>1, <1>2, PickedPlain
<1>7. IsSeq(parts) /\ DOMAIN parts = 1..Len(parts) /\ Len(parts) \in Nat
  BY <1>1, SeqIs DEF PlainParts
<1>8. \A i \in 1..Len(uu) : uu[i].is = "tool_use"
  BY <1>2, <1>7, PickedFrom DEF Where
<1>9. \A i \in 1..Len(texts) : texts[i].is = "text"
  BY <1>2, <1>7, PickedFrom DEF Where
<1>10. IsSeq(calls) /\ Concat(Called(calls)) = Spoke("assistant", uu)
  BY <1>4, <1>5, <1>6, <1>8, UsesCalled
<1>11. IsSeq(text) /\ Texts("assistant", text) = Spoke("assistant", texts)
  BY <1>4, <1>6, <1>9, TextSpoken
<1>12. PICK m : m = Assistant(text, calls)
  OBVIOUS
<1>13. AssistantForm(m) /\ AnswersWith(m, text, calls)
  BY <1>10, <1>11, <1>12, AssistantSays
<1>14. h.message = m
  BY <1>5, <1>12 DEF Answer
<1>15. ChatTurn(m) = Spoke("assistant", texts) \o Spoke("assistant", uu)
  BY <1>10, <1>11, <1>13 DEF AnswersWith
<1>16. AnswerSpeech("anthropic", a) = Spoke("assistant", parts)
  BY <1>1 DEF AnswerSpeech
<1>17. Rearranged(ChatTurn(m), Spoke("assistant", parts))
  BY <1>1, <1>2, <1>5, <1>15, BlocksSorted
<1> QED  BY <1>13, <1>14, <1>16, <1>17 DEF HubAnswer, AssistantForm

-----------------------------------------------------------------------------
(* An answer of Responses, read as one of Chat.                            *)
LEMMA TextsKind ==
  ASSUME NEW by, NEW text, IsSeq(text)
  PROVE  Kind(Texts(by, text), Dealing) = <<>>
<1>1. PICK a : a = Texts(by, text) /\ IsSeq(a)
  BY TextsSeq
<1>2. DOMAIN a = DOMAIN text /\ \A i \in DOMAIN text : a[i].is = "text"
  BY <1>1 DEF Texts, Each
<1>3. \A i \in 1..Len(a) : a[i].is \notin Dealing
  BY <1>1, <1>2, SeqIs DEF Dealing
<1> QED  BY <1>1, <1>3, KindBlank

LEMMA CallsKind ==
  ASSUME NEW c
  PROVE  Kind(Calls(c), Telling) = <<>>
<1>1. PICK u : u = [by |-> "assistant", is |-> "call", id |-> c.id, name |-> c.name,
                    args |-> c.args]
  OBVIOUS
<1>2. u.is \notin Telling /\ Calls(c) = <<u>>
  BY <1>1 DEF Calls, Telling
<1> QED  BY <1>2, KindOne

Output(i) == IF i.is = "message" THEN Texts("assistant", i.text) ELSE Calls(i)
OutputForm(output) ==
  /\ IsSeq(output)
  /\ \A i \in 1..Len(output) :
       /\ output[i].is \in {"message", "function_call"}
       /\ output[i].is = "message" => IsSeq(output[i].text)

LEMMA OutputSeq ==
  ASSUME NEW i, i.is = "message" => IsSeq(i.text)
  PROVE  IsSeq(Output(i))
<1>1. CASE i.is = "message"
  BY <1>1, TextsSeq DEF Output
<1>2. CASE i.is # "message"
  BY <1>2, CalledOne DEF Output
<1> QED  BY <1>1, <1>2

LEMMA OutputSorted ==
  ASSUME NEW output, OutputForm(output), NEW T, \A i \in 1..Len(output) : output[i] \in T,
         NEW g, g = [i \in T |-> Output(i)],
         NEW M, M = Where(output, {"message"}), NEW C, C = Where(output, {"function_call"}),
         NEW told, told = Chained(Picked(output, M), g) \o Chained(Picked(output, C), g)
  PROVE  Rearranged(told, Chained(output, g))
<1>1. IsSeq(output) /\ DOMAIN output = 1..Len(output) /\ Len(output) \in Nat
  BY SeqIs DEF OutputForm
<1>2. \A i \in 1..Len(output) : g[output[i]] = Output(output[i]) /\ IsSeq(g[output[i]])
  BY OutputSeq DEF OutputForm
<1>3. PICK ss : /\ ss = Chain(output, g) /\ Lists(ss) /\ Len(ss) = Len(output)
                /\ Chained(output, g) = Concat(ss)
                /\ \A i \in 1..Len(output) : ss[i] = Output(output[i])
  <2>1. \A i \in 1..Len(output) : IsSeq(g[output[i]])
    BY <1>2
  <2>2. /\ Lists(Chain(output, g)) /\ Len(Chain(output, g)) = Len(output)
        /\ \A i \in 1..Len(output) : Chain(output, g)[i] = g[output[i]]
    BY <1>1, <2>1, ChainLists
  <2> QED  BY <1>2, <2>2 DEF Chained
<1>4. C = 1..Len(ss) \ M
  BY <1>1, <1>3 DEF Where, OutputForm
<1>5. told = Concat(Masked(ss, M)) \o Concat(Masked(ss, 1..Len(ss) \ M))
  <2>1. \A i \in 1..Len(output) : IsSeq(g[output[i]])
    BY <1>2
  <2>2. Chained(Picked(output, M), g) = Concat(Masked(ss, M))
    BY <1>1, <1>3, <2>1, PickedChain
  <2>3. Chained(Picked(output, C), g) = Concat(Masked(ss, C))
    BY <1>1, <1>3, <2>1, PickedChain
  <2> QED  BY <1>4, <2>2, <2>3
<1>6. \A i \in M \cap 1..Len(ss) : Kind(ss[i], Dealing) = <<>>
  <2>1. ASSUME NEW i \in M \cap 1..Len(ss) PROVE Kind(ss[i], Dealing) = <<>>
    <3>1. PICK t : t = output[i].text /\ IsSeq(t) /\ ss[i] = Texts("assistant", t)
      BY <1>1, <1>3, <2>1 DEF Where, OutputForm, Output
    <3> QED  BY <3>1, TextsKind
  <2> QED  BY <2>1
<1>7. \A i \in 1..Len(ss) \ M : Kind(ss[i], Telling) = <<>>
  <2>1. ASSUME NEW i \in 1..Len(ss) \ M PROVE Kind(ss[i], Telling) = <<>>
    <3>1. ss[i] = Calls(output[i])
      BY <1>1, <1>3, <2>1 DEF Where, OutputForm, Output
    <3> QED  BY <3>1, CallsKind
  <2> QED  BY <2>1
<1> QED  BY <1>3, <1>5, <1>6, <1>7, Unmixed

(* The texts of messages said together, and the calls of calls.            *)
LEMMA MessagesSaid ==
  ASSUME NEW mm, IsSeq(mm), \A i \in 1..Len(mm) : mm[i].is = "message" /\ IsSeq(mm[i].text),
         NEW T, \A i \in 1..Len(mm) : mm[i] \in T, NEW g, g = [i \in T |-> Output(i)],
         NEW text, text = Concat(TextItems(mm))
  PROVE  IsSeq(text) /\ Texts("assistant", text) = Chained(mm, g)
<1>1. PICK ss : ss = TextItems(mm)
  OBVIOUS
<1>2. DOMAIN ss = DOMAIN mm /\ ss = [i \in DOMAIN ss |-> ss[i]]
      /\ \A i \in DOMAIN mm : ss[i] = mm[i].text
  BY <1>1, SMT DEF TextItems, Each
<1>3. DOMAIN mm = 1..Len(mm)
  BY SeqIs
<1>4. Lists(ss) /\ Len(ss) = Len(mm)
  BY <1>2, <1>3, EachLists
<1>5. Texts("assistant", Concat(ss)) = Concat([i \in DOMAIN ss |-> Texts("assistant", ss[i])])
  BY <1>4, TextsGathered
<1>6. Chain(mm, g) = [i \in DOMAIN ss |-> Texts("assistant", ss[i])]
  <2>1. \A i \in DOMAIN mm : g[mm[i]] = Texts("assistant", ss[i])
    BY <1>2, <1>3 DEF Output
  <2> QED  BY <1>2, <2>1 DEF Chain
<1> QED  BY <1>1, <1>4, <1>5, <1>6, ConcatSeq DEF Chained

ItemCalls(items) == Each(LAMBDA i : Call(i.id, i.name, i.args), items)
LEMMA ItemsCalled ==
  ASSUME NEW cc, IsSeq(cc), \A i \in 1..Len(cc) : cc[i].is = "function_call",
         NEW T, \A i \in 1..Len(cc) : cc[i] \in T, NEW g, g = [i \in T |-> Output(i)],
         NEW calls, calls = ItemCalls(cc)
  PROVE  IsSeq(calls) /\ Concat(Called(calls)) = Chained(cc, g)
<1>1. DOMAIN cc = 1..Len(cc)
  BY SeqIs
<1>2. DOMAIN calls = DOMAIN cc /\ calls = [i \in DOMAIN calls |-> calls[i]]
      /\ \A i \in DOMAIN cc : calls[i] = Call(cc[i].id, cc[i].name, cc[i].args)
  BY SMT DEF ItemCalls, Each
<1>3. IsSeq(calls) /\ Len(calls) = Len(cc)
  BY <1>1, <1>2, Imaged
<1>4. Called(calls) = Chain(cc, g)
  <2>1. \A i \in DOMAIN cc : g[cc[i]] = Calls(calls[i])
    <3>1. ASSUME NEW i \in DOMAIN cc PROVE g[cc[i]] = Calls(calls[i])
      <4>1. g[cc[i]] = Calls(cc[i])
        BY <1>1, <3>1 DEF Output
      <4>2. PICK c : c = Call(cc[i].id, cc[i].name, cc[i].args)
        OBVIOUS
      <4>3. c.id = cc[i].id /\ c.name = cc[i].name /\ c.args = cc[i].args
        BY <4>2 DEF Call
      <4>4. Calls(c) = Calls(cc[i])
        BY <4>3 DEF Calls
      <4> QED  BY <1>2, <3>1, <4>1, <4>2, <4>4
    <3> QED  BY <3>1
  <2>2. Called(calls) = [i \in DOMAIN cc |-> Calls(calls[i])]
    BY <1>2 DEF Called, Each
  <2> QED  BY <2>1, <2>2 DEF Chain
<1> QED  BY <1>3, <1>4 DEF Chained

LEMMA OutputSaid ==
  ASSUME NEW output, IsSeq(output), NEW a, a.output = output,
         NEW T, \A i \in 1..Len(output) : output[i] \in T,
         NEW g, g = [i \in T |-> Output(i)]
  PROVE  AnswerSpeech("responses", a) = Chained(output, g)
<1>1. DOMAIN output = 1..Len(output)
  BY SeqIs
<1>2. AnswerSpeech("responses", a) = Concat([i \in DOMAIN output |-> Output(output[i])])
  BY Zenon DEF AnswerSpeech, Each, Output
<1>3. Chain(output, g) = [i \in DOMAIN output |-> Output(output[i])]
  BY <1>1 DEF Chain
<1> QED  BY <1>2, <1>3 DEF Chained

LEMMA ResponsesAnswered ==
  ASSUME NEW a, Answered("responses", a), NEW h, h = responses_response_to_chat(a), h # Bad
  PROVE  /\ AssistantForm(h.message) /\ HubAnswer("responses", a, h)
         /\ h.finish = responses_finish_to_chat(a.status, h.message.calls # <<>>)
         /\ h.finish # "bad"
         /\ (h.message.calls # <<>>) = CallsMade("responses", a)
<1>1. PICK output : output = a.output /\ IsSeq(output)
  BY DEF Answered
<1>2. PICK M, C, mm, cc :
        /\ M = Where(output, {"message"}) /\ C = Where(output, {"function_call"})
        /\ mm = Picked(output, M) /\ cc = Picked(output, C)
  OBVIOUS
<1>3. /\ With(output, LAMBDA i : i.is = "message") = mm
      /\ With(output, LAMBDA i : i.is = "function_call") = cc
  BY <1>2, BlockPicks
<1>4. PICK text, calls : text = Concat(TextItems(mm)) /\ calls = ItemCalls(cc)
  OBVIOUS
<1>5. /\ \A i \in DOMAIN output : output[i].is \in {"message", "function_call"}
      /\ responses_finish_to_chat(a.status, calls # <<>>) # "bad"
      /\ h = Answer(Assistant(text, calls), responses_finish_to_chat(a.status, calls # <<>>),
                    CountsOf("responses", a.usage), FALSE)
  BY <1>1, <1>3, <1>4, Zenon DEF responses_response_to_chat, TextItems, ItemCalls
<1>6. OutputForm(output) /\ DOMAIN output = 1..Len(output)
  BY <1>1, <1>5, SeqIs DEF OutputForm, Answered
<1>7. PICK T : T = {output[i] : i \in 1..Len(output)}
  OBVIOUS
<1>8. PICK g : g = [i \in T |-> Output(i)]
  OBVIOUS
<1>9. /\ IsSeq(mm) /\ IsSeq(cc)
      /\ \A i \in 1..Len(mm) : mm[i] \in T /\ mm[i].is = "message" /\ IsSeq(mm[i].text)
      /\ \A i \in 1..Len(cc) : cc[i] \in T /\ cc[i].is = "function_call"
  <2>1. IsSeq(mm) /\ \A j \in 1..Len(mm) : \E i \in M \cap 1..Len(output) : mm[j] = output[i]
    BY <1>1, <1>2, PickedFrom
  <2>2. IsSeq(cc) /\ \A j \in 1..Len(cc) : \E i \in C \cap 1..Len(output) : cc[j] = output[i]
    BY <1>1, <1>2, PickedFrom
  <2>3. \A i \in M : output[i].is = "message" /\ i \in 1..Len(output)
    BY <1>2, <1>6 DEF Where
  <2>4. \A i \in C : output[i].is = "function_call" /\ i \in 1..Len(output)
    BY <1>2, <1>6 DEF Where
  <2>5. \A i \in 1..Len(output) : output[i] \in T
    BY <1>7
  <2>6. \A i \in M : IsSeq(output[i].text)
    BY <1>6, <2>3 DEF OutputForm
  <2>7. ASSUME NEW j \in 1..Len(mm) PROVE mm[j] \in T /\ mm[j].is = "message" /\ IsSeq(mm[j].text)
    BY <2>1, <2>3, <2>5, <2>6
  <2>8. ASSUME NEW j \in 1..Len(cc) PROVE cc[j] \in T /\ cc[j].is = "function_call"
    BY <2>2, <2>4, <2>5
  <2> QED  BY <2>1, <2>2, <2>7, <2>8
<1>10. IsSeq(text) /\ Texts("assistant", text) = Chained(mm, g)
  BY <1>4, <1>8, <1>9, MessagesSaid
<1>11. IsSeq(calls) /\ Concat(Called(calls)) = Chained(cc, g)
  BY <1>4, <1>8, <1>9, ItemsCalled
<1>12. PICK m : m = Assistant(text, calls)
  OBVIOUS
<1>13. AssistantForm(m) /\ m.calls = calls /\ AnswersWith(m, text, calls)
  BY <1>10, <1>11, <1>12, AssistantSays
<1>14. h.message = m /\ h.finish = responses_finish_to_chat(a.status, calls # <<>>)
  BY <1>5, <1>12 DEF Answer
<1>15. PICK told : told = Chained(Picked(output, M), g) \o Chained(Picked(output, C), g)
  OBVIOUS
<1>16. ChatTurn(m) = told
  BY <1>2, <1>10, <1>11, <1>13, <1>15 DEF AnswersWith
<1>17. \A i \in 1..Len(output) : output[i] \in T
  BY <1>7
<1>18. Rearranged(told, Chained(output, g))
  BY <1>2, <1>6, <1>8, <1>15, <1>17, OutputSorted
<1>19. AnswerSpeech("responses", a) = Chained(output, g)
  BY <1>1, <1>8, <1>17, OutputSaid
<1>20. HubAnswer("responses", a, h)
  BY <1>13, <1>14, <1>16, <1>18, <1>19 DEF HubAnswer, AssistantForm
<1>21. (calls # <<>>) = CallsMade("responses", a)
  <2>1. calls # <<>> <=> Len(Traffic(ChatTurn(m))) > 0
    BY <1>10, <1>11, <1>13, CallsCounted
  <2>2. Traffic(ChatTurn(m)) = Traffic(AnswerSpeech("responses", a))
    BY <1>14, <1>20 DEF HubAnswer, Rearranged
  <2> QED  BY <2>1, <2>2 DEF CallsMade
<1> QED  BY <1>5, <1>13, <1>14, <1>20, <1>21

-----------------------------------------------------------------------------
(* An answer of Gemini, read as one of Chat: it has no results, so that it *)
(* is one message.                                                         *)
OneText(parts) ==
  LET said == With(parts, LAMBDA p : p.is # "functionCall")
  IN ~(Len(said) > 1 \/ \E i \in DOMAIN said : said[i].is # "text")

LEMMA PickedEmpty ==
  ASSUME NEW s, IsSeq(s)
  PROVE  Picked(s, {}) = <<>>
<1>1. PICK p : p = Picked(s, {}) /\ IsSeq(p) /\ \A j \in 1..Len(p) : FALSE
  BY PickedFrom
<1>2. Len(p) = 0
  <2>1. Len(p) \in Nat
    BY <1>1, SeqIs
  <2> QED  BY <1>1, <2>1
<1> QED  BY <1>1, <1>2, Empty

AnswerTurn(m, t, said, calls) ==
  /\ m = Message("assistant", collapse_text_parts(said), calls, "", "")
  /\ gemini_content_to_chat(t) = <<m>> /\ ~AnyBad(said)

LEMMA GeminiAlone ==
  ASSUME NEW t, ContentForm(t), t.role = "model",
         NEW C, C = Where(t.parts, {"functionCall"}), NEW S, S = DOMAIN t.parts \ C,
         NEW ms, ms = gemini_content_to_chat(t), ms # <<>>, ~AnyBad(ms),
         NEW said, said = Each(gemini_part_to_chat, Picked(t.parts, S)),
         NEW calls, calls = Each(LAMBDA p : Call(p.id, p.name, p.args), Picked(t.parts, C))
  PROVE  \E m : AnswerTurn(m, t, said, calls)
<1>1. PICK parts : parts = t.parts /\ PlainParts(parts) /\ IsSeq(parts) /\ DOMAIN parts = 1..Len(parts)
  BY PartsPlain, SeqIs DEF ContentForm, PlainParts
<1>2. PICK R : R = Where(t.parts, {"functionResponse"})
  OBVIOUS
<1>3. R = {}
  BY <1>2 DEF ContentForm, Where
<1>4. S = DOMAIN t.parts \ (R \cup C)
  BY <1>3
<1>5. PICK results : results = Each(LAMBDA p : Result(p.id, p.name, Str(Json(p.response))),
                                    Picked(t.parts, R))
  OBVIOUS
<1>6. results = <<>>
  <2>1. Picked(t.parts, R) = <<>>
    BY <1>1, <1>3, PickedEmpty
  <2> QED  BY <1>5, <2>1, SMT DEF Each
<1>7. ms = GeminiHub(t, said, calls, results)
  BY <1>2, <1>4, <1>5, GeminiContent
<1>8. GoodContent(t, said)
  <2>1. CASE ~GoodContent(t, said)
    BY <1>7, <2>1, BadAlone DEF GeminiHub
  <2> QED  BY <2>1
<1>9. ~(said = <<>> /\ calls = <<>>)
  BY <1>6, <1>7, <1>8 DEF GeminiHub
<1>10. PICK m : m = Message(HubRole(t.role), collapse_text_parts(said), calls, "", "")
  OBVIOUS
<1>11. ms = Append(results, m)
  BY <1>7, <1>8, <1>9, <1>10 DEF GeminiHub
<1>12. ms = <<m>>
  <2>1. Append(<<>>, m) = <<>> \o <<m>>
    BY Empty, Appended
  <2>2. <<>> \o <<m>> = <<m>>
    BY One, Empty
  <2> QED  BY <1>6, <1>11, <2>1, <2>2
<1>13. HubRole(t.role) = "assistant"
  BY DEF HubRole
<1> QED  BY <1>8, <1>10, <1>12, <1>13 DEF AnswerTurn, GoodContent

LEMMA PickedTexts ==
  ASSUME NEW s, IsSeq(s), NEW K, \A j \in 1..Len(Picked(s, K)) : Picked(s, K)[j].is = "text"
  PROVE  \A k \in K \cap 1..Len(s) : s[k].is = "text"
<1>1. ASSUME NEW k \in K \cap 1..Len(s) PROVE s[k].is = "text"
  <2>1. \E j \in 1..Len(Picked(s, K)) : Picked(s, K)[j] = s[k]
    BY PickedHas
  <2> QED  BY <2>1
<1> QED  BY <1>1

LEMMA OneTextCollapsed ==
  ASSUME NEW t, ContentForm(t), t.role = "model", OneText(t.parts),
         NEW C, C = Where(t.parts, {"functionCall"}), NEW S, S = DOMAIN t.parts \ C,
         NEW said, said = Each(gemini_part_to_chat, Picked(t.parts, S)),
         NEW h, h = collapse_text_parts(said)
  PROVE  (h.form = "parts" => h.parts = <<>>) /\ Typeless(t.parts)
<1>1. PICK parts : parts = t.parts /\ PlainParts(parts) /\ IsSeq(parts) /\ DOMAIN parts = 1..Len(parts)
  BY PartsPlain, SeqIs DEF ContentForm, PlainParts
<1>2. PICK ps : ps = Picked(parts, S) /\ IsSeq(ps)
  BY <1>1, PickedFrom
<1>3. With(parts, LAMBDA p : p.is # "functionCall") = ps
  <2>1. With(parts, LAMBDA p : p.is # "functionCall")
          = Concat([i \in DOMAIN parts |->
                     IF parts[i].is # "functionCall" THEN <<parts[i]>> ELSE <<>>])
    BY Zenon DEF With, Each
  <2>2. AtPlaces(parts, S)
          = [i \in DOMAIN parts |-> IF parts[i].is # "functionCall" THEN <<parts[i]>> ELSE <<>>]
    BY <1>1 DEF AtPlaces, Where
  <2> QED  BY <1>2, <2>1, <2>2 DEF Picked
<1>4. ~(Len(ps) > 1) /\ \A i \in DOMAIN ps : ps[i].is = "text"
  BY <1>1, <1>3 DEF OneText
<1>5. Len(ps) \in Nat /\ DOMAIN ps = 1..Len(ps)
  BY <1>2, SeqIs
<1>6. /\ IsSeq(said) /\ Len(said) = Len(ps)
      /\ \A i \in 1..Len(ps) : said[i] = gemini_part_to_chat(ps[i])
  <2>0. said = Each(gemini_part_to_chat, ps)
    BY <1>1, <1>2
  <2>1. DOMAIN said = DOMAIN ps /\ said = [i \in DOMAIN said |-> said[i]]
        /\ \A i \in DOMAIN ps : said[i] = gemini_part_to_chat(ps[i])
    BY <2>0, SMT DEF Each
  <2>2. IsSeq(said) /\ Len(said) = Len(ps)
    BY <1>2, <2>1, Imaged
  <2> QED  BY <1>5, <2>1, <2>2
<1>7. ASSUME Len(ps) = 0 PROVE h.form = "parts" => h.parts = <<>>
  <2>1. said = <<>>
    BY <1>6, <1>7, Empty
  <2>2. h = Parts(<<>>)
    BY <2>1, Empty DEF collapse_text_parts
  <2> QED  BY <2>2 DEF Parts
<1>8. ASSUME Len(ps) = 1 PROVE h.form = "parts" => h.parts = <<>>
  <2>1. ps[1].is = "text"
    BY <1>4, <1>5, <1>8
  <2>2. gemini_part_to_chat(ps[1]) = ps[1]
    BY <2>1 DEF gemini_part_to_chat
  <2>3. Len(said) = 1 /\ said[1].is = "text"
    <3>1. said[1] = gemini_part_to_chat(ps[1])
      <4>1. 1 \in 1..Len(ps)
        BY <1>8
      <4>2. \A i \in 1..Len(ps) : said[i] = gemini_part_to_chat(ps[i])
        BY <1>6
      <4> HIDE DEF gemini_part_to_chat
      <4> QED  BY <4>1, <4>2
    <3> QED  BY <1>6, <1>8, <2>1, <2>2, <3>1
  <2>4. h = Str(said[1].text)
    BY <2>3 DEF collapse_text_parts
  <2> QED  BY <2>4 DEF Str
<1>9. Typeless(parts)
  <2>0. \A k \in S \cap 1..Len(parts) : parts[k].is = "text"
    <3>1. IsSeq(parts)
      BY <1>1
    <3>2. \A j \in 1..Len(Picked(parts, S)) : Picked(parts, S)[j].is = "text"
      BY <1>2, <1>4, <1>5
    <3>3. \A s : \A K :
            IsSeq(s) /\ (\A j \in 1..Len(Picked(s, K)) : Picked(s, K)[j].is = "text")
              => \A k \in K \cap 1..Len(s) : s[k].is = "text"
      BY PickedTexts
    <3> QED  BY <3>1, <3>2, <3>3
  <2>1. ASSUME NEW i \in DOMAIN parts, parts[i].is = "fileData" PROVE FALSE
    <3>1. i \in S \cap 1..Len(parts)
      BY <1>1, <2>1 DEF Where
    <3> QED  BY <2>0, <2>1, <3>1
  <2> QED  BY <2>1 DEF Typeless
<1> QED  BY <1>1, <1>4, <1>5, <1>7, <1>8, <1>9

LEMMA GeminiAnswered ==
  ASSUME NEW a, Answered("gemini", a), NEW h, h = gemini_response_to_chat(a), h # Bad
  PROVE  /\ ChatForm(h.message) /\ Tidy(h.message)
         /\ h.message.name = "" /\ h.message.role = "assistant"
         /\ Typeless(a.content.parts) => HubAnswer("gemini", a, h)
         /\ OneText(a.content.parts) => AssistantForm(h.message) /\ Typeless(a.content.parts)
         /\ h.finish = gemini_finish_to_chat(a.finishReason) /\ h.finish # "bad"
<1>1. PICK t : t = a.content /\ t.role = "model" /\ ContentForm(t)
  BY DEF Answered
<1>2. PICK C, S : C = Where(t.parts, {"functionCall"}) /\ S = DOMAIN t.parts \ C
  OBVIOUS
<1>3. PICK said, calls, ms :
        /\ said = Each(gemini_part_to_chat, Picked(t.parts, S))
        /\ calls = Each(LAMBDA p : Call(p.id, p.name, p.args), Picked(t.parts, C))
        /\ ms = gemini_content_to_chat(t)
  OBVIOUS
<1>4. /\ ms # <<>> /\ ~AnyBad(ms) /\ gemini_finish_to_chat(a.finishReason) # "bad"
      /\ h = Answer(ms[Len(ms)], gemini_finish_to_chat(a.finishReason),
                    CountsOf("gemini", a.usage), FALSE)
  BY <1>1, <1>3, Zenon DEF gemini_response_to_chat
<1>5. PICK m : AnswerTurn(m, t, said, calls)
  BY <1>1, <1>2, <1>3, <1>4, GeminiAlone
<1>6. ms = <<m>>
  BY <1>3, <1>5 DEF AnswerTurn
<1>7. h.message = m /\ h.finish = gemini_finish_to_chat(a.finishReason)
  BY <1>4, <1>6, One DEF Answer
<1>8. PICK spoken : spoken = Spoke(Speaker(t.role), t.parts)
  OBVIOUS
<1>9. /\ Hub(ms) /\ AllTidy(ms)
      /\ Typeless(t.parts) => Loosely(ms, spoken)
  BY <1>1, <1>3, <1>8, GeminiContentTold
<1>10. ChatForm(m) /\ Tidy(m)
  <2>1. 1 \in 1..Len(ms) /\ ms[1] = m /\ IsSeq(ms)
    BY <1>6, One
  <2>2. m # Bad
    BY <1>4, <2>1, BadPart
  <2> QED  BY <1>9, <2>1, <2>2 DEF Hub, AllTidy
<1>11. PICK hc : hc = collapse_text_parts(said)
  OBVIOUS
<1>12. m.name = "" /\ m.role = "assistant" /\ m.content = hc
  <2>1. PICK l : l = Message("assistant", hc, calls, "", "")
    OBVIOUS
  <2>2. l.role = "assistant" /\ l.content = hc /\ l.name = ""
    BY <2>1 DEF Message
  <2>3. m = l
    BY <1>5, <1>11, <2>1 DEF AnswerTurn
  <2> QED  BY <2>2, <2>3
<1>13. ASSUME Typeless(t.parts) PROVE HubAnswer("gemini", a, h)
  <2>1. Rearranged(Concat(Told(ms)), spoken)
    BY <1>4, <1>9, <1>13 DEF Loosely
  <2>2. Concat(Told(ms)) = ChatTurn(m)
    BY <1>6, <1>10, ToldOne
  <2>3. AnswerSpeech("gemini", a) = Spoke("assistant", t.parts)
    BY <1>1 DEF AnswerSpeech
  <2>4. Speaker(t.role) = "assistant"
    BY <1>1 DEF Speaker
  <2> QED  BY <1>7, <1>8, <1>10, <1>12, <2>1, <2>2, <2>3, <2>4 DEF HubAnswer
<1>14. ASSUME OneText(t.parts) PROVE AssistantForm(m) /\ Typeless(t.parts)
  <2>1. (hc.form = "parts" => hc.parts = <<>>) /\ Typeless(t.parts)
    BY <1>1, <1>2, <1>3, <1>11, <1>14, OneTextCollapsed
  <2> QED  BY <1>10, <1>12, <2>1 DEF AssistantForm
<1> QED  BY <1>1, <1>4, <1>7, <1>10, <1>12, <1>13, <1>14

-----------------------------------------------------------------------------
(* The one text an answer of Chat has for the dialects of lists.           *)
ReplyForm(f, b) ==
  CASE f = "chat" -> ChatForm(b.message)
    [] f = "responses" -> /\ IsSeq(b.output)
                          /\ \A i \in 1..Len(b.output) :
                               /\ b.output[i].is # "function_call_output"
                               /\ b.output[i].is = "message" => IsSeq(b.output[i].text)
    [] f = "anthropic" -> PartsForm(b.content)
    [] f = "gemini" -> b.content.role = "model" /\ ContentForm(b.content)
    [] f = "images" -> IsSeq(b.data)

TextBlock(t) == [is |-> "text", text |-> t]

LEMMA SaidTextIs ==
  ASSUME NEW m, ChatForm(m), NEW s, s = SaidText(m)
  PROVE  \/ /\ s = <<>>
            /\ (m.content.form = "parts" => m.content.parts = <<>>)
                 => Spoke("assistant", m.content.parts) = <<>>
         \/ \E t : /\ s = <<t>> /\ IsSeq(t) /\ m.content.form # "parts"
                   /\ Spoke("assistant", m.content.parts) = Texts("assistant", t)
<1>1. PICK c : c = m.content /\ Content(c) /\ PlainParts(c.parts)
  BY DEF ChatForm
<1>2. CASE c.form \in {"absent", "null"}
  <2>1. s = <<>> /\ c.parts = <<>>
    BY <1>1, <1>2 DEF SaidText, Content
  <2> QED  BY <1>1, <2>1, SpokeNone
<1>3. CASE c.form = "parts"
  <2>1. s = <<>>
    BY <1>1, <1>3 DEF SaidText
  <2> QED  BY <1>1, <1>3, <2>1, SpokeNone
<1>4. CASE c.form = "string"
  <2>1. PICK t : t = c.parts[1].text /\ c = Str(t)
    BY <1>1, <1>4 DEF Content, Str
  <2>2. IsSeq(t)
    <3>1. PICK p : p = [is |-> "text", text |-> t]
      OBVIOUS
    <3>2. c.parts = <<p>>
      BY <2>1, <3>1 DEF Str
    <3>3. PlainForm(p)
      BY <1>1, <3>2, One, SeqIs DEF PlainParts
    <3> QED  BY <3>1, <3>3 DEF PlainForm
  <2>3. TextOf(c) = t /\ Spoke("assistant", c.parts) = Texts("assistant", t)
    BY <2>1, <2>2, TextOfStr, StrTexts
  <2>4. CASE t = <<>>
    <3>1. s = <<>>
      BY <1>1, <2>3, <2>4 DEF SaidText
    <3>2. Spoke("assistant", c.parts) = <<>>
      BY <2>1, <2>4, SilentStr
    <3> QED  BY <1>1, <3>1, <3>2
  <2>5. CASE t # <<>>
    <3>1. s = <<t>>
      BY <1>1, <1>4, <2>3, <2>5 DEF SaidText
    <3>2. m.content.form # "parts"
      BY <1>1, <1>4
    <3> QED  BY <1>1, <2>2, <2>3, <3>1, <3>2
  <2> QED  BY <2>4, <2>5
<1> QED  BY <1>1, <1>2, <1>3, <1>4 DEF Content

(* Read again, a message with one text says what it said.                  *)
Told1(m) == Spoke("assistant", m.content.parts) \o Concat(Called(m.calls))
Unnamed(m) == m.name = ""
LEMMA AssistantTurn ==
  ASSUME NEW m, ChatForm(m), m.role = "assistant", Unnamed(m)
  PROVE  ChatTurn(m) = Told1(m)
<1>1. Speaker("assistant") = "assistant"
  BY DEF Speaker
<1>2. SpeakerOf(m) = "assistant"
  BY <1>1, Unlabelled DEF Unnamed
<1> QED  BY <1>2, ChatTurnSays DEF Told1

OneSaid(m) == m.content.form = "parts" => m.content.parts = <<>>

Blocks(s) == Each(LAMBDA t : [is |-> "text", text |-> t], s)
LEMMA NoBlocks == Blocks(<<>>) = <<>>
  BY SMT DEF Blocks, Each

LEMMA OneBlock ==
  ASSUME NEW t, NEW p, p = [is |-> "text", text |-> t]
  PROVE  Blocks(<<t>>) = <<p>>
<1>1. PICK s : s = <<t>>
  OBVIOUS
<1>2. DOMAIN s = {1} /\ s[1] = t
  BY <1>1
<1>3. Blocks(s) = [i \in DOMAIN s |-> [is |-> "text", text |-> s[i]]]
  BY Zenon DEF Blocks, Each
<1>4. Blocks(s) = [i \in {1} |-> p]
  BY <1>2, <1>3
<1>5. <<p>> = [i \in {1} |-> p]
  OBVIOUS
<1> QED  BY <1>1, <1>4, <1>5

LEMMA ToAnthropicAnswer ==
  ASSUME NEW h, NEW m, m = h.message, ChatForm(m), Unnamed(m),
         NEW b, b = chat_response_to_anthropic(h), b # Bad
  PROVE  /\ ReplyForm("anthropic", b)
         /\ OneSaid(m) => AnswerSpeech("anthropic", b) = ChatTurn(m)
         /\ b.stop_reason = chat_finish_to_anthropic(h.finish) /\ b.stop_reason # "bad"
<1>1. PICK s, uu : s = SaidText(m) /\ uu = convert_openai_tool_calls(m.calls)
  OBVIOUS
<1>2. PICK tt : tt = Blocks(s)
  OBVIOUS
<1>3. /\ ~AnyBad(uu) /\ m.role = "assistant" /\ chat_finish_to_anthropic(h.finish) # "bad"
      /\ b = [content |-> tt \o uu, stop_reason |-> chat_finish_to_anthropic(h.finish),
              usage |-> UsageFor("anthropic", h.usage), extra |-> FALSE]
  BY <1>1, <1>2, Zenon DEF chat_response_to_anthropic, parse_chat_response, Blocks
<1>4. IsSeq(m.calls)
  BY DEF ChatForm
<1>5. /\ PlainParts(uu) /\ \A i \in 1..Len(uu) : uu[i].is = "tool_use"
      /\ Concat(Called(m.calls)) = Spoke("assistant", uu)
  BY <1>1, <1>3, <1>4, CallsToUses
<1>6. /\ PlainParts(tt) /\ \A i \in 1..Len(tt) : tt[i].is = "text"
      /\ OneSaid(m) => Spoke("assistant", tt) = Spoke("assistant", m.content.parts)
  <2>1. CASE /\ s = <<>>
             /\ OneSaid(m) => Spoke("assistant", m.content.parts) = <<>>
    <3>1. tt = <<>>
      BY <1>2, <2>1, NoBlocks
    <3>2. PlainParts(<<>>)
      BY AbsentSays
    <3>3. \A i \in 1..Len(tt) : tt[i].is = "text"
      BY <3>1, Empty
    <3>4. Spoke("assistant", tt) = <<>>
      BY <3>1, SpokeNone
    <3> QED  BY <2>1, <3>1, <3>2, <3>3, <3>4
  <2>2. CASE \E t : /\ s = <<t>> /\ IsSeq(t) /\ m.content.form # "parts"
                    /\ Spoke("assistant", m.content.parts) = Texts("assistant", t)
    <3>1. PICK t : /\ s = <<t>> /\ IsSeq(t)
                   /\ Spoke("assistant", m.content.parts) = Texts("assistant", t)
      BY <2>2
    <3>2. PICK p : p = [is |-> "text", text |-> t]
      OBVIOUS
    <3>3. tt = <<p>>
      BY <1>2, <3>1, <3>2, OneBlock
    <3>4. PlainForm(p) /\ Utterance("assistant", p) = Texts("assistant", t)
      BY <3>1, <3>2 DEF PlainForm, Utterance
    <3>5. PlainParts(<<p>>) /\ Spoke("assistant", <<p>>) = Utterance("assistant", p)
      BY <3>4, SpokeOne
    <3>6. \A i \in 1..Len(<<p>>) : <<p>>[i].is = "text"
      <4>1. Len(<<p>>) = 1 /\ <<p>>[1] = p /\ p.is = "text"
        BY <3>2, One
      <4>2. \A i \in 1..1 : i = 1
        OBVIOUS
      <4> QED  BY <4>1, <4>2
    <3> QED  BY <3>1, <3>3, <3>4, <3>5, <3>6
  <2> QED  BY <1>1, <1>4, <2>1, <2>2, SaidTextIs DEF OneSaid
<1>7. b.content = tt \o uu /\ b.stop_reason = chat_finish_to_anthropic(h.finish)
  <2>1. PICK w, e, v : /\ w = tt \o uu /\ e = chat_finish_to_anthropic(h.finish)
                       /\ v = UsageFor("anthropic", h.usage)
    OBVIOUS
  <2>2. b = [content |-> w, stop_reason |-> e, usage |-> v, extra |-> FALSE]
    BY <1>3, <2>1
  <2>3. b.content = w /\ b.stop_reason = e
    BY <2>2
  <2> QED  BY <2>1, <2>3
<1>8. PartsForm(b.content)
  <2>1. PICK w : w = tt \o uu /\ PlainParts(w)
    BY <1>5, <1>6, PartsJoined
  <2>2. PICK T : T = {tt[i] : i \in 1..Len(tt)} \cup {uu[i] : i \in 1..Len(uu)}
    OBVIOUS
  <2>3. \A i \in 1..Len(w) : w[i] \in T
    <3>1. IsSeq(tt) /\ IsSeq(uu)
      BY <1>5, <1>6 DEF PlainParts
    <3>2. (\A i \in 1..Len(tt) : tt[i] \in T) /\ (\A i \in 1..Len(uu) : uu[i] \in T)
      BY <2>2
    <3>3. \A i \in 1..Len(tt \o uu) : (tt \o uu)[i] \in T
      BY <3>1, <3>2, JoinedItems
    <3> QED  BY <2>1, <3>3
  <2>4. \A p \in T : p.is \in {"text", "tool_use"}
    BY <1>5, <1>6, <2>2
  <2>5. IsSeq(w) /\ DOMAIN w = 1..Len(w)
    BY <2>1, SeqIs DEF PlainParts
  <2>6. \A i \in DOMAIN w : PartForm(w[i])
    <3>1. ASSUME NEW i \in DOMAIN w PROVE PartForm(w[i])
      <4>1. PICK p : p = w[i] /\ PlainForm(p) /\ p.is \in {"text", "tool_use"}
        BY <2>1, <2>3, <2>4, <2>5, <3>1 DEF PlainParts
      <4> QED  BY <4>1 DEF PartForm
    <3> QED  BY <3>1
  <2> QED  BY <1>7, <2>1, <2>5, <2>6 DEF PartsForm
<1>9. OneSaid(m) => AnswerSpeech("anthropic", b) = ChatTurn(m)
  <2>1. ChatTurn(m) = Told1(m)
    BY <1>3, <1>4, AssistantTurn
  <2>2. AnswerSpeech("anthropic", b) = Spoke("assistant", tt \o uu)
    BY <1>7 DEF AnswerSpeech
  <2>3. Spoke("assistant", tt \o uu) = Spoke("assistant", tt) \o Spoke("assistant", uu)
    BY <1>5, <1>6, SpokeJoin
  <2> QED  BY <1>5, <1>6, <2>1, <2>2, <2>3 DEF Told1
<1>10. ReplyForm("anthropic", b)
  BY <1>8 DEF ReplyForm
<1> QED  BY <1>1, <1>3, <1>7, <1>9, <1>10

-----------------------------------------------------------------------------
(* An answer of Chat written for Responses: its text, then its calls.      *)
OutMessages(s, status) ==
  Each(LAMBDA t : [is |-> "message", text |-> t, status |-> status], s)
OutCalls(calls, status) ==
  Each(LAMBDA c : [is |-> "function_call", id |-> c.id, name |-> c.name,
                   args |-> c.args, status |-> status], calls)

LEMMA NoMessages == ASSUME NEW status PROVE OutMessages(<<>>, status) = <<>>
  BY SMT DEF OutMessages, Each

LEMMA OneMessage ==
  ASSUME NEW t, NEW status, NEW p, p = [is |-> "message", text |-> t, status |-> status]
  PROVE  OutMessages(<<t>>, status) = <<p>>
<1>1. PICK s : s = <<t>>
  OBVIOUS
<1>2. DOMAIN s = {1} /\ s[1] = t
  BY <1>1
<1>3. OutMessages(s, status)
        = [i \in DOMAIN s |-> [is |-> "message", text |-> s[i], status |-> status]]
  BY Zenon DEF OutMessages, Each
<1>4. OutMessages(s, status) = [i \in {1} |-> p]
  BY <1>2, <1>3
<1>5. <<p>> = [i \in {1} |-> p]
  OBVIOUS
<1> QED  BY <1>1, <1>4, <1>5

LEMMA OutCallsAre ==
  ASSUME NEW calls, IsSeq(calls), NEW status, NEW ii, ii = OutCalls(calls, status)
  PROVE  /\ IsSeq(ii) /\ Len(ii) = Len(calls)
         /\ \A i \in 1..Len(calls) : ii[i].is = "function_call" /\ Calls(ii[i]) = Calls(calls[i])
<1>1. DOMAIN calls = 1..Len(calls)
  BY SeqIs
<1>2. ii = [i \in DOMAIN calls |->
             [is |-> "function_call", id |-> calls[i].id, name |-> calls[i].name,
              args |-> calls[i].args, status |-> status]]
  BY Zenon DEF OutCalls, Each
<1>3. DOMAIN ii = DOMAIN calls /\ ii = [i \in DOMAIN ii |-> ii[i]]
  BY <1>2
<1>4. IsSeq(ii) /\ Len(ii) = Len(calls)
  BY <1>3, Imaged
<1>5. ASSUME NEW i \in 1..Len(calls)
      PROVE  ii[i].is = "function_call" /\ Calls(ii[i]) = Calls(calls[i])
  <2>1. PICK x : x = ii[i]
    OBVIOUS
  <2>2. /\ x.is = "function_call" /\ x.id = calls[i].id /\ x.name = calls[i].name
        /\ x.args = calls[i].args
    BY <1>1, <1>2, <2>1
  <2>3. Calls(x) = Calls(calls[i])
    BY <2>2 DEF Calls
  <2> QED  BY <2>1, <2>2, <2>3
<1> QED  BY <1>4, <1>5

LEMMA ToResponsesAnswer ==
  ASSUME NEW h, NEW m, m = h.message, ChatForm(m), Unnamed(m),
         NEW b, b = chat_response_to_responses(h), b # Bad
  PROVE  /\ ReplyForm("responses", b)
         /\ OneSaid(m) => AnswerSpeech("responses", b) = ChatTurn(m)
         /\ b.status = (IF h.finish = "length" THEN "max_output_tokens" ELSE "completed")
         /\ h.finish \in {"unset", "stop", "tool_calls", "length"}
<1>1. PICK s, st : s = SaidText(m) /\ st = (IF h.finish = "length" THEN "incomplete" ELSE "completed")
  OBVIOUS
<1>2. PICK mm, cc : mm = OutMessages(s, st) /\ cc = OutCalls(m.calls, st)
  OBVIOUS
<1>3. /\ m.role = "assistant" /\ h.finish \in {"unset", "stop", "tool_calls", "length"}
      /\ b = [output |-> mm \o cc,
              status |-> IF h.finish = "length" THEN "max_output_tokens" ELSE "completed",
              usage |-> UsageFor("responses", h.usage), extra |-> FALSE]
  <2>1. b = IF ~parse_chat_response(h)
                 \/ h.finish \notin {"unset", "stop", "tool_calls", "length"}
              THEN Bad
              ELSE [output |->
                      OutMessages(SaidText(h.message),
                                  IF h.finish = "length" THEN "incomplete" ELSE "completed")
                        \o OutCalls(h.message.calls,
                                    IF h.finish = "length" THEN "incomplete" ELSE "completed"),
                    status |-> IF h.finish = "length" THEN "max_output_tokens" ELSE "completed",
                    usage |-> UsageFor("responses", h.usage), extra |-> FALSE]
    BY Zenon DEF chat_response_to_responses, OutMessages, OutCalls
  <2>2. ~(~parse_chat_response(h) \/ h.finish \notin {"unset", "stop", "tool_calls", "length"})
    BY <2>1, Zenon
  <2>3. m.role = "assistant" /\ h.finish \in {"unset", "stop", "tool_calls", "length"}
    BY <2>2, Zenon DEF parse_chat_response
  <2>4. b = [output |-> mm \o cc,
              status |-> IF h.finish = "length" THEN "max_output_tokens" ELSE "completed",
              usage |-> UsageFor("responses", h.usage), extra |-> FALSE]
    BY <1>1, <1>2, <2>1, <2>2, Zenon
  <2> QED  BY <2>3, <2>4
<1>4. IsSeq(m.calls)
  BY DEF ChatForm
<1>5. PICK w, e, v : /\ w = mm \o cc
                     /\ e = (IF h.finish = "length" THEN "max_output_tokens" ELSE "completed")
                     /\ v = UsageFor("responses", h.usage)
  OBVIOUS
<1>6. b.output = w /\ b.status = e
  <2>1. b = [output |-> w, status |-> e, usage |-> v, extra |-> FALSE]
    BY <1>3, <1>5
  <2> QED  BY <2>1
<1>7. /\ IsSeq(cc) /\ Len(cc) = Len(m.calls)
      /\ \A i \in 1..Len(cc) : cc[i].is = "function_call" /\ Calls(cc[i]) = Calls(m.calls[i])
  BY <1>2, <1>4, OutCallsAre
<1>8. /\ IsSeq(mm) /\ \A i \in 1..Len(mm) : mm[i].is = "message" /\ IsSeq(mm[i].text)
      /\ \/ mm = <<>> /\ (OneSaid(m) => Spoke("assistant", m.content.parts) = <<>>)
         \/ \E p : mm = <<p>> /\ IsSeq(Output(p)) /\ Spoke("assistant", m.content.parts) = Output(p)
  <2>1. CASE /\ s = <<>>
             /\ OneSaid(m) => Spoke("assistant", m.content.parts) = <<>>
    <3>1. mm = <<>>
      BY <1>2, <2>1, NoMessages
    <3>2. IsSeq(mm) /\ \A i \in 1..Len(mm) : mm[i].is = "message" /\ IsSeq(mm[i].text)
      BY <3>1, Empty
    <3> QED  BY <2>1, <3>1, <3>2
  <2>2. CASE \E t : /\ s = <<t>> /\ IsSeq(t) /\ m.content.form # "parts"
                    /\ Spoke("assistant", m.content.parts) = Texts("assistant", t)
    <3>1. PICK t : /\ s = <<t>> /\ IsSeq(t)
                   /\ Spoke("assistant", m.content.parts) = Texts("assistant", t)
      BY <2>2
    <3>2. PICK p : p = [is |-> "message", text |-> t, status |-> st]
      OBVIOUS
    <3>3. mm = <<p>>
      BY <1>2, <3>1, <3>2, OneMessage
    <3>4. p.is = "message" /\ p.text = t
      BY <3>2
    <3>5. IsSeq(mm) /\ \A i \in 1..Len(mm) : mm[i].is = "message" /\ IsSeq(mm[i].text)
      <4>1. IsSeq(mm) /\ Len(mm) = 1 /\ mm[1] = p
        BY <3>3, One
      <4> QED  BY <3>1, <3>4, <4>1
    <3>6. Output(p) = Texts("assistant", t) /\ IsSeq(Output(p))
      BY <3>1, <3>4, TextsSeq DEF Output
    <3> QED  BY <3>1, <3>3, <3>5, <3>6
  <2> QED  BY <1>1, <2>1, <2>2, SaidTextIs DEF OneSaid
<1>9. PICK T : T = {mm[i] : i \in 1..Len(mm)} \cup {cc[i] : i \in 1..Len(cc)}
  OBVIOUS
<1>10. /\ \A i \in 1..Len(mm) : mm[i] \in T
       /\ \A i \in 1..Len(cc) : cc[i] \in T
       /\ \A x \in T : /\ x.is # "function_call_output"
                       /\ x.is = "message" => IsSeq(x.text)
  BY <1>7, <1>8, <1>9
<1>11. IsSeq(w) /\ \A i \in 1..Len(w) : w[i] \in T
  <2>1. IsSeq(mm \o cc)
    BY <1>7, <1>8, Joined
  <2>2. \A i \in 1..Len(mm \o cc) : (mm \o cc)[i] \in T
    BY <1>7, <1>8, <1>10, JoinedItems
  <2> QED  BY <1>5, <2>1, <2>2
<1>12. ReplyForm("responses", b)
  <2>1. \A i \in 1..Len(w) : /\ w[i].is # "function_call_output"
                             /\ w[i].is = "message" => IsSeq(w[i].text)
    BY <1>10, <1>11
  <2> QED  BY <1>6, <1>11, <2>1 DEF ReplyForm
<1>13. PICK g : g = [x \in T |-> Output(x)]
  OBVIOUS
<1>14. /\ \A i \in 1..Len(mm) : IsSeq(g[mm[i]])
       /\ \A i \in 1..Len(cc) : IsSeq(g[cc[i]])
  <2>1. \A x \in T : IsSeq(Output(x))
    BY <1>10, OutputSeq
  <2> QED  BY <1>10, <1>13, <2>1
<1>15. AnswerSpeech("responses", b) = Chained(mm, g) \o Chained(cc, g)
  <2>1. AnswerSpeech("responses", b) = Chained(w, g)
    BY <1>6, <1>11, <1>13, OutputSaid
  <2>2. Chained(mm \o cc, g) = Chained(mm, g) \o Chained(cc, g)
    BY <1>7, <1>8, <1>14, ChainJoin
  <2> QED  BY <1>5, <2>1, <2>2
<1>16. Chained(cc, g) = Concat(Called(m.calls))
  <2>1. Chain(cc, g) = Called(m.calls)
    <3>1. DOMAIN cc = DOMAIN m.calls /\ DOMAIN cc = 1..Len(cc)
      BY <1>4, <1>7, SeqIs
    <3>2. \A i \in DOMAIN cc : g[cc[i]] = Calls(m.calls[i])
      BY <1>7, <1>10, <1>13, <3>1 DEF Output
    <3> QED  BY <3>1, <3>2, SMT DEF Chain, Called, Each
  <2> QED  BY <2>1 DEF Chained
<1>17. OneSaid(m) => Chained(mm, g) = Spoke("assistant", m.content.parts)
  <2>1. CASE mm = <<>> /\ (OneSaid(m) => Spoke("assistant", m.content.parts) = <<>>)
    BY <2>1, ChainNone
  <2>2. CASE \E p : mm = <<p>> /\ IsSeq(Output(p)) /\ Spoke("assistant", m.content.parts) = Output(p)
    <3>1. PICK p : mm = <<p>> /\ IsSeq(Output(p)) /\ Spoke("assistant", m.content.parts) = Output(p)
      BY <2>2
    <3>2. p \in T /\ g[p] = Output(p)
      BY <1>10, <1>13, <3>1, One
    <3>3. Chained(<<p>>, g) = g[p]
      BY <3>1, <3>2, ChainOne
    <3> QED  BY <3>1, <3>2, <3>3
  <2> QED  BY <1>8, <2>1, <2>2
<1>18. OneSaid(m) => AnswerSpeech("responses", b) = ChatTurn(m)
  <2>1. ChatTurn(m) = Told1(m)
    BY <1>3, AssistantTurn
  <2> QED  BY <1>15, <1>16, <1>17, <2>1 DEF Told1
<1> QED  BY <1>3, <1>5, <1>6, <1>12, <1>18

LEMMA ToGeminiAnswer ==
  ASSUME NEW h, NEW m, m = h.message, ChatForm(m), Tidy(m),
         NEW b, b = chat_response_to_gemini(h), b # Bad
  PROVE  /\ ReplyForm("gemini", b) /\ AnswerSpeech("gemini", b) = ChatTurn(m)
         /\ b.finishReason = chat_finish_to_gemini(h.finish) /\ b.finishReason # "bad"
<1>1. PICK t : t = chat_message_to_gemini(m)
  OBVIOUS
<1>2. PICK e, v : e = chat_finish_to_gemini(h.finish) /\ v = UsageFor("gemini", h.usage)
  OBVIOUS
<1>3. /\ m.role = "assistant" /\ t # Bad /\ e # "bad"
      /\ b = [content |-> t, finishReason |-> e, usage |-> v, extra |-> FALSE]
  BY <1>1, <1>2, Zenon DEF chat_response_to_gemini, parse_chat_response
<1>4. b.content = t /\ b.finishReason = e
  BY <1>3
<1>5. /\ t.role = "model" /\ PartsForm(t.parts) /\ Turn("gemini", t) = ChatTurn(m)
      /\ \A i \in 1..Len(t.parts) : t.parts[i].is # "functionResponse"
  BY <1>1, <1>3, GeminiTurnSays
<1>6. ContentForm(t)
  <2>1. DOMAIN t.parts = 1..Len(t.parts)
    BY <1>5, SeqIs DEF PartsForm
  <2> QED  BY <1>5, <2>1 DEF ContentForm
<1>7. AnswerSpeech("gemini", b) = ChatTurn(m)
  <2>1. Speaker(t.role) = "assistant"
    BY <1>5 DEF Speaker
  <2>2. Turn("gemini", t) = Spoke("assistant", t.parts)
    BY <2>1 DEF Turn
  <2> QED  BY <1>4, <1>5, <2>2 DEF AnswerSpeech
<1> QED  BY <1>2, <1>3, <1>4, <1>5, <1>6, <1>7 DEF ReplyForm

-----------------------------------------------------------------------------
(* Why an answer ended, through the hub.                                   *)
Ending(finish) == IF finish = "unset" THEN "stop" ELSE finish
EndsAs(from, a, h) ==
  \/ EndedBy(from, a) = Ending(h.finish)
  \/ /\ from = "gemini" /\ EndedBy(from, a) = "tool_calls" /\ Ending(h.finish) = "stop"
     /\ CallsMade(from, a)

HubSpoken(from, to, a, h) ==
  /\ ChatForm(h.message) /\ Tidy(h.message) /\ Unnamed(h.message)
  /\ EndsAs(from, a, h)
  /\ (from = "gemini" => IF to = "chat" THEN Typeless(a.content.parts)
                           ELSE OneText(a.content.parts)) =>
       /\ OneSaid(h.message)
            \/ to = "chat"
       /\ Rearranged(ChatTurn(h.message), AnswerSpeech(from, a))

LEMMA FromChat ==
  ASSUME NEW to, NEW a, Answered("chat", a)
  PROVE  HubSpoken("chat", to, a, a)
<1>1. PICK m : m = a.message /\ ChatForm(m) /\ Unnamed(m) /\ m.content.form # "parts"
  BY DEF Answered, Unnamed
<1>2. Tidy(m)
  BY <1>1 DEF Tidy, Unnamed
<1>3. AnswerSpeech("chat", a) = ChatTurn(m)
  BY <1>1 DEF AnswerSpeech
<1>4. Rearranged(ChatTurn(m), AnswerSpeech("chat", a))
  BY <1>3, SameIsRearranged
<1>5. EndedBy("chat", a) = Ending(a.finish)
  BY DEF EndedBy, Ending
<1> QED  BY <1>1, <1>2, <1>4, <1>5 DEF HubSpoken, EndsAs, OneSaid

LEMMA FromResponses ==
  ASSUME NEW to, NEW a, Answered("responses", a),
         NEW h, h = responses_response_to_chat(a), h # Bad
  PROVE  HubSpoken("responses", to, a, h)
<1>1. /\ AssistantForm(h.message) /\ HubAnswer("responses", a, h)
      /\ h.finish = responses_finish_to_chat(a.status, h.message.calls # <<>>)
      /\ h.finish # "bad"
      /\ (h.message.calls # <<>>) = CallsMade("responses", a)
  BY ResponsesAnswered
<1>2. PICK made : made = CallsMade("responses", a)
  OBVIOUS
<1>3. EndedBy("responses", a) = h.finish
  <2>1. EndedBy("responses", a) = responses_finish_to_chat(a.status, CallsMade("responses", a))
    BY DEF EndedBy
  <2> QED  BY <1>1, <2>1
<1>4. h.finish # "unset"
  BY <1>1 DEF responses_finish_to_chat
<1>5. EndsAs("responses", a, h)
  BY <1>3, <1>4 DEF EndsAs, Ending
<1>6. ChatForm(h.message) /\ Tidy(h.message) /\ Unnamed(h.message) /\ OneSaid(h.message)
  BY <1>1 DEF AssistantForm, Unnamed, OneSaid
<1> QED  BY <1>1, <1>5, <1>6 DEF HubSpoken, HubAnswer

LEMMA FromAnthropic ==
  ASSUME NEW to, NEW a, Answered("anthropic", a),
         NEW h, h = anthropic_response_to_chat(a), h # Bad
  PROVE  HubSpoken("anthropic", to, a, h)
<1>1. PartsForm(a.content)
  BY DEF Answered
<1>2. AssistantForm(h.message) /\ HubAnswer("anthropic", a, h)
  BY <1>1, AnthropicAnswered
<1>3. h.finish = anthropic_finish_to_chat(a.stop_reason)
  <2>1. PICK m, e, u : h = Answer(m, e, u, FALSE) /\ e = anthropic_finish_to_chat(a.stop_reason)
    BY Zenon DEF anthropic_response_to_chat
  <2> QED  BY <2>1 DEF Answer
<1>4. EndedBy("anthropic", a) = h.finish
  BY <1>3 DEF EndedBy
<1>5. h.finish # "unset"
  BY <1>3 DEF anthropic_finish_to_chat
<1>6. EndsAs("anthropic", a, h)
  BY <1>4, <1>5 DEF EndsAs, Ending
<1>7. ChatForm(h.message) /\ Tidy(h.message) /\ Unnamed(h.message) /\ OneSaid(h.message)
  BY <1>2 DEF AssistantForm, Unnamed, OneSaid
<1> QED  BY <1>2, <1>6, <1>7 DEF HubSpoken, HubAnswer

LEMMA FromGemini ==
  ASSUME NEW to, NEW a, Answered("gemini", a),
         NEW h, h = gemini_response_to_chat(a), h # Bad
  PROVE  HubSpoken("gemini", to, a, h)
<1>1. /\ ChatForm(h.message) /\ Tidy(h.message) /\ Unnamed(h.message)
      /\ Typeless(a.content.parts) => HubAnswer("gemini", a, h)
      /\ OneText(a.content.parts) => AssistantForm(h.message) /\ Typeless(a.content.parts)
      /\ h.finish = gemini_finish_to_chat(a.finishReason) /\ h.finish # "bad"
  BY GeminiAnswered DEF Unnamed
<1>2. h.finish \in {"stop", "length"}
  BY <1>1 DEF gemini_finish_to_chat
<1>3. EndsAs("gemini", a, h)
  <2>1. EndedBy("gemini", a)
          = IF h.finish = "stop" /\ CallsMade("gemini", a) THEN "tool_calls" ELSE h.finish
    BY <1>1 DEF EndedBy
  <2>2. Ending(h.finish) = h.finish
    BY <1>2 DEF Ending
  <2>3. CASE h.finish = "stop" /\ CallsMade("gemini", a)
    BY <2>1, <2>2, <2>3 DEF EndsAs
  <2>4. CASE ~(h.finish = "stop" /\ CallsMade("gemini", a))
    BY <2>1, <2>2, <2>4 DEF EndsAs
  <2> QED  BY <2>3, <2>4
<1>4. ASSUME IF to = "chat" THEN Typeless(a.content.parts) ELSE OneText(a.content.parts)
      PROVE  /\ OneSaid(h.message) \/ to = "chat"
             /\ Rearranged(ChatTurn(h.message), AnswerSpeech("gemini", a))
  <2>1. CASE to = "chat"
    BY <1>1, <1>4, <2>1 DEF HubAnswer
  <2>2. CASE to # "chat"
    BY <1>1, <1>4, <2>2 DEF HubAnswer, AssistantForm, OneSaid
  <2> QED  BY <2>1, <2>2
<1> QED  BY <1>1, <1>3, <1>4 DEF HubSpoken

LEMMA AnswerAtHub ==
  ASSUME NEW from \in Format, NEW to, NEW a, Answered(from, a),
         NEW h, h = response_to_chat(from, a), h # Bad
  PROVE  HubSpoken(from, to, a, h)
<1>1. CASE from = "chat"
  BY <1>1, FromChat DEF response_to_chat
<1>2. CASE from = "responses"
  BY <1>2, FromResponses DEF response_to_chat
<1>3. CASE from = "anthropic"
  BY <1>3, FromAnthropic DEF response_to_chat
<1>4. CASE from = "gemini"
  BY <1>4, FromGemini DEF response_to_chat
<1> QED  BY <1>1, <1>2, <1>3, <1>4 DEF Format

-----------------------------------------------------------------------------
(* What the client makes of the end.                                       *)
HubReplied(to, h, b) ==
  /\ ReplyForm(to, b)
  /\ OneSaid(h.message) \/ to = "chat" => AnswerSpeech(to, b) = ChatTurn(h.message)
  /\ IF to \in {"chat", "anthropic"} THEN EndedBy(to, b) = Ending(h.finish)
       ELSE /\ Ending(h.finish) \in {"stop", "tool_calls", "length"}
            /\ EndedBy(to, b) = IF Ending(h.finish) = "length" THEN "length"
                                  ELSE IF CallsMade(to, b) THEN "tool_calls" ELSE "stop"

LEMMA ReplyFromHub ==
  ASSUME NEW to \in Format, NEW h, ChatForm(h.message), Tidy(h.message), Unnamed(h.message),
         NEW b, b = response_from_chat(to, h), b # Bad
  PROVE  HubReplied(to, h, b)
<1>1. CASE to = "chat"
  <2>1. b = h
    BY <1>1 DEF response_from_chat
  <2>2. ReplyForm(to, b) /\ AnswerSpeech(to, b) = ChatTurn(h.message)
          /\ EndedBy(to, b) = Ending(h.finish)
    BY <1>1, <2>1 DEF ReplyForm, AnswerSpeech, EndedBy, Ending
  <2> QED  BY <1>1, <2>2 DEF HubReplied
<1>2. CASE to = "anthropic"
  <2>1. b = chat_response_to_anthropic(h)
    BY <1>2 DEF response_from_chat
  <2>2. /\ ReplyForm("anthropic", b)
        /\ OneSaid(h.message) => AnswerSpeech("anthropic", b) = ChatTurn(h.message)
        /\ b.stop_reason = chat_finish_to_anthropic(h.finish) /\ b.stop_reason # "bad"
    BY <2>1, ToAnthropicAnswer
  <2>3. anthropic_finish_to_chat(b.stop_reason) = Ending(h.finish)
    BY <2>2 DEF anthropic_finish_to_chat, chat_finish_to_anthropic, Ending
  <2>4. EndedBy("anthropic", b) = Ending(h.finish)
    BY <2>3 DEF EndedBy
  <2> QED  BY <1>2, <2>2, <2>4 DEF HubReplied
<1>3. CASE to = "responses"
  <2>1. b = chat_response_to_responses(h)
    BY <1>3 DEF response_from_chat
  <2>2. /\ ReplyForm("responses", b)
        /\ OneSaid(h.message) => AnswerSpeech("responses", b) = ChatTurn(h.message)
        /\ b.status = (IF h.finish = "length" THEN "max_output_tokens" ELSE "completed")
        /\ h.finish \in {"unset", "stop", "tool_calls", "length"}
    BY <2>1, ToResponsesAnswer
  <2>3. EndedBy("responses", b) = responses_finish_to_chat(b.status, CallsMade("responses", b))
    BY DEF EndedBy
  <2>4. EndedBy("responses", b) = IF Ending(h.finish) = "length" THEN "length"
                                    ELSE IF CallsMade("responses", b) THEN "tool_calls" ELSE "stop"
    BY <2>2, <2>3 DEF responses_finish_to_chat, Ending
  <2>5. Ending(h.finish) \in {"stop", "tool_calls", "length"}
    BY <2>2 DEF Ending
  <2> QED  BY <1>3, <2>2, <2>4, <2>5 DEF HubReplied
<1>4. CASE to = "gemini"
  <2>1. b = chat_response_to_gemini(h)
    BY <1>4 DEF response_from_chat
  <2>2. /\ ReplyForm("gemini", b) /\ AnswerSpeech("gemini", b) = ChatTurn(h.message)
        /\ b.finishReason = chat_finish_to_gemini(h.finish) /\ b.finishReason # "bad"
    BY <2>1, ToGeminiAnswer
  <2>3. h.finish \in {"unset", "stop", "tool_calls", "length"}
    BY <2>2 DEF chat_finish_to_gemini
  <2>4. gemini_finish_to_chat(b.finishReason) = IF h.finish = "length" THEN "length" ELSE "stop"
    BY <2>2, <2>3 DEF gemini_finish_to_chat, chat_finish_to_gemini
  <2>5. EndedBy("gemini", b)
          = IF gemini_finish_to_chat(b.finishReason) = "stop" /\ CallsMade("gemini", b)
              THEN "tool_calls" ELSE gemini_finish_to_chat(b.finishReason)
    BY DEF EndedBy
  <2>6. EndedBy("gemini", b) = IF Ending(h.finish) = "length" THEN "length"
                                 ELSE IF CallsMade("gemini", b) THEN "tool_calls" ELSE "stop"
    BY <2>3, <2>4, <2>5 DEF Ending
  <2>7. Ending(h.finish) \in {"stop", "tool_calls", "length"}
    BY <2>3 DEF Ending
  <2> QED  BY <1>4, <2>2, <2>6, <2>7 DEF HubReplied
<1> QED  BY <1>1, <1>2, <1>3, <1>4 DEF Format

-----------------------------------------------------------------------------
(* An answer through the hub.                                              *)
KeepsAnswer(from, to, a) ==
  from = "gemini" => IF to = "chat" THEN Typeless(a.content.parts) ELSE OneText(a.content.parts)
EndAlike(from, a, to, b) ==
  \/ EndedBy(to, b) = EndedBy(from, a)
  \/ from = "gemini" /\ EndedBy(from, a) = "tool_calls" /\ EndedBy(to, b) = "stop"
  \/ /\ to \in {"gemini", "responses"}
     /\ {EndedBy(from, a), EndedBy(to, b)} = {"tool_calls", "stop"}
     /\ (EndedBy(to, b) = "tool_calls") = CallsMade(from, a)

LEMMA TextAnswered ==
  ASSUME NEW from \in Format, NEW to \in Format, from # to, NEW a, Answered(from, a),
         NEW b, b = translate_response(from, to, a), b # Bad
  PROVE  /\ ReplyForm(to, b)
         /\ KeepsAnswer(from, to, a) =>
              /\ Rearranged(AnswerSpeech(to, b), AnswerSpeech(from, a))
              /\ EndAlike(from, a, to, b)
<1>1. PICK h : h = response_to_chat(from, a)
  OBVIOUS
<1>2. h # Bad /\ b = response_from_chat(to, h)
  BY <1>1 DEF translate_response
<1>3. HubSpoken(from, to, a, h)
  BY <1>1, <1>2, AnswerAtHub
<1>4. HubReplied(to, h, b)
  BY <1>2, <1>3, ReplyFromHub DEF HubSpoken
<1>5. ASSUME KeepsAnswer(from, to, a)
      PROVE  Rearranged(AnswerSpeech(to, b), AnswerSpeech(from, a))
  <2>1. OneSaid(h.message) \/ to = "chat"
    BY <1>3, <1>5 DEF HubSpoken, KeepsAnswer
  <2>2. Rearranged(ChatTurn(h.message), AnswerSpeech(from, a))
    BY <1>3, <1>5 DEF HubSpoken, KeepsAnswer
  <2>3. AnswerSpeech(to, b) = ChatTurn(h.message)
    BY <1>4, <2>1 DEF HubReplied
  <2> QED  BY <2>2, <2>3
<1>6. ASSUME KeepsAnswer(from, to, a)
      PROVE  EndAlike(from, a, to, b)
  <2>1. CallsMade(to, b) = CallsMade(from, a)
    BY <1>5, <1>6 DEF CallsMade, Rearranged
  <2>2. EndsAs(from, a, h)
    BY <1>3 DEF HubSpoken
  <2>3. CASE to \in {"chat", "anthropic"}
    <3>1. EndedBy(to, b) = Ending(h.finish)
      BY <1>4, <2>3 DEF HubReplied
    <3> QED  BY <2>2, <3>1 DEF EndsAs, EndAlike
  <2>4. CASE to \notin {"chat", "anthropic"}
    <3>1. PICK e, f, o : e = EndedBy(from, a) /\ f = EndedBy(to, b) /\ o = Ending(h.finish)
      OBVIOUS
    <3>2. /\ o \in {"stop", "tool_calls", "length"}
          /\ f = IF o = "length" THEN "length"
                   ELSE IF CallsMade(from, a) THEN "tool_calls" ELSE "stop"
      BY <1>4, <2>1, <2>4, <3>1 DEF HubReplied
    <3>3. e = o \/ (e = "tool_calls" /\ o = "stop" /\ CallsMade(from, a))
      BY <2>2, <3>1 DEF EndsAs
    <3>4. to \in {"gemini", "responses"}
      BY <2>4 DEF Format
    <3>5. f = e \/ /\ {e, f} = {"tool_calls", "stop"}
                   /\ (f = "tool_calls") = CallsMade(from, a)
      <4>1. CASE CallsMade(from, a)
        BY <3>2, <3>3, <4>1
      <4>2. CASE ~CallsMade(from, a)
        <5>1. CallsMade(from, a) \in BOOLEAN
          BY DEF CallsMade
        <5>2. f = e \/ (e = "tool_calls" /\ f = "stop")
          BY <3>2, <3>3, <4>2
        <5>3. f # "tool_calls" \/ f = e
          BY <3>2, <4>2
        <5>4. CASE f # e
          <6>1. {e, f} = {"tool_calls", "stop"} /\ ~(f = "tool_calls")
            BY <5>2, <5>4
          <6>2. (f = "tool_calls") = CallsMade(from, a)
            BY <4>2, <5>1, <6>1
          <6> QED  BY <6>1, <6>2
        <5> QED  BY <5>4
      <4> QED  BY <4>1, <4>2
    <3> QED  BY <3>1, <3>4, <3>5 DEF EndAlike
  <2> QED  BY <2>3, <2>4
<1> QED  BY <1>4, <1>5, <1>6 DEF HubReplied

-----------------------------------------------------------------------------
(* Pictures: those of the answer of one dialect are those of the other.    *)
Picture(by, ref) == Shows(by, "data", ref, "unset", "")

LEMMA InlineSays ==
  ASSUME NEW by, NEW p, p.is = "inlineData"
  PROVE  Utterance(by, p) = Picture(by, p.ref)
  BY DEF Utterance, Picture

TypeOf(i) == Mime[IF i.format = "unset" THEN "png" ELSE i.format]
SamePictures(g, i) ==
  /\ IsSeq(i.data) /\ IsSeq(g.content.parts) /\ Len(g.content.parts) = Len(i.data)
  /\ \A k \in 1..Len(i.data) : /\ g.content.parts[k].is = "inlineData"
                               /\ g.content.parts[k].ref = <<TypeOf(i), i.data[k]>>
  /\ g.finishReason \in {"unset", "STOP"}

LEMMA PicturesAlike ==
  ASSUME NEW g, NEW i, SamePictures(g, i)
  PROVE  /\ AnswerSpeech("gemini", g) = AnswerSpeech("images", i)
         /\ EndedBy("gemini", g) = "stop" /\ EndedBy("images", i) = "stop"
         /\ PlainParts(g.content.parts)
<1>1. PICK parts, data : /\ parts = g.content.parts /\ data = i.data
                         /\ IsSeq(data) /\ IsSeq(parts) /\ Len(parts) = Len(data)
  BY DEF SamePictures
<1>2. \A k \in 1..Len(data) : parts[k].is = "inlineData" /\ parts[k].ref = <<TypeOf(i), data[k]>>
  BY <1>1 DEF SamePictures
<1>3. DOMAIN parts = 1..Len(data) /\ DOMAIN data = 1..Len(data)
  BY <1>1, SeqIs
<1>4. PlainParts(parts)
  <2>1. \A k \in DOMAIN parts : PlainForm(parts[k])
    BY <1>2, <1>3 DEF PlainForm
  <2> QED  BY <1>1, <2>1 DEF PlainParts
<1>5. AnswerSpeech("gemini", g) = Concat(Uttered("assistant", parts))
  <2>1. AnswerSpeech("gemini", g) = Spoke("assistant", parts)
    BY <1>1 DEF AnswerSpeech
  <2> QED  BY <1>4, <2>1, SpokeSeq
<1>6. AnswerSpeech("images", i)
        = Concat([k \in DOMAIN data |-> Picture("assistant", <<TypeOf(i), data[k]>>)])
  <2>1. AnswerSpeech("images", i)
          = Concat([k \in DOMAIN i.data |-> Picture("assistant", <<TypeOf(i), i.data[k]>>)])
    BY Zenon DEF AnswerSpeech, Each, Picture, TypeOf
  <2> QED  BY <1>1, <2>1
<1>7. Uttered("assistant", parts) = [k \in DOMAIN parts |-> Utterance("assistant", parts[k])]
  BY Zenon DEF Uttered, Each
<1>8. \A k \in DOMAIN data :
        Utterance("assistant", parts[k]) = Picture("assistant", <<TypeOf(i), data[k]>>)
  <2>1. ASSUME NEW k \in DOMAIN data
        PROVE  Utterance("assistant", parts[k]) = Picture("assistant", <<TypeOf(i), data[k]>>)
    <3>1. parts[k].is = "inlineData" /\ parts[k].ref = <<TypeOf(i), data[k]>>
      BY <1>2, <1>3, <2>1
    <3>2. Utterance("assistant", parts[k]) = Picture("assistant", parts[k].ref)
      BY <3>1, InlineSays
    <3> QED  BY <3>1, <3>2
  <2> QED  BY <2>1
<1>9. AnswerSpeech("gemini", g) = AnswerSpeech("images", i)
  <2>1. [k \in DOMAIN parts |-> Utterance("assistant", parts[k])]
          = [k \in DOMAIN data |-> Picture("assistant", <<TypeOf(i), data[k]>>)]
    BY <1>3, <1>8
  <2> QED  BY <1>5, <1>6, <1>7, <2>1
<1>10. Kind(AnswerSpeech("gemini", g), Dealing) = <<>>
  <2>1. PICK ss : /\ ss = Uttered("assistant", parts) /\ Lists(ss) /\ Len(ss) = Len(parts)
                  /\ \A k \in 1..Len(parts) : ss[k] = Utterance("assistant", parts[k])
    BY <1>4, UtteredLists
  <2>2. PICK kk : kk = [k \in DOMAIN ss |-> Kind(ss[k], Dealing)]
    OBVIOUS
  <2>3. Kind(Concat(ss), Dealing) = Concat(kk) /\ Lists(kk)
    BY <2>1, <2>2, KindConcat
  <2>4. \A k \in 1..Len(ss) : Kind(ss[k], Dealing) = <<>>
    <3>1. ASSUME NEW k \in 1..Len(ss) PROVE Kind(ss[k], Dealing) = <<>>
      <4>1. PICK p : p = parts[k] /\ p.is = "inlineData" /\ ss[k] = Utterance("assistant", p)
        BY <1>1, <1>2, <2>1, <3>1
      <4> QED  BY <4>1, ShownKind
    <3> QED  BY <3>1
  <2>5. \A k \in 1..Len(kk) : kk[k] = <<>>
    <3>1. DOMAIN ss = 1..Len(ss) /\ DOMAIN kk = 1..Len(kk) /\ DOMAIN kk = DOMAIN ss
      BY <2>1, <2>2, <2>3, SeqIs DEF Lists
    <3> QED  BY <2>2, <2>4, <3>1
  <2>6. Concat(kk) = <<>>
    BY <2>3, <2>5, Blank
  <2> QED  BY <1>5, <2>1, <2>3, <2>6
<1>11. ~CallsMade("gemini", g)
  <2>1. Traffic(AnswerSpeech("gemini", g)) = <<>>
    BY <1>10, ProseIs
  <2>2. Len(Traffic(AnswerSpeech("gemini", g))) = 0
    BY <2>1, Empty
  <2> QED  BY <2>2 DEF CallsMade
<1>12. EndedBy("gemini", g) = "stop"
  <2>1. gemini_finish_to_chat(g.finishReason) = "stop"
    BY DEF gemini_finish_to_chat, SamePictures
  <2> QED  BY <1>11, <2>1 DEF EndedBy
<1>13. EndedBy("images", i) = "stop"
  BY DEF EndedBy
<1> QED  BY <1>1, <1>4, <1>9, <1>12, <1>13

Drawn(mime, data) == Each(LAMBDA d : [is |-> "inlineData", ref |-> <<mime, d>>], data)
LEMMA DrawnAre ==
  ASSUME NEW mime, NEW data, IsSeq(data), NEW parts, parts = Drawn(mime, data)
  PROVE  /\ IsSeq(parts) /\ Len(parts) = Len(data)
         /\ \A k \in 1..Len(data) : parts[k].is = "inlineData" /\ parts[k].ref = <<mime, data[k]>>
<1>1. parts = [k \in DOMAIN data |-> [is |-> "inlineData", ref |-> <<mime, data[k]>>]]
  BY Zenon DEF Drawn, Each
<1>2. DOMAIN data = 1..Len(data)
  BY SeqIs
<1>3. DOMAIN parts = DOMAIN data /\ parts = [k \in DOMAIN parts |-> parts[k]]
  BY <1>1
<1>4. IsSeq(parts) /\ Len(parts) = Len(data)
  BY <1>3, Imaged
<1>5. ASSUME NEW k \in 1..Len(data)
      PROVE  parts[k].is = "inlineData" /\ parts[k].ref = <<mime, data[k]>>
  <2>1. PICK p, r : p = parts[k] /\ r = <<mime, data[k]>>
    OBVIOUS
  <2>2. p = [is |-> "inlineData", ref |-> r]
    BY <1>1, <1>2, <2>1
  <2> QED  BY <2>1, <2>2
<1> QED  BY <1>4, <1>5

LEMMA ImagesToGemini ==
  ASSUME NEW a, IsSeq(a.data), NEW b, b = openai_image_answer_to_gemini(a), b # Bad
  PROVE  SamePictures(b, a) /\ b.content.role = "model"
<1>1. PICK parts, v : parts = Drawn(TypeOf(a), a.data)
                      /\ v = Each(LAMBDA u : ToGeminiUsage(usage_to_counts("images", u)), a.usage)
  OBVIOUS
<1>2. b = [content |-> [role |-> "model", parts |-> parts], finishReason |-> "unset",
           usage |-> v, extra |-> FALSE]
  BY <1>1, Zenon DEF openai_image_answer_to_gemini, TypeOf, Drawn
<1>3. b.content.parts = parts /\ b.content.role = "model" /\ b.finishReason = "unset"
  BY <1>2
<1>4. /\ IsSeq(parts) /\ Len(parts) = Len(a.data)
      /\ \A k \in 1..Len(a.data) : parts[k].is = "inlineData"
                                     /\ parts[k].ref = <<TypeOf(a), a.data[k]>>
  BY <1>1, DrawnAre
<1> QED  BY <1>3, <1>4 DEF SamePictures

Bytes(parts) == Each(LAMBDA p : p.ref[2], parts)
Types(parts) == {parts[i].ref[1] : i \in DOMAIN parts}
FormatOf(parts) ==
  IF parts = <<>> THEN "unset" ELSE CHOOSE f \in Formats : Mime[f] \in Types(parts)
ImageUsages(usage) == Each(LAMBDA u : ToImageUsage(usage_to_counts("gemini", u)), usage)
AllPictures(parts) ==
  \A i \in DOMAIN parts : parts[i].is = "inlineData" /\ \E f \in Formats : parts[i].ref[1] = Mime[f]
LEMMA GeminiToImages ==
  ASSUME NEW a, Answered("gemini", a), NEW b, b = gemini_image_answer_to_openai(a), b # Bad
  PROVE  SamePictures(a, b)
<1>1. PICK parts : parts = a.content.parts /\ PlainParts(parts) /\ IsSeq(parts)
  BY PartsPlain DEF Answered, ContentForm, PartsForm
<1>2. PICK types, data, v :
        /\ types = Types(parts) /\ data = Bytes(parts) /\ v = ImageUsages(a.usage)
  OBVIOUS
<1>3. PICK format : format = FormatOf(parts)
  OBVIOUS
<1>4. /\ a.finishReason \in {"unset", "STOP"}
      /\ \A k \in DOMAIN parts : parts[k].is = "inlineData"
                                   /\ \E f \in Formats : parts[k].ref[1] = Mime[f]
      /\ \A t, u \in types : t = u
      /\ b = [data |-> data, format |-> format, usage |-> v, extra |-> FALSE]
  <2>1. b = IF \/ ~validate_gemini_safety_ratings(a) \/ a.finishReason \notin {"unset", "STOP"}
               \/ ~AllPictures(a.content.parts)
               \/ ~ \A t, u \in Types(a.content.parts) : t = u
               \/ ~AllCount(gemini_image_usage_counts, a.usage)
              THEN Bad
              ELSE [data |-> Bytes(a.content.parts), format |-> FormatOf(a.content.parts),
                    usage |-> ImageUsages(a.usage), extra |-> FALSE]
    BY Zenon DEF gemini_image_answer_to_openai, Bytes, Types, FormatOf, ImageUsages, AllPictures
  <2>2. /\ ~(a.finishReason \notin {"unset", "STOP"}) /\ AllPictures(parts)
        /\ \A t, u \in Types(parts) : t = u
        /\ b = [data |-> Bytes(parts), format |-> FormatOf(parts),
                usage |-> ImageUsages(a.usage), extra |-> FALSE]
    BY <1>1, <2>1, Zenon
  <2> QED  BY <1>2, <1>3, <2>2 DEF AllPictures
<1>5. b.data = data /\ b.format = format
  BY <1>4
<1>6. DOMAIN parts = 1..Len(parts)
  BY <1>1, SeqIs
<1>7. /\ IsSeq(data) /\ Len(data) = Len(parts)
      /\ \A k \in 1..Len(parts) : data[k] = parts[k].ref[2]
  <2>1. data = [k \in DOMAIN parts |-> parts[k].ref[2]]
    BY <1>2, Zenon DEF Bytes, Each
  <2>2. DOMAIN data = DOMAIN parts /\ data = [k \in DOMAIN data |-> data[k]]
    BY <2>1
  <2> QED  BY <1>1, <1>6, <2>1, <2>2, Imaged
<1>8. \A k \in 1..Len(parts) : parts[k].ref = <<parts[k].ref[1], parts[k].ref[2]>>
  BY <1>1, <1>4, <1>6 DEF Answered
<1>9. ASSUME NEW k \in 1..Len(parts) PROVE parts[k].ref[1] = TypeOf(b)
  <2>1. parts # <<>>
    BY <1>1, <1>9, Empty
  <2>2. parts[k].ref[1] \in types
    BY <1>2, <1>6 DEF Types
  <2>3. PICK f \in Formats : Mime[f] = parts[k].ref[1]
    BY <1>4, <1>6
  <2>4. format \in Formats /\ Mime[format] \in types
    BY <1>2, <1>3, <2>1, <2>2, <2>3 DEF FormatOf
  <2>5. format # "unset"
    BY <2>4 DEF Formats
  <2>6. TypeOf(b) = Mime[format]
    BY <1>5, <2>5 DEF TypeOf
  <2> QED  BY <1>4, <2>2, <2>4, <2>6
<1>10. \A k \in 1..Len(data) : /\ parts[k].is = "inlineData"
                               /\ parts[k].ref = <<TypeOf(b), data[k]>>
  <2>1. ASSUME NEW k \in 1..Len(data)
        PROVE  parts[k].is = "inlineData" /\ parts[k].ref = <<TypeOf(b), data[k]>>
    <3>1. k \in 1..Len(parts)
      BY <1>7, <2>1
    <3>2. parts[k].is = "inlineData"
      BY <1>4, <1>6, <3>1
    <3>3. parts[k].ref = <<parts[k].ref[1], parts[k].ref[2]>>
      BY <1>8, <3>1
    <3>4. parts[k].ref[1] = TypeOf(b)
      BY <1>9, <3>1
    <3>5. parts[k].ref[2] = data[k]
      BY <1>7, <3>1
    <3> QED  BY <3>2, <3>3, <3>4, <3>5
  <2> QED  BY <2>1
<1> QED  BY <1>1, <1>4, <1>5, <1>7, <1>10 DEF SamePictures

LEMMA PictureAnswered ==
  ASSUME NEW from \in Dialect, NEW to \in Dialect, "images" \in {from, to}, from # to,
         NEW a, Answered(from, a),
         NEW b, b = translate_image_response(from, to, a), b # Bad
  PROVE  /\ ReplyForm(to, b)
         /\ Rearranged(AnswerSpeech(to, b), AnswerSpeech(from, a)) /\ EndAlike(from, a, to, b)
<1>1. CASE from = "images" /\ to = "gemini"
  <2>1. b = openai_image_answer_to_gemini(a)
    BY <1>1 DEF translate_image_response
  <2>2. IsSeq(a.data)
    BY <1>1 DEF Answered
  <2>3. SamePictures(b, a) /\ b.content.role = "model"
    BY <2>1, <2>2, ImagesToGemini
  <2>4. /\ AnswerSpeech("gemini", b) = AnswerSpeech("images", a)
        /\ EndedBy("gemini", b) = "stop" /\ EndedBy("images", a) = "stop"
        /\ PlainParts(b.content.parts)
    BY <2>3, PicturesAlike
  <2>5. ContentForm(b.content)
    <3>1. PICK parts : parts = b.content.parts /\ PlainParts(parts) /\ IsSeq(parts)
                       /\ DOMAIN parts = 1..Len(parts)
                       /\ \A k \in 1..Len(parts) : parts[k].is = "inlineData"
      BY <2>3, <2>4, SeqIs DEF SamePictures
    <3>2. \A k \in DOMAIN parts : PartForm(parts[k])
      BY <3>1 DEF PartForm, PlainParts
    <3> QED  BY <3>1, <3>2 DEF ContentForm, PartsForm
  <2>6. ReplyForm(to, b)
    BY <1>1, <2>3, <2>5 DEF ReplyForm
  <2> QED  BY <1>1, <2>4, <2>6, SameIsRearranged DEF EndAlike
<1>2. CASE from = "gemini" /\ to = "images"
  <2>1. b = gemini_image_answer_to_openai(a)
    BY <1>2 DEF translate_image_response
  <2>2. SamePictures(a, b)
    BY <1>2, <2>1, GeminiToImages
  <2>3. /\ AnswerSpeech("gemini", a) = AnswerSpeech("images", b)
        /\ EndedBy("gemini", a) = "stop" /\ EndedBy("images", b) = "stop"
    BY <2>2, PicturesAlike
  <2>4. ReplyForm(to, b)
    BY <1>2, <2>2 DEF ReplyForm, SamePictures
  <2> QED  BY <1>2, <2>3, <2>4, SameIsRearranged DEF EndAlike
<1>3. CASE ~(from = "images" /\ to = "gemini") /\ ~(from = "gemini" /\ to = "images")
  <2>1. b = Bad
    BY <1>3 DEF translate_image_response
  <2> QED  BY <2>1
<1> QED  BY <1>1, <1>2, <1>3

-----------------------------------------------------------------------------
(* What a vendor answers has the form of a reply in its own dialect.       *)
LEMMA AnswerIsReply ==
  ASSUME NEW f \in Dialect, NEW a, Answered(f, a)
  PROVE  ReplyForm(f, a)
<1>1. CASE f = "chat"
  BY <1>1 DEF Answered, ReplyForm
<1>2. CASE f = "responses"
  <2>1. DOMAIN a.output = 1..Len(a.output)
    BY <1>2, SeqIs DEF Answered
  <2> QED  BY <1>2, <2>1 DEF Answered, ReplyForm
<1>3. CASE f = "anthropic"
  BY <1>3 DEF Answered, ReplyForm
<1>4. CASE f = "gemini"
  BY <1>4 DEF Answered, ReplyForm
<1>5. CASE f = "images"
  BY <1>5 DEF Answered, ReplyForm
<1> QED  BY <1>1, <1>2, <1>3, <1>4, <1>5 DEF Dialect, Format

-----------------------------------------------------------------------------
(* Turns a client may write one after the other.                           *)
TurnForms(f, turns) == IsSeq(turns) /\ \A i \in 1..Len(turns) : TurnForm(f, turns[i])

LEMMA NoTurns == ASSUME NEW f PROVE TurnForms(f, <<>>)
  BY Empty DEF TurnForms

LEMMA OneTurn ==
  ASSUME NEW f, NEW t, TurnForm(f, t)
  PROVE  TurnForms(f, <<t>>)
<1>1. IsSeq(<<t>>) /\ Len(<<t>>) = 1 /\ <<t>>[1] = t
  BY One
<1>2. PICK s : s = <<t>>
  OBVIOUS
<1>3. \A i \in 1..Len(s) : s[i] = t
  BY <1>1, <1>2
<1> QED  BY <1>1, <1>2, <1>3 DEF TurnForms

LEMMA TurnsJoined ==
  ASSUME NEW f, NEW s, NEW t, TurnForms(f, s), TurnForms(f, t)
  PROVE  TurnForms(f, s \o t)
<1>1. PICK T : T = {s[i] : i \in 1..Len(s)} \cup {t[i] : i \in 1..Len(t)}
  OBVIOUS
<1>2. /\ \A i \in 1..Len(s) : s[i] \in T
      /\ \A i \in 1..Len(t) : t[i] \in T
      /\ \A x \in T : TurnForm(f, x)
  BY <1>1 DEF TurnForms
<1>3. IsSeq(s \o t)
  BY Joined DEF TurnForms
<1>4. \A i \in 1..Len(s \o t) : (s \o t)[i] \in T
  BY <1>2, JoinedItems DEF TurnForms
<1> QED  BY <1>2, <1>3, <1>4 DEF TurnForms

(* What is made of every item of a sequence, one by one.                   *)
LEMMA TurnsEach ==
  ASSUME NEW f, NEW s, IsSeq(s), NEW t, DOMAIN t = DOMAIN s, t = [i \in DOMAIN t |-> t[i]],
         \A i \in 1..Len(s) : TurnForm(f, t[i])
  PROVE  TurnForms(f, t)
<1>1. IsSeq(t) /\ Len(t) = Len(s)
  BY Imaged
<1> QED  BY <1>1 DEF TurnForms

(* A document of Chat, of Responses, of Anthropic or of Gemini may be      *)
(* continued by turns of its kind.                                         *)
LEMMA Continued ==
  ASSUME NEW f \in Dialect, f # "images", NEW d, NEW s, Written(f, d), Worded(f, d), TurnForms(f, s),
         NEW e, e = [d EXCEPT !.turns = @ \o s]
  PROVE  Worded(f, e)
<1>1. PICK t : t = d.turns \o s
  OBVIOUS
<1>2. e = [d EXCEPT !.turns = t]
  BY <1>1
<1>3. d = Request(d.system, d.turns, d.settings)
  BY DEF Written
<1>4. e.turns = t /\ e.system = d.system
  BY <1>2, <1>3 DEF Request
<1>5. TurnForms(f, d.turns)
  <2>1. DOMAIN d.turns = 1..Len(d.turns) /\ IsSeq(d.turns)
    BY SeqIs DEF Worded
  <2> QED  BY <2>1 DEF Worded, TurnForms
<1>6. TurnForms(f, d.turns \o s)
  BY <1>5, TurnsJoined
<1>7. IsSeq(t) /\ DOMAIN t = 1..Len(t) /\ \A i \in DOMAIN t : TurnForm(f, t[i])
  BY <1>1, <1>6, SeqIs DEF TurnForms
<1> QED  BY <1>4, <1>7 DEF Worded

-----------------------------------------------------------------------------
(* A reply is taken into the document as turns of its dialect.             *)
TakenItem(i) ==
  CASE i.is = "function_call" ->
         [is |-> "function_call", id |-> i.id, name |-> i.name, args |-> i.args]
    [] i.is = "message" ->
         [is |-> "message", role |-> "assistant",
          content |-> Parts(<<[is |-> "output_text", text |-> i.text]>>)]
    [] OTHER -> [is |-> i.is]

LEMMA OutputText ==
  ASSUME NEW text, IsSeq(text), NEW c, c = Parts(<<[is |-> "output_text", text |-> text]>>)
  PROVE  Content(c) /\ PlainParts(c.parts)
<1>1. PICK p : p = [is |-> "output_text", text |-> text]
  OBVIOUS
<1>2. p.is = "output_text" /\ p.text = text
  BY <1>1
<1>3. PlainForm(p)
  BY <1>2 DEF PlainForm
<1>4. c = Parts(<<p>>)
  BY <1>1
<1>5. PlainParts(<<p>>)
  BY <1>3, SpokeOne
<1> QED  BY <1>4, <1>5, PartsContent

LEMMA TakenItemForm ==
  ASSUME NEW i, i.is # "function_call_output", (i.is = "message") => IsSeq(i.text),
         NEW t, t = TakenItem(i)
  PROVE  ItemForm(t)
<1>1. CASE i.is = "function_call"
  <2>1. t = [is |-> "function_call", id |-> i.id, name |-> i.name, args |-> i.args]
    BY <1>1 DEF TakenItem
  <2>2. t.is = "function_call"
    BY <2>1
  <2> QED  BY <2>2 DEF ItemForm
<1>2. CASE i.is = "message"
  <2>1. PICK c : c = Parts(<<[is |-> "output_text", text |-> i.text]>>)
    OBVIOUS
  <2>2. t = [is |-> "message", role |-> "assistant", content |-> c]
    BY <1>2, <2>1 DEF TakenItem
  <2>3. t.is = "message" /\ t.role = "assistant" /\ t.content = c
    BY <2>2
  <2>4. Content(c) /\ PlainParts(c.parts)
    BY <1>2, <2>1, OutputText
  <2> QED  BY <2>3, <2>4 DEF ItemForm
<1>3. CASE i.is # "function_call" /\ i.is # "message"
  <2>1. t = [is |-> i.is]
    BY <1>3 DEF TakenItem
  <2>2. t.is = i.is
    BY <2>1
  <2> QED  BY <1>3, <2>2 DEF ItemForm
<1> QED  BY <1>1, <1>2, <1>3

LEMMA TakenForms ==
  ASSUME NEW f \in Format, NEW b, ReplyForm(f, b)
  PROVE  TurnForms(f, Taken(f, b))
<1>1. CASE f = "chat"
  <2>1. Taken(f, b) = <<b.message>>
    BY <1>1 DEF Taken
  <2>2. TurnForm(f, b.message)
    BY <1>1 DEF ReplyForm, TurnForm
  <2> QED  BY <2>1, <2>2, OneTurn
<1>2. CASE f = "anthropic"
  <2>1. PICK c : c = Parts(b.content)
    OBVIOUS
  <2>2. PICK t : t = [role |-> "assistant", content |-> c]
    OBVIOUS
  <2>3. Taken(f, b) = <<t>>
    BY <1>2, <2>1, <2>2 DEF Taken
  <2>4. t.content = c
    BY <2>2
  <2>5. Content(c) /\ c.parts = b.content
    BY <2>1, PartsContent
  <2>6. TurnForm(f, t)
    BY <1>2, <2>4, <2>5 DEF ReplyForm, TurnForm
  <2> QED  BY <2>3, <2>6, OneTurn
<1>3. CASE f = "gemini"
  <2>1. Taken(f, b) = <<b.content>>
    BY <1>3 DEF Taken
  <2>2. TurnForm(f, b.content)
    BY <1>3 DEF ReplyForm, TurnForm
  <2> QED  BY <2>1, <2>2, OneTurn
<1>4. CASE f = "responses"
  <2>1. PICK o, t : o = b.output /\ t = [i \in DOMAIN o |-> TakenItem(o[i])]
    OBVIOUS
  <2>2. Taken(f, b) = t
    BY <1>4, <2>1 DEF Taken, Each, TakenItem
  <2>3. /\ IsSeq(o)
        /\ \A i \in 1..Len(o) : /\ o[i].is # "function_call_output"
                                /\ o[i].is = "message" => IsSeq(o[i].text)
    BY <1>4, <2>1 DEF ReplyForm
  <2>4. DOMAIN t = DOMAIN o /\ t = [i \in DOMAIN t |-> t[i]] /\ DOMAIN o = 1..Len(o)
    BY <2>1, <2>3, SeqIs
  <2>5. ASSUME NEW i \in 1..Len(o)
        PROVE  TurnForm(f, t[i])
    <3>1. t[i] = TakenItem(o[i])
      BY <2>1, <2>4
    <3>2. ItemForm(t[i])
      BY <2>3, <3>1, TakenItemForm
    <3> QED  BY <1>4, <3>2 DEF TurnForm
  <2>6. TurnForms(f, t)
    BY <2>3, <2>4, <2>5, TurnsEach
  <2> QED  BY <2>2, <2>6
<1> QED  BY <1>1, <1>2, <1>3, <1>4 DEF Format

-----------------------------------------------------------------------------
(* The results of its calls are turns of its dialect too.                  *)
ToolResult(c) ==
  [is |-> "tool_result", id |-> c.id, error |-> FALSE, content |-> Str(<<"done">>)]
FunctionResponse(c) ==
  [is |-> "functionResponse", id |-> c.id, name |-> c.name, response |-> [json |-> "{json}"]]
CallOutput(c) == [is |-> "function_call_output", id |-> c.id, text |-> <<"done">>]

LEMMA DoneForms ==
  ASSUME NEW c
  PROVE  /\ PartForm(ToolResult(c)) /\ PartForm(FunctionResponse(c)) /\ ItemForm(CallOutput(c))
         /\ FunctionResponse(c).is = "functionResponse"
         /\ \A name : ChatForm(Result(c.id, name, Str(<<"done">>)))
<1>1. PICK text : text = <<"done">> /\ IsSeq(text)
  BY One
<1>2. PICK d : d = Str(text) /\ Content(d) /\ PlainParts(d.parts)
  BY <1>1, TextOfStr
<1>3. PICK p : p = ToolResult(c)
  OBVIOUS
<1>4. p.is = "tool_result" /\ p.content = d /\ p.error = FALSE
  BY <1>1, <1>2, <1>3 DEF ToolResult
<1>5. PartForm(p)
  BY <1>2, <1>4 DEF PartForm, PlainForm
<1>6. PICK r : r = [json |-> "{json}"]
  OBVIOUS
<1>7. PICK q : q = FunctionResponse(c)
  OBVIOUS
<1>8. q.is = "functionResponse" /\ q.response = r
  BY <1>6, <1>7 DEF FunctionResponse
<1>9. PartForm(q)
  BY <1>6, <1>8 DEF PartForm, PlainForm
<1>10. PICK o : o = CallOutput(c)
  OBVIOUS
<1>11. o.is = "function_call_output" /\ o.text = text
  BY <1>1, <1>10 DEF CallOutput
<1>12. ItemForm(o)
  BY <1>1, <1>11 DEF ItemForm
<1>13. \A name : ChatForm(Result(c.id, name, Str(text)))
  BY <1>1, ResultSays
<1> QED  BY <1>1, <1>3, <1>5, <1>7, <1>8, <1>9, <1>10, <1>12, <1>13

LEMMA PartsEach ==
  ASSUME NEW s, IsSeq(s), NEW t, DOMAIN t = DOMAIN s, t = [i \in DOMAIN t |-> t[i]],
         \A i \in DOMAIN s : PartForm(t[i])
  PROVE  PartsForm(t)
  BY Imaged DEF PartsForm

ChatResult(c, named) == Result(c.id, IF named THEN c.name ELSE "", Str(<<"done">>))

LEMMA ResultsForms ==
  ASSUME NEW f \in Format, NEW calls, IsSeq(calls), NEW named
  PROVE  TurnForms(f, ResultsOf(f, calls, named))
<1>1. DOMAIN calls = 1..Len(calls)
  BY SeqIs
<1>2. CASE f = "chat"
  <2>1. PICK t : t = [i \in DOMAIN calls |-> ChatResult(calls[i], named)]
    OBVIOUS
  <2>2. ResultsOf(f, calls, named) = t
    BY <1>2, <2>1, Zenon DEF ResultsOf, Each, ChatResult
  <2>3. DOMAIN t = DOMAIN calls /\ t = [i \in DOMAIN t |-> t[i]]
    BY <2>1
  <2>4. ASSUME NEW i \in 1..Len(calls)
        PROVE  TurnForm(f, t[i])
    <3>1. t[i] = ChatResult(calls[i], named)
      BY <1>1, <2>1
    <3>2. ChatForm(t[i])
      BY <3>1, DoneForms, Zenon DEF ChatResult
    <3> QED  BY <1>2, <3>2 DEF TurnForm
  <2> QED  BY <2>2, <2>3, <2>4, TurnsEach
<1>3. CASE f = "responses"
  <2>1. PICK t : t = [i \in DOMAIN calls |-> CallOutput(calls[i])]
    OBVIOUS
  <2>2. ResultsOf(f, calls, named) = t
    BY <1>3, <2>1, Zenon DEF ResultsOf, Each, CallOutput
  <2>3. DOMAIN t = DOMAIN calls /\ t = [i \in DOMAIN t |-> t[i]]
    BY <2>1
  <2>4. ASSUME NEW i \in 1..Len(calls)
        PROVE  TurnForm(f, t[i])
    <3>1. t[i] = CallOutput(calls[i])
      BY <1>1, <2>1
    <3>2. ItemForm(t[i])
      BY <3>1, DoneForms
    <3> QED  BY <1>3, <3>2 DEF TurnForm
  <2> QED  BY <2>2, <2>3, <2>4, TurnsEach
<1>4. CASE f = "anthropic" /\ calls # <<>>
  <2>1. PICK ps : ps = [i \in DOMAIN calls |-> ToolResult(calls[i])]
    OBVIOUS
  <2>2. PICK t : t = [role |-> "user", content |-> Parts(ps)]
    OBVIOUS
  <2>3. ResultsOf(f, calls, named) = <<t>>
    BY <1>4, <2>1, <2>2, Zenon DEF ResultsOf, Each, ToolResult
  <2>4. DOMAIN ps = DOMAIN calls /\ ps = [i \in DOMAIN ps |-> ps[i]]
    BY <2>1
  <2>5. \A i \in DOMAIN calls : PartForm(ps[i])
    BY <2>1, DoneForms
  <2>6. PartsForm(ps)
    BY <2>4, <2>5, PartsEach
  <2>7. t.content = Parts(ps)
    BY <2>2
  <2>8. TurnForm(f, t)
    BY <1>4, <2>6, <2>7, PartsContent DEF TurnForm
  <2> QED  BY <2>3, <2>8, OneTurn
<1>5. CASE f = "gemini" /\ calls # <<>>
  <2>1. PICK ps : ps = [i \in DOMAIN calls |-> FunctionResponse(calls[i])]
    OBVIOUS
  <2>2. PICK t : t = [role |-> "user", parts |-> ps]
    OBVIOUS
  <2>3. ResultsOf(f, calls, named) = <<t>>
    BY <1>5, <2>1, <2>2, Zenon DEF ResultsOf, Each, FunctionResponse
  <2>4. DOMAIN ps = DOMAIN calls /\ ps = [i \in DOMAIN ps |-> ps[i]]
    BY <2>1
  <2>5. \A i \in DOMAIN calls : PartForm(ps[i]) /\ ps[i].is = "functionResponse"
    BY <2>1, DoneForms
  <2>6. PartsForm(ps)
    BY <2>4, <2>5, PartsEach
  <2>7. t.parts = ps /\ t.role = "user"
    BY <2>2
  <2>8. TurnForm(f, t)
    BY <1>5, <2>4, <2>5, <2>6, <2>7 DEF TurnForm, ContentForm
  <2> QED  BY <2>3, <2>8, OneTurn
<1>6. CASE f \in {"anthropic", "gemini"} /\ calls = <<>>
  <2>1. ResultsOf(f, calls, named) = <<>>
    BY <1>6 DEF ResultsOf
  <2> QED  BY <2>1, NoTurns
<1> QED  BY <1>2, <1>3, <1>4, <1>5, <1>6 DEF Format

-----------------------------------------------------------------------------
(* What a reply says is a sequence, and so are its calls.                  *)
LEMMA ReplySpeechSeq ==
  ASSUME NEW f \in Format, NEW b, ReplyForm(f, b)
  PROVE  IsSeq(AnswerSpeech(f, b)) /\ IsSeq(CallsIn(f, b))
<1>1. IsSeq(AnswerSpeech(f, b))
  <2>1. CASE f = "chat"
    BY <2>1, ChatTurnSays DEF ReplyForm, AnswerSpeech
  <2>2. CASE f = "anthropic"
    <3>1. PlainParts(b.content)
      BY <2>2, PartsPlain DEF ReplyForm
    <3> QED  BY <2>2, <3>1, SpokeSeq DEF AnswerSpeech
  <2>3. CASE f = "gemini"
    <3>1. PlainParts(b.content.parts)
      BY <2>3, PartsPlain DEF ReplyForm, ContentForm
    <3> QED  BY <2>3, <3>1, SpokeSeq DEF AnswerSpeech
  <2>4. CASE f = "responses"
    <3>1. PICK o : o = b.output
      OBVIOUS
    <3>2. IsSeq(o) /\ \A i \in 1..Len(o) : (o[i].is = "message" => IsSeq(o[i].text))
      BY <2>4, <3>1 DEF ReplyForm
    <3>3. PICK T : T = {o[i] : i \in 1..Len(o)}
      OBVIOUS
    <3>4. PICK g : g = [i \in T |-> Output(i)]
      OBVIOUS
    <3>5. \A i \in 1..Len(o) : o[i] \in T
      BY <3>3
    <3>6. AnswerSpeech("responses", b) = Chained(o, g)
      BY <3>1, <3>2, <3>4, <3>5, OutputSaid
    <3>7. \A i \in 1..Len(o) : IsSeq(Output(o[i]))
      BY <3>2, OutputSeq
    <3>8. \A i \in 1..Len(o) : IsSeq(g[o[i]])
      BY <3>4, <3>5, <3>7
    <3>9. IsSeq(Chained(o, g))
      BY <3>2, <3>8, ChainLists
    <3> QED  BY <2>4, <3>6, <3>9
  <2> QED  BY <2>1, <2>2, <2>3, <2>4 DEF Format
<1>2. IsSeq(Kind(AnswerSpeech(f, b), Dealing))
  BY <1>1, KindJoin, Empty
<1> QED  BY <1>1, <1>2, ProseIs DEF CallsIn

(* What a step leaves of the words: the document is one a client of its    *)
(* dialect may write, what is asked says the same, what is answered is an  *)
(* answer, and what is replied says that answer.                           *)
Said(from, d, to, body) ==
  IF "images" \in {from, to}
    THEN /\ TurnsGood(to, body.turns)
         /\ (from = "gemini" => d.turns[1].role = "user") => Speech(to, body) = Speech(from, d)
    ELSE SaysAlike(from, d, to, body)

Replied(from, a, to, b) ==
  (KeepsAnswer(from, to, a) \/ "images" \in {from, to}) =>
    Rearranged(AnswerSpeech(to, b), AnswerSpeech(from, a)) /\ EndAlike(from, a, to, b)

WordsInvariant ==
  /\ client \in Dialect /\ Written(client, doc) /\ Worded(client, doc)
  /\ stage \in {"asked", "answered", "replied"} => upstream \in Dialect
  /\ stage = "asked" /\ upstream # client => Said(client, doc, upstream, asked.body)
  /\ stage = "answered" => Answered(upstream, answer)
  /\ stage = "replied" =>
       /\ ReplyForm(client, reply)
       /\ upstream # client => Replied(upstream, answer, client, reply)

LEMMA SentIsSaid ==
  ASSUME NEW from \in Dialect, NEW to \in Dialect, from # to, NEW d, Written(from, d),
         Worded(from, d), d.turns # <<>>, NEW context,
         NEW sent, sent = IF "images" \in {from, to}
                            THEN translate_image_request(from, to, context, d)
                            ELSE translate_request(from, to, context, d),
         sent # Bad
  PROVE  Said(from, d, to, sent.body)
<1>1. CASE "images" \in {from, to}
  <2>1. sent = translate_image_request(from, to, context, d)
    BY <1>1
  <2>2. /\ TurnsGood(to, sent.body.turns)
        /\ (from = "gemini" => d.turns[1].role = "user") =>
             Speech(to, sent.body) = Speech(from, d)
    BY <1>1, <2>1, PictureSaid
  <2> QED  BY <1>1, <2>2 DEF Said
<1>2. CASE "images" \notin {from, to}
  <2>1. sent = translate_request(from, to, context, d) /\ from \in Format /\ to \in Format
    BY <1>2 DEF Dialect
  <2>2. SaysAlike(from, d, to, sent.body)
    BY <2>1, TextSaid
  <2> QED  BY <1>2, <2>2 DEF Said
<1> QED  BY <1>1, <1>2

LEMMA AnswerIsReplied ==
  ASSUME NEW from \in Dialect, NEW to \in Dialect, NEW a, Answered(from, a),
         NEW b, b = IF "images" \in {to, from} THEN translate_image_response(from, to, a)
                      ELSE translate_response(from, to, a),
         b # Bad
  PROVE  ReplyForm(to, b) /\ (from # to => Replied(from, a, to, b))
<1>1. CASE from = to
  <2>1. b = a
    BY <1>1 DEF translate_response, translate_image_response
  <2> QED  BY <1>1, <2>1, AnswerIsReply
<1>2. CASE from # to /\ "images" \in {from, to}
  <2>1. b = translate_image_response(from, to, a)
    BY <1>2
  <2>2. /\ ReplyForm(to, b)
        /\ Rearranged(AnswerSpeech(to, b), AnswerSpeech(from, a)) /\ EndAlike(from, a, to, b)
    BY <1>2, <2>1, PictureAnswered
  <2> QED  BY <2>2 DEF Replied
<1>3. CASE from # to /\ "images" \notin {from, to}
  <2>1. b = translate_response(from, to, a) /\ from \in Format /\ to \in Format
    BY <1>3 DEF Dialect
  <2>2. /\ ReplyForm(to, b)
        /\ KeepsAnswer(from, to, a) =>
             /\ Rearranged(AnswerSpeech(to, b), AnswerSpeech(from, a))
             /\ EndAlike(from, a, to, b)
    BY <1>3, <2>1, TextAnswered
  <2> QED  BY <1>3, <2>2 DEF Replied
<1> QED  BY <1>1, <1>2, <1>3

(* A document that goes on with a reply and the results of its calls is    *)
(* one its client may write.                                               *)
LEMMA GoesOn ==
  ASSUME NEW f \in Format, NEW d, Written(f, d), Worded(f, d), NEW b, ReplyForm(f, b), NEW named,
         NEW e, e = [d EXCEPT !.turns = @ \o (Taken(f, b) \o ResultsOf(f, CallsIn(f, b), named))]
  PROVE  Worded(f, e)
<1>1. PICK s : s = Taken(f, b) \o ResultsOf(f, CallsIn(f, b), named)
  OBVIOUS
<1>2. TurnForms(f, Taken(f, b))
  BY TakenForms
<1>3. TurnForms(f, ResultsOf(f, CallsIn(f, b), named))
  BY ReplySpeechSeq, ResultsForms
<1>4. TurnForms(f, s)
  BY <1>1, <1>2, <1>3, TurnsJoined
<1>5. e = [d EXCEPT !.turns = @ \o s] /\ f \in Dialect /\ f # "images"
  BY <1>1 DEF Format, Dialect
<1> QED  BY <1>4, <1>5, Continued

LEMMA WordsInvariantHolds == Spec => []WordsInvariant
<1>1. Init => WordsInvariant
  BY DEF Init, WordsInvariant
<1>2. WordsInvariant /\ [Next]_vars => WordsInvariant'
  <2> SUFFICES ASSUME WordsInvariant, [Next]_vars
               PROVE  WordsInvariant'
    OBVIOUS
  <2>1. CASE Write
    <3>1. /\ stage' = "writing" /\ UNCHANGED client
          /\ \E turn : /\ doc' = [doc EXCEPT !.turns = Append(@, turn)]
                       /\ Worded(client, doc')
      BY <2>1, Zenon DEF Write
    <3>2. PICK turns : doc' = [doc EXCEPT !.turns = turns] /\ Worded(client, doc')
      BY <3>1
    <3>3. Written(client, doc')
      BY <3>2, StillWritten DEF WordsInvariant
    <3> QED  BY <3>1, <3>2, <3>3 DEF WordsInvariant
  <2>2. ASSUME NEW to \in Dialect, Ask(to)
        PROVE  WordsInvariant'
    <3> DEFINE sent == IF "images" \in {client, to}
                         THEN translate_image_request(client, to, Context, doc)
                         ELSE translate_request(client, to, Context, doc)
    <3>1. /\ upstream' = to /\ doc.turns # <<>>
          /\ \/ stage' = "refused"
             \/ stage' = "asked" /\ asked' = sent /\ sent # Bad
          /\ UNCHANGED <<client, doc>>
      BY <2>2, Zenon DEF Ask
    <3>2. sent # Bad /\ to # client => Said(client, doc, to, sent.body)
      BY <3>1, SentIsSaid DEF WordsInvariant
    <3> HIDE DEF sent
    <3> QED  BY <3>1, <3>2 DEF WordsInvariant
  <2>3. CASE Respond
    <3>1. /\ stage = "asked" /\ stage' = "answered" /\ Answered(upstream, answer')
          /\ UNCHANGED <<client, doc, upstream>>
      BY <2>3 DEF Respond
    <3> QED  BY <3>1 DEF WordsInvariant
  <2>4. CASE Return
    <3> DEFINE back == IF "images" \in {client, upstream}
                         THEN translate_image_response(upstream, client, answer)
                         ELSE translate_response(upstream, client, answer)
    <3>1. /\ stage = "answered"
          /\ \/ stage' = "failed"
             \/ stage' = "replied" /\ reply' = back /\ back # Bad
          /\ UNCHANGED <<client, doc, upstream, answer>>
      BY <2>4, Zenon DEF Return
    <3>2. back # Bad => /\ ReplyForm(client, back)
                        /\ upstream # client => Replied(upstream, answer, client, back)
      BY <3>1, AnswerIsReplied DEF WordsInvariant
    <3> HIDE DEF back
    <3> QED  BY <3>1, <3>2 DEF WordsInvariant
  <2>5. CASE Continue
    <3>1. /\ stage = "replied" /\ client # "images" /\ stage' = "writing" /\ UNCHANGED client
          /\ \E named \in BOOLEAN :
               doc' = [doc EXCEPT !.turns =
                         @ \o (Taken(client, reply)
                                 \o ResultsOf(client, CallsIn(client, reply), named))]
      BY <2>5, Zenon DEF Continue
    <3>2. client \in Format /\ ReplyForm(client, reply)
      BY <3>1 DEF WordsInvariant, Dialect
    <3>3. Worded(client, doc')
      BY <3>1, <3>2, GoesOn DEF WordsInvariant
    <3>4. Written(client, doc')
      <4>1. \E turns : doc' = [doc EXCEPT !.turns = turns]
        BY <3>1, Zenon
      <4> QED  BY <4>1, StillWritten DEF WordsInvariant
    <3> QED  BY <3>1, <3>3, <3>4 DEF WordsInvariant
  <2>6. CASE UNCHANGED vars
    BY <2>6 DEF vars, WordsInvariant
  <2> QED  BY <2>1, <2>2, <2>3, <2>4, <2>5, <2>6 DEF Next
<1> QED  BY <1>1, <1>2, PTL DEF Spec

-----------------------------------------------------------------------------
(* TargetAccepts of every conversation, for documents of any length and    *)
(* contents of any number of parts: whatever the client's turns are, the   *)
(* messages push_anthropic_message merges take turns, no content           *)
(* chat_message_to_gemini writes is empty and every result in it names its *)
(* function; and the settings are those SettingsAccepted has.              *)
THEOREM TargetAcceptsHeld == Spec => []TargetAccepts
<1>1. WordsInvariant => TurnsAccepted
  <2> SUFFICES ASSUME WordsInvariant, stage = "asked", upstream # client
               PROVE  TurnsAccepted
    BY DEF TurnsAccepted, Crossed
  <2>1. Said(client, doc, upstream, asked.body)
    BY DEF WordsInvariant
  <2>2. TurnsGood(upstream, asked.body.turns)
    BY <2>1 DEF Said, SaysAlike
  <2> QED  BY <2>2 DEF TurnsGood, TurnsAccepted
<1>2. SettingsAccepted /\ TurnsAccepted => TargetAccepts
  BY DEF TargetAccepts
<1> QED  BY <1>1, <1>2, WordsInvariantHolds, SettingsAcceptedHeld, PTL

(* SpeechKept of every conversation: what a request says in the dialect of *)
(* its target - every text, image, call and result, with its speaker - is  *)
(* what the client's document says, in its order or, where Chat cannot     *)
(* keep the order, in that of its prose and of its calls and results; for  *)
(* all twelve pairs of text dialects through both halves of                *)
(* translate_request, and for pictures through translate_image_request.    *)
THEOREM SpeechKeptHeld == Spec => []SpeechKept
<1>1. WordsInvariant => SpeechKept
  <2> SUFFICES ASSUME WordsInvariant, stage = "asked", upstream # client,
                      ~LosesResultParts, ~LosesLabel, ~LosesFileType, ~LosesPrompter
               PROVE  /\ Rearranged(Speech(upstream, asked.body), Speech(client, doc))
                      /\ ~Reorders => Speech(upstream, asked.body) = Speech(client, doc)
    BY DEF SpeechKept, Crossed, Rearranged
  <2>1. Said(client, doc, upstream, asked.body) /\ client \in Dialect /\ Worded(client, doc)
    BY DEF WordsInvariant
  <2>2. CASE "images" \in {client, upstream}
    <3>1. client = "gemini" => doc.turns[1].role = "user"
      BY <2>2 DEF LosesPrompter
    <3>2. Speech(upstream, asked.body) = Speech(client, doc)
      BY <2>1, <2>2, <3>1 DEF Said
    <3> QED  BY <3>2, SameIsRearranged
  <2>3. CASE "images" \notin {client, upstream}
    <3>1. SaysAlike(client, doc, upstream, asked.body)
      BY <2>1, <2>3 DEF Said
    <3>2. InHubTypes(client, doc)
      BY DEF InHubTypes, Typeless, LosesFileType
    <3>3. ChatTidy(client, upstream, doc)
      <4> SUFFICES ASSUME client = "chat", upstream \in {"responses", "gemini"}
                   PROVE  AllTidy(doc.turns)
        BY DEF ChatTidy
      <4>1. DOMAIN doc.turns = 1..Len(doc.turns)
        BY <2>1, SeqIs DEF Worded
      <4>2. \A i \in DOMAIN doc.turns :
              /\ doc.turns[i].role = "tool" => doc.turns[i].content.form # "parts"
              /\ doc.turns[i].role # "tool" => Unnamed(doc.turns[i])
        BY Zenon DEF LosesResultParts, LosesLabel, Unnamed
      <4>3. \A i \in DOMAIN doc.turns : Tidy(doc.turns[i])
        BY <4>2, Zenon DEF Tidy, Unnamed
      <4> QED  BY <4>1, <4>3 DEF AllTidy
    <3>4. ~Reorders => InHubOrder(client, doc)
      <4>1. CASE client = "anthropic"
        <5>1. ASSUME ~Reorders, NEW i \in DOMAIN doc.turns
              PROVE  InOrder(doc.turns[i].content.parts)
          <6> DEFINE p == doc.turns[i].content.parts
          <6>1. ~ \E j, k \in DOMAIN p : j < k /\ p[j].is = "tool_use" /\ p[k].is = "text"
            BY <4>1, <5>1, ZenonT(30) DEF Reorders
          <6> QED  BY <6>1, Zenon DEF InOrder
        <5> QED  BY <4>1, <5>1 DEF InHubOrder
      <4>2. CASE client = "gemini"
        <5>1. ~Reorders => \A i \in DOMAIN doc.turns : Sequenced(doc.turns[i].parts)
          BY <4>2, Zenon DEF Reorders, Sequenced
        <5> QED  BY <4>2, <5>1 DEF InHubOrder
      <4> QED  BY <4>1, <4>2 DEF InHubOrder
    <3> QED  BY <3>1, <3>2, <3>3, <3>4 DEF SaysAlike
  <2> QED  BY <2>2, <2>3
<1> QED  BY <1>1, WordsInvariantHolds, PTL

(* AnswerKept of every conversation: the reply says what the upstream      *)
(* answered, text and pictures in their order and calls in theirs, and     *)
(* ends for the same reason where the client's dialect has it; for every   *)
(* answer a vendor may give, through both halves of translate_response and *)
(* through translate_image_response.                                       *)
THEOREM AnswerKeptHeld == Spec => []AnswerKept
<1>1. WordsInvariant => AnswerKept
  <2> SUFFICES ASSUME WordsInvariant, stage = "replied", upstream # client,
                      ~LosesAnswerParts, ~LosesAnswerType
               PROVE  /\ Rearranged(AnswerSpeech(client, reply), AnswerSpeech(upstream, answer))
                      /\ EndAlike(upstream, answer, client, reply)
    BY DEF AnswerKept, Crossed, Rearranged, EndAlike
  <2>1. /\ Replied(upstream, answer, client, reply)
        /\ client \in Dialect /\ upstream \in Dialect
    BY DEF WordsInvariant
  <2>2. KeepsAnswer(upstream, client, answer) \/ "images" \in {upstream, client}
    <3> SUFFICES ASSUME upstream = "gemini", client # "images"
                 PROVE  IF client = "chat" THEN Typeless(answer.content.parts)
                          ELSE OneText(answer.content.parts)
      BY DEF KeepsAnswer
    <3>1. CASE client = "chat"
      BY <3>1 DEF LosesAnswerType, Typeless
    <3>2. CASE client # "chat"
      <4>1. client \in {"anthropic", "responses"}
        BY <2>1, <3>2 DEF Dialect, Format
      <4> QED  BY <3>2, <4>1, Zenon DEF LosesAnswerParts, OneText
    <3> QED  BY <3>1, <3>2
  <2> QED  BY <2>1, <2>2 DEF Replied
<1> QED  BY <1>1, WordsInvariantHolds, PTL

-----------------------------------------------------------------------------
(* The whole request, settings and all: a client whose document is taken,  *)
(* and whose settings are, is not refused.                                 *)

(* What the translation makes of the settings, apart from the turns.       *)
FromResponsesFields(s) ==
  Fields(<<Copy(s, "max_output_tokens", "max_completion_tokens"),
           Keep(s, {"model", "temperature"}),
           EachMapped(s, "tools", responses_tools_to_chat),
           Mapped(s, "tool_choice", "tool_choice", responses_tool_choice_to_chat)>>)
FromAnthropicFields(s) ==
  Fields(<<Keep(s, {"model", "max_tokens", "temperature"}),
           Copy(s, "stop_sequences", "stop"), Copy(s, "user_id", "user"),
           EachMapped(s, "tools", convert_anthropic_tools),
           Mapped(s, "tool_choice", "tool_choice", anthropic_tool_choice_to_openai),
           IF Has(s, "tool_choice") /\ s["tool_choice"].disable
             THEN Just("parallel_tool_calls", FALSE) ELSE <<>>>>)
FromGeminiFields(model, s) ==
  Fields(<<Just("model", model),
           Copy(s, "maxOutputTokens", "max_completion_tokens"),
           Keep(s, {"temperature"}), Copy(s, "stopSequences", "stop"),
           EachMapped(s, "tools", gemini_tools_to_chat),
           Mapped(s, "toolConfig", "tool_choice", gemini_tool_choice_to_chat)>>)

LEMMA ResponsesHubIs ==
  ASSUME NEW r
  PROVE  responses_to_chat(r)
           = IF ~Only(r.settings, {"model", "max_output_tokens", "tools", "tool_choice",
                                   "temperature"})
               THEN Bad
               ELSE Request(<<>>, responses_input_to_chat(r.turns, Instructions(r.system)),
                            FromResponsesFields(r.settings))
BY Zenon DEF responses_to_chat, Instructions, FromResponsesFields

LEMMA AnthropicHubIs ==
  ASSUME NEW r
  PROVE  anthropic_to_openai_chat(r)
           = IF \/ ~Only(r.settings, {"model", "max_tokens", "tools", "tool_choice",
                                      "temperature", "stop_sequences", "user_id"})
                \/ ~Has(r.settings, "max_tokens") \/ Prompt(r.system) \o r.turns = <<>>
               THEN Bad
               ELSE Request(<<>>, AnthropicHub(r), FromAnthropicFields(r.settings))
BY Zenon DEF anthropic_to_openai_chat, AnthropicHub, Prompt, FromAnthropicFields

LEMMA GeminiHubIs ==
  ASSUME NEW r, NEW model
  PROVE  gemini_to_chat(model, r)
           = IF ~Only(r.settings, {"maxOutputTokens", "temperature", "stopSequences", "tools",
                                   "toolConfig"})
               THEN Bad
               ELSE Request(<<>>, GeminiDoc(r), FromGeminiFields(model, r.settings))
BY Zenon DEF gemini_to_chat, GeminiDoc, Prompt, FromGeminiFields

(* The hub's settings are those of the document, whatever its turns are.   *)
SameFrame(e, d) == e.settings = d.settings /\ e.system = d.system

AtHub(c, d, hub, e, more) ==
  \E s : hub = Request(<<>>, HubDoc(c, d), s) /\ more = Request(<<>>, HubDoc(c, e), s)

LEMMA ResponsesAgain ==
  ASSUME NEW d, NEW e, SameFrame(e, d), responses_to_chat(d) # Bad
  PROVE  AtHub("responses", d, responses_to_chat(d), e, responses_to_chat(e))
<1>1. PICK s : s = d.settings /\ s = e.settings
  BY DEF SameFrame
<1>2. responses_to_chat(d) = Request(<<>>, HubDoc("responses", d), FromResponsesFields(s))
  BY <1>1, ResponsesHubIs DEF HubDoc
<1>3. responses_to_chat(e) = Request(<<>>, HubDoc("responses", e), FromResponsesFields(s))
  BY <1>1, ResponsesHubIs DEF HubDoc
<1> QED  BY <1>2, <1>3 DEF AtHub

LEMMA AnthropicAgain ==
  ASSUME NEW d, NEW e, SameFrame(e, d), anthropic_to_openai_chat(d) # Bad,
         Prompt(e.system) \o e.turns # <<>>
  PROVE  AtHub("anthropic", d, anthropic_to_openai_chat(d), e, anthropic_to_openai_chat(e))
<1>1. PICK s : s = d.settings /\ s = e.settings
  BY DEF SameFrame
<1>2. anthropic_to_openai_chat(d) = Request(<<>>, HubDoc("anthropic", d), FromAnthropicFields(s))
  BY <1>1, AnthropicHubIs DEF HubDoc
<1>3. anthropic_to_openai_chat(e) = Request(<<>>, HubDoc("anthropic", e), FromAnthropicFields(s))
  BY <1>1, AnthropicHubIs DEF HubDoc
<1> QED  BY <1>2, <1>3 DEF AtHub

LEMMA GeminiAgain ==
  ASSUME NEW d, NEW e, SameFrame(e, d), NEW model, gemini_to_chat(model, d) # Bad
  PROVE  AtHub("gemini", d, gemini_to_chat(model, d), e, gemini_to_chat(model, e))
<1>1. PICK s : s = d.settings /\ s = e.settings
  BY DEF SameFrame
<1>2. gemini_to_chat(model, d) = Request(<<>>, HubDoc("gemini", d), FromGeminiFields(model, s))
  BY <1>1, GeminiHubIs DEF HubDoc
<1>3. gemini_to_chat(model, e) = Request(<<>>, HubDoc("gemini", e), FromGeminiFields(model, s))
  BY <1>1, GeminiHubIs DEF HubDoc
<1> QED  BY <1>2, <1>3 DEF AtHub

CleanOf(from, d) == Request(d.system, d.turns, Drop(d.settings, TakenOut(from)))

LEMMA HubCleaned ==
  ASSUME NEW from \in Format, NEW d, Formed(d), NEW context,
         NEW hub, hub = request_to_chat(from, context, d), hub # Bad
  PROVE  /\ ~AnyBad(extract_reasoning(from, d.settings))
         /\ hub = CASE from = "chat" -> CleanOf(from, d)
                    [] from = "responses" -> responses_to_chat(CleanOf(from, d))
                    [] from = "anthropic" -> anthropic_to_openai_chat(CleanOf(from, d))
                    [] from = "gemini" -> gemini_to_chat(context.source_model, CleanOf(from, d))
<1>1. [d EXCEPT !.settings = Drop(@, TakenOut(from))] = CleanOf(from, d)
  BY DEF Formed, Request, CleanOf
<1> QED  BY <1>1, Zenon DEF request_to_chat, TakenOut

LEMMA CleanedHub ==
  ASSUME NEW from \in Format, NEW d, Formed(d), NEW context,
         ~AnyBad(extract_reasoning(from, d.settings))
  PROVE  request_to_chat(from, context, d)
           = CASE from = "chat" -> CleanOf(from, d)
               [] from = "responses" -> responses_to_chat(CleanOf(from, d))
               [] from = "anthropic" -> anthropic_to_openai_chat(CleanOf(from, d))
               [] from = "gemini" -> gemini_to_chat(context.source_model, CleanOf(from, d))
<1>1. [d EXCEPT !.settings = Drop(@, TakenOut(from))] = CleanOf(from, d)
  BY DEF Formed, Request, CleanOf
<1> QED  BY <1>1, Zenon DEF request_to_chat, TakenOut

LEMMA CleanIs ==
  ASSUME NEW from, NEW d
  PROVE  /\ CleanOf(from, d).system = d.system /\ CleanOf(from, d).turns = d.turns
         /\ CleanOf(from, d).settings = Drop(d.settings, TakenOut(from))
         /\ HubDoc(from, CleanOf(from, d)) = HubDoc(from, d)
<1>1. /\ CleanOf(from, d).system = d.system /\ CleanOf(from, d).turns = d.turns
      /\ CleanOf(from, d).settings = Drop(d.settings, TakenOut(from))
  BY DEF CleanOf, Request
<1>2. HubDoc(from, CleanOf(from, d)) = HubDoc(from, d)
  BY <1>1, Zenon DEF HubDoc, AnthropicHub, GeminiDoc
<1> QED  BY <1>1, <1>2

LEMMA HubAgain ==
  ASSUME NEW c \in Format, NEW d, Formed(d), Worded(c, d), NEW e, Formed(e), SameFrame(e, d),
         IsSeq(e.turns), e.turns # <<>>, NEW context,
         NEW hub, hub = request_to_chat(c, context, d), hub # Bad,
         NEW more, more = request_to_chat(c, context, e)
  PROVE  AtHub(c, d, hub, e, more)
<1>1. PICK k, l : k = CleanOf(c, d) /\ l = CleanOf(c, e)
  OBVIOUS
<1>2. /\ SameFrame(l, k) /\ HubDoc(c, k) = HubDoc(c, d) /\ HubDoc(c, l) = HubDoc(c, e)
      /\ l.turns = e.turns /\ l.system = e.system
  BY <1>1, CleanIs DEF SameFrame
<1>3. ~AnyBad(extract_reasoning(c, e.settings))
  BY HubCleaned DEF SameFrame
<1>4. hub = CASE c = "chat" -> k
              [] c = "responses" -> responses_to_chat(k)
              [] c = "anthropic" -> anthropic_to_openai_chat(k)
              [] c = "gemini" -> gemini_to_chat(context.source_model, k)
  <2>1. hub = CASE c = "chat" -> CleanOf(c, d)
                [] c = "responses" -> responses_to_chat(CleanOf(c, d))
                [] c = "anthropic" -> anthropic_to_openai_chat(CleanOf(c, d))
                [] c = "gemini" -> gemini_to_chat(context.source_model, CleanOf(c, d))
    BY HubCleaned, Zenon
  <2> QED  BY <1>1, <2>1, Zenon
<1>5. more = CASE c = "chat" -> l
               [] c = "responses" -> responses_to_chat(l)
               [] c = "anthropic" -> anthropic_to_openai_chat(l)
               [] c = "gemini" -> gemini_to_chat(context.source_model, l)
  BY <1>1, <1>3, CleanedHub
<1>6. AtHub(c, k, hub, l, more) => AtHub(c, d, hub, e, more)
  BY <1>2 DEF AtHub
<1>7. CASE c = "chat"
  <2>1. hub = k /\ more = l
    BY <1>4, <1>5, <1>7
  <2>2. d.system = <<>> /\ e.system = <<>>
    BY <1>7 DEF Worded, SameFrame
  <2>3. PICK s : s = Drop(d.settings, TakenOut(c)) /\ s = Drop(e.settings, TakenOut(c))
    BY DEF SameFrame
  <2>4. k = Request(<<>>, d.turns, s) /\ l = Request(<<>>, e.turns, s)
    BY <1>1, <2>2, <2>3 DEF CleanOf
  <2>5. HubDoc(c, d) = d.turns /\ HubDoc(c, e) = e.turns
    BY <1>7 DEF HubDoc
  <2> QED  BY <2>1, <2>4, <2>5 DEF AtHub
<1>8. CASE c = "responses"
  <2>1. hub = responses_to_chat(k) /\ more = responses_to_chat(l)
    BY <1>4, <1>5, <1>8
  <2>2. AtHub("responses", k, hub, l, more)
    BY <1>2, <2>1, ResponsesAgain
  <2> QED  BY <1>6, <1>8, <2>2
<1>9. CASE c = "anthropic"
  <2>1. hub = anthropic_to_openai_chat(k) /\ more = anthropic_to_openai_chat(l)
    BY <1>4, <1>5, <1>9
  <2>2. PICK p, t : p = Prompt(l.system) /\ t = l.turns
    OBVIOUS
  <2>3. PlainParts(e.system)
    BY <1>9 DEF Worded, SameFrame
  <2>4. IsSeq(p) /\ IsSeq(t) /\ t # <<>>
    BY <1>2, <2>2, <2>3, PromptSeq
  <2>5. p \o t # <<>>
    BY <2>4, JoinedNone
  <2>6. AtHub("anthropic", k, hub, l, more)
    BY <1>2, <2>1, <2>2, <2>5, AnthropicAgain
  <2> QED  BY <1>6, <1>9, <2>6
<1>10. CASE c = "gemini"
  <2>1. PICK m : m = context.source_model
    OBVIOUS
  <2>2. hub = gemini_to_chat(m, k) /\ more = gemini_to_chat(m, l)
    BY <1>4, <1>5, <1>10, <2>1
  <2>3. AtHub("gemini", k, hub, l, more)
    BY <1>2, <2>2, GeminiAgain
  <2> QED  BY <1>6, <1>10, <2>3
<1> QED  BY <1>7, <1>8, <1>9, <1>10 DEF Format

LEMMA HubDocForms ==
  ASSUME NEW c \in Format, NEW d, Worded(c, d), ~AnyBad(HubDoc(c, d))
  PROVE  ChatForms(HubDoc(c, d))
<1>1. PICK ms : ms = HubDoc(c, d)
  OBVIOUS
<1>2. CASE c = "chat"
  <2>1. HubTells("chat", d, d.turns)
    BY <1>2, ChatToHub
  <2> QED  BY <1>2, <2>1 DEF HubTells, HubDoc
<1>3. CASE c = "responses"
  <2>1. HubDoc(c, d) = responses_input_to_chat(d.turns, Instructions(d.system))
    BY <1>3 DEF HubDoc
  <2>2. Hub(ms)
    BY <1>1, <1>3, <2>1, ResponsesTold DEF Tells
  <2> QED  BY <1>1, <2>2, HubGood
<1>4. CASE c = "anthropic"
  <2>1. HubDoc(c, d) = AnthropicHub(d)
    BY <1>4 DEF HubDoc
  <2>2. Hub(ms)
    BY <1>1, <1>4, <2>1, AnthropicTold DEF Loosely
  <2> QED  BY <1>1, <2>2, HubGood
<1>5. CASE c = "gemini"
  <2>1. HubDoc(c, d) = GeminiDoc(d)
    BY <1>5 DEF HubDoc
  <2>2. Hub(ms)
    BY <1>1, <1>5, <2>1, GeminiTold
  <2> QED  BY <1>1, <2>2, HubGood
<1> QED  BY <1>2, <1>3, <1>4, <1>5 DEF Format

ToResponsesFields(s) ==
  Fields(<<reconcile_max_tokens(s, "max_output_tokens"),
           Keep(s, {"model", "temperature"}),
           EachMapped(s, "tools", chat_tools_to_responses),
           Mapped(s, "tool_choice", "tool_choice", chat_tool_choice_to_responses)>>)
ToAnthropicFields(s) ==
  Fields(<<reconcile_max_tokens(s, "max_tokens"),
           Keep(s, {"model", "temperature"}),
           Copy(s, "stop", "stop_sequences"), Copy(s, "user", "user_id"),
           EachMapped(s, "tools", convert_openai_tools),
           openai_tool_choice_to_anthropic(s, Has(s, "tools") /\ s["tools"] # <<>>)>>)
ToGeminiFields(s) ==
  Fields(<<reconcile_max_tokens(s, "maxOutputTokens"),
           Keep(s, {"temperature"}), Copy(s, "stop", "stopSequences"),
           EachMapped(s, "tools", chat_tools_to_gemini),
           Mapped(s, "tool_choice", "toolConfig", chat_tool_choice_to_gemini)>>)

LEMMA ResponsesBodyIs ==
  ASSUME NEW r
  PROVE  chat_to_responses(r)
           = IF \/ ~OneTextAnswer(r.settings)
                \/ ~Only(r.settings, {"model", "max_tokens", "max_completion_tokens", "tools",
                                      "tool_choice", "temperature", "n", "parallel_tool_calls",
                                      "response_format"})
               THEN Bad
               ELSE Request(<<>>, chat_messages_to_responses(r.turns),
                            ToResponsesFields(r.settings))
BY Zenon DEF chat_to_responses, ToResponsesFields

LEMMA AnthropicBodyIs ==
  ASSUME NEW r
  PROVE  openai_chat_to_anthropic(r)
           = IF \/ ~OneTextAnswer(r.settings) \/ Limits(r.settings) = {}
                \/ convert_openai_messages(r.turns).messages = <<>>
                \/ ~Only(r.settings, {"model", "max_tokens", "max_completion_tokens", "tools",
                                      "tool_choice", "temperature", "stop", "user", "n",
                                      "parallel_tool_calls", "response_format"})
               THEN Bad
               ELSE Request(convert_openai_messages(r.turns).system,
                            convert_openai_messages(r.turns).messages,
                            ToAnthropicFields(r.settings))
BY Zenon DEF openai_chat_to_anthropic, ToAnthropicFields

LEMMA GeminiBodyIs ==
  ASSUME NEW r
  PROVE  chat_to_gemini(r)
           = IF \/ ~OneTextAnswer(r.settings)
                \/ ~Only(r.settings, {"model", "max_tokens", "max_completion_tokens", "tools",
                                      "tool_choice", "temperature", "stop", "n",
                                      "parallel_tool_calls", "response_format"})
                \/ Has(r.settings, "parallel_tool_calls") /\ ~r.settings["parallel_tool_calls"]
               THEN Bad
               ELSE Request(chat_messages_to_gemini(r.turns).system,
                            chat_messages_to_gemini(r.turns).contents,
                            ToGeminiFields(r.settings))
BY Zenon DEF chat_to_gemini, ToGeminiFields

GoodBody(b) == b # Bad /\ ~AnyBad(b.system) /\ ~AnyBad(b.turns)

(* Of two requests with the same settings, one translated: the other is,   *)
(* with the same settings, when the upstream takes its turns.              *)
BodyToo(u, ms, b, ns, w) ==
  GoodBody(b) =>
    /\ Takes(u, ms)
    /\ Takes(u, ns) => GoodBody(w) /\ w.settings = b.settings /\ Formed(w) /\ Formed(b)

LEMMA RequestIs ==
  ASSUME NEW x, NEW y, NEW z, NEW b, b = Request(x, y, z)
  PROVE  b.system = x /\ b.turns = y /\ b.settings = z /\ Formed(b) /\ b # Bad
<1>1. b.system = x /\ b.turns = y /\ b.settings = z
  BY DEF Request
<1>2. Formed(b)
  BY <1>1 DEF Formed
<1>3. b # Bad
  <2>1. "turns" \in DOMAIN b /\ "turns" \notin DOMAIN Bad
    BY DEF Request, Bad
  <2> QED  BY <2>1
<1> QED  BY <1>1, <1>2, <1>3

LEMMA ChatBody ==
  ASSUME NEW r, NEW q, Formed(r), Formed(q), r.settings = q.settings, r.system = <<>>,
         q.system = <<>>, ChatForms(r.turns), ChatForms(q.turns)
  PROVE  BodyToo("chat", r.turns, r, q.turns, q)
<1>1. Takes("chat", r.turns)
  BY DEF Takes
<1>2. ~AnyBad(q.turns)
  BY FormsAreHub
<1>3. q # Bad
  <2>1. PICK x, y, z : q = Request(x, y, z)
    BY DEF Formed
  <2> QED  BY <2>1, RequestIs
<1>4. ~AnyBad(q.system)
  BY DEF AnyBad
<1> QED  BY <1>1, <1>2, <1>3, <1>4 DEF BodyToo, GoodBody

LEMMA ResponsesBody ==
  ASSUME NEW r, NEW q, r.settings = q.settings, ChatForms(r.turns), ChatForms(q.turns)
  PROVE  BodyToo("responses", r.turns, chat_to_responses(r), q.turns, chat_to_responses(q))
<1>1. PICK b, w : b = chat_to_responses(r) /\ w = chat_to_responses(q)
  OBVIOUS
<1>2. PICK ms, ns, ts, vs, F :
        /\ ms = r.turns /\ ns = q.turns /\ F = ToResponsesFields(r.settings)
        /\ ts = chat_messages_to_responses(ms) /\ vs = chat_messages_to_responses(ns)
  OBVIOUS
<1>3. ASSUME GoodBody(b)
      PROVE  /\ Takes("responses", ms)
             /\ Takes("responses", ns) => GoodBody(w) /\ w.settings = b.settings /\ Formed(w) /\ Formed(b)
  <2>1. b = Request(<<>>, ts, F) /\ w = Request(<<>>, vs, F)
    BY <1>1, <1>2, <1>3, ResponsesBodyIs DEF GoodBody
  <2>2. /\ b.turns = ts /\ b.settings = F /\ Formed(b)
        /\ w.turns = vs /\ w.settings = F /\ Formed(w) /\ w.system = <<>> /\ w # Bad
    BY <2>1, RequestIs
  <2>3. TakesResponses(ms)
    BY <1>2, <1>3, <2>2, ResponsesTakes DEF GoodBody
  <2>4. TakesResponses(ns) => ~AnyBad(vs)
    BY <1>2, ResponsesTakes
  <2>5. ~AnyBad(w.system)
    BY <2>2 DEF AnyBad
  <2>6. Takes("responses", ms)
    BY <1>2, <2>3 DEF Takes
  <2>7. Takes("responses", ns) => TakesResponses(ns)
    BY DEF Takes
  <2> QED  BY <2>2, <2>4, <2>5, <2>6, <2>7 DEF GoodBody
<1>4. BodyToo("responses", ms, b, ns, w)
  BY <1>3 DEF BodyToo
<1> QED  BY <1>1, <1>2, <1>4

LEMMA AnthropicBody ==
  ASSUME NEW r, NEW q, r.settings = q.settings, ChatForms(r.turns), ChatForms(q.turns)
  PROVE  BodyToo("anthropic", r.turns, openai_chat_to_anthropic(r), q.turns, openai_chat_to_anthropic(q))
<1>1. PICK b, w : b = openai_chat_to_anthropic(r) /\ w = openai_chat_to_anthropic(q)
  OBVIOUS
<1>2. PICK ms, ns, h, k, F :
        /\ ms = r.turns /\ ns = q.turns /\ F = ToAnthropicFields(r.settings)
        /\ h = convert_openai_messages(ms) /\ k = convert_openai_messages(ns)
  OBVIOUS
<1>3. ASSUME GoodBody(b)
      PROVE  /\ Takes("anthropic", ms)
             /\ Takes("anthropic", ns) => GoodBody(w) /\ w.settings = b.settings /\ Formed(w) /\ Formed(b)
  <2>1. /\ b = Request(h.system, h.messages, F) /\ h.messages # <<>>
        /\ (k.messages # <<>> => w = Request(k.system, k.messages, F))
    BY <1>1, <1>2, <1>3, AnthropicBodyIs DEF GoodBody
  <2>2. b.system = h.system /\ b.turns = h.messages /\ b.settings = F /\ Formed(b)
    BY <2>1, RequestIs
  <2>3. TakesAnthropic(ms)
    BY <1>2, <1>3, <2>1, <2>2, AnthropicTakes DEF GoodBody
  <2>4. Takes("anthropic", ms)
    BY <1>2, <2>3 DEF Takes
  <2>5. ASSUME Takes("anthropic", ns)
        PROVE  GoodBody(w) /\ w.settings = b.settings /\ Formed(w) /\ Formed(b)
    <3>1. TakesAnthropic(ns)
      BY <2>5 DEF Takes
    <3>2. ~AnyBad(k.system) /\ ~AnyBad(k.messages) /\ k.messages # <<>>
      BY <1>2, <3>1, AnthropicTakes
    <3>3. w.system = k.system /\ w.turns = k.messages /\ w.settings = F /\ Formed(w) /\ w # Bad
      BY <2>1, <3>2, RequestIs
    <3> QED  BY <2>2, <3>2, <3>3 DEF GoodBody
  <2> QED  BY <2>4, <2>5
<1>4. BodyToo("anthropic", ms, b, ns, w)
  BY <1>3 DEF BodyToo
<1> QED  BY <1>1, <1>2, <1>4

LEMMA GeminiBody ==
  ASSUME NEW r, NEW q, r.settings = q.settings, ChatForms(r.turns), ChatForms(q.turns)
  PROVE  BodyToo("gemini", r.turns, chat_to_gemini(r), q.turns, chat_to_gemini(q))
<1>1. PICK b, w : b = chat_to_gemini(r) /\ w = chat_to_gemini(q)
  OBVIOUS
<1>2. PICK ms, ns, h, k, F :
        /\ ms = r.turns /\ ns = q.turns /\ F = ToGeminiFields(r.settings)
        /\ h = chat_messages_to_gemini(ms) /\ k = chat_messages_to_gemini(ns)
  OBVIOUS
<1>3. ASSUME GoodBody(b)
      PROVE  /\ Takes("gemini", ms)
             /\ Takes("gemini", ns) => GoodBody(w) /\ w.settings = b.settings /\ Formed(w) /\ Formed(b)
  <2>1. b = Request(h.system, h.contents, F) /\ w = Request(k.system, k.contents, F)
    BY <1>1, <1>2, <1>3, GeminiBodyIs DEF GoodBody
  <2>2. b.system = h.system /\ b.turns = h.contents /\ b.settings = F /\ Formed(b)
    BY <2>1, RequestIs
  <2>3. TakesGemini(ms)
    BY <1>2, <1>3, <2>1, <2>2, GeminiTakes DEF GoodBody
  <2>4. Takes("gemini", ms)
    BY <1>2, <2>3 DEF Takes
  <2>5. ASSUME Takes("gemini", ns)
        PROVE  GoodBody(w) /\ w.settings = b.settings /\ Formed(w) /\ Formed(b)
    <3>1. TakesGemini(ns)
      BY <2>5 DEF Takes
    <3>2. ~AnyBad(k.system) /\ ~AnyBad(k.contents)
      BY <1>2, <3>1, GeminiTakes
    <3>3. w.system = k.system /\ w.turns = k.contents /\ w.settings = F /\ Formed(w) /\ w # Bad
      BY <2>1, RequestIs
    <3> QED  BY <2>2, <3>2, <3>3 DEF GoodBody
  <2> QED  BY <2>4, <2>5
<1>4. BodyToo("gemini", ms, b, ns, w)
  BY <1>3 DEF BodyToo
<1> QED  BY <1>1, <1>2, <1>4

BodyFor(to, chat) ==
  CASE to = "chat" -> chat
    [] to = "responses" -> chat_to_responses(chat)
    [] to = "anthropic" -> openai_chat_to_anthropic(chat)
    [] to = "gemini" -> chat_to_gemini(chat)
Dressed(to, R, stream, s) == insert_stream(to, stream, insert_reasoning(to, R, s))
FullBody(to, R, stream, body) == [body EXCEPT !.settings = Dressed(to, R, stream, @)]

LEMMA SentIs ==
  ASSUME NEW to, NEW chat, NEW R, NEW stream, NEW b, b = BodyFor(to, chat),
         NEW f, f = FullBody(to, R, stream, b)
  PROVE  /\ request_from_chat(to, chat, R, stream) # Bad =>
              b # Bad /\ Checked(b) # Bad /\ Checked(f) # Bad
         /\ b # Bad /\ Checked(b) # Bad /\ Checked(f) # Bad =>
              \E m : request_from_chat(to, chat, R, stream) = Sent(f, m, stream)
BY Zenon DEF request_from_chat, BodyFor, FullBody, Dressed

LEMMA SentIsGood ==
  ASSUME NEW f, NEW m, NEW stream
  PROVE  Sent(f, m, stream) # Bad
<1>1. "body" \in DOMAIN Sent(f, m, stream) /\ "body" \notin DOMAIN Bad
  BY DEF Sent, Bad
<1> QED  BY <1>1

LEMMA CheckedIs ==
  ASSUME NEW b
  PROVE  /\ Checked(b) # Bad =>
              ~AnyBad(b.system) /\ ~AnyBad(b.turns) /\ ~Has(b.settings, "bad")
         /\ b # Bad /\ ~AnyBad(b.system) /\ ~AnyBad(b.turns) /\ ~Has(b.settings, "bad") =>
              Checked(b) # Bad
BY DEF Checked

LEMMA FullIs ==
  ASSUME NEW to, NEW R, NEW stream, NEW b, Formed(b), NEW f, f = FullBody(to, R, stream, b)
  PROVE  /\ f.system = b.system /\ f.turns = b.turns /\ f # Bad
         /\ f.settings = Dressed(to, R, stream, b.settings)
<1>1. PICK t : t = Dressed(to, R, stream, b.settings)
  OBVIOUS
<1>2. f = Request(b.system, b.turns, t)
  BY <1>1 DEF Formed, Request, FullBody
<1> QED  BY <1>1, <1>2, RequestIs

LEMMA BodiesToo ==
  ASSUME NEW to \in Format, NEW r, NEW q, Formed(r), Formed(q), r.settings = q.settings,
         r.system = <<>>, q.system = <<>>, ChatForms(r.turns), ChatForms(q.turns)
  PROVE  BodyToo(to, r.turns, BodyFor(to, r), q.turns, BodyFor(to, q))
<1>1. CASE to = "chat"
  <2>1. BodyFor(to, r) = r /\ BodyFor(to, q) = q
    BY <1>1 DEF BodyFor
  <2>2. BodyToo("chat", r.turns, r, q.turns, q)
    BY ChatBody
  <2> QED  BY <1>1, <2>1, <2>2
<1>2. CASE to = "responses"
  <2>1. BodyFor(to, r) = chat_to_responses(r) /\ BodyFor(to, q) = chat_to_responses(q)
    BY <1>2 DEF BodyFor
  <2> QED  BY <1>2, <2>1, ResponsesBody
<1>3. CASE to = "anthropic"
  <2>1. BodyFor(to, r) = openai_chat_to_anthropic(r) /\ BodyFor(to, q) = openai_chat_to_anthropic(q)
    BY <1>3 DEF BodyFor
  <2> QED  BY <1>3, <2>1, AnthropicBody
<1>4. CASE to = "gemini"
  <2>1. BodyFor(to, r) = chat_to_gemini(r) /\ BodyFor(to, q) = chat_to_gemini(q)
    BY <1>4 DEF BodyFor
  <2> QED  BY <1>4, <2>1, GeminiBody
<1> QED  BY <1>1, <1>2, <1>3, <1>4 DEF Format

(* Of two requests at the hub that differ only in their turns, when one    *)
(* was sent, the other is if the target takes its turns.                   *)
LEMMA SentAgain ==
  ASSUME NEW to \in Format, NEW r, NEW q, Formed(r), Formed(q), r.settings = q.settings,
         r.system = <<>>, q.system = <<>>, ChatForms(r.turns), ChatForms(q.turns),
         NEW R, NEW stream, request_from_chat(to, r, R, stream) # Bad
  PROVE  /\ Takes(to, r.turns)
         /\ Takes(to, q.turns) => request_from_chat(to, q, R, stream) # Bad
<1>1. PICK b, w : b = BodyFor(to, r) /\ w = BodyFor(to, q)
  OBVIOUS
<1>2. PICK f, g : f = FullBody(to, R, stream, b) /\ g = FullBody(to, R, stream, w)
  OBVIOUS
<1>3. b # Bad /\ Checked(b) # Bad /\ Checked(f) # Bad
  BY <1>1, <1>2, SentIs
<1>4. GoodBody(b) /\ ~Has(b.settings, "bad")
  BY <1>3, CheckedIs DEF GoodBody
<1>5. /\ Takes(to, r.turns)
      /\ Takes(to, q.turns) => GoodBody(w) /\ w.settings = b.settings /\ Formed(w) /\ Formed(b)
  <2>1. BodyToo(to, r.turns, b, q.turns, w)
    BY <1>1, BodiesToo
  <2> QED  BY <1>4, <2>1 DEF BodyToo
<1>6. ASSUME Takes(to, q.turns) PROVE request_from_chat(to, q, R, stream) # Bad
  <2>1. GoodBody(w) /\ w.settings = b.settings /\ Formed(w) /\ Formed(b)
    BY <1>5, <1>6
  <2>2. f.settings = Dressed(to, R, stream, b.settings)
    BY <1>2, <2>1, FullIs
  <2>3. g.system = w.system /\ g.turns = w.turns /\ g # Bad /\ g.settings = Dressed(to, R, stream, w.settings)
    BY <1>2, <2>1, FullIs
  <2>4. ~Has(f.settings, "bad")
    BY <1>3, CheckedIs
  <2>5. Checked(w) # Bad
    BY <1>4, <2>1, CheckedIs DEF GoodBody
  <2>6. g.settings = f.settings
    BY <2>1, <2>2, <2>3
  <2>7. Checked(g) # Bad
    BY <2>1, <2>3, <2>4, <2>6, CheckedIs DEF GoodBody
  <2>8. w # Bad
    BY <2>1 DEF GoodBody
  <2>9. PICK m : request_from_chat(to, q, R, stream) = Sent(g, m, stream)
    BY <1>1, <1>2, <2>5, <2>7, <2>8, SentIs
  <2> QED  BY <2>9, SentIsGood
<1> QED  BY <1>5, <1>6

LEMMA TranslatedIs ==
  ASSUME NEW from \in Format, NEW to \in Format, from # to, NEW context, NEW r,
         NEW stream, stream = extract_stream(from, context.source_stream, r.settings),
         NEW R, R = extract_reasoning(from, r.settings),
         NEW hub, hub = request_to_chat(from, context, r),
         NEW chat, chat = [hub EXCEPT !.settings = Renamed(@, context.target_model)]
  PROVE  /\ translate_request(from, to, context, r) # Bad =>
              /\ hub # Bad /\ Checked(hub) # Bad /\ ~(stream /\ Unstreamable(from, to, chat))
              /\ request_from_chat(to, chat, R, stream) # Bad
         /\ hub # Bad /\ Checked(hub) # Bad /\ ~(stream /\ Unstreamable(from, to, chat))
              /\ request_from_chat(to, chat, R, stream) # Bad =>
              translate_request(from, to, context, r) # Bad
<1>1. translate_request(from, to, context, r)
        = IF hub = Bad \/ Checked(hub) = Bad THEN Bad
            ELSE IF stream /\ Unstreamable(from, to, chat) THEN Bad
                   ELSE request_from_chat(to, chat, R, stream)
  BY Zenon DEF translate_request
<1>2. PICK whole, sent, checked : /\ whole = translate_request(from, to, context, r)
                                 /\ sent = request_from_chat(to, chat, R, stream)
                                 /\ checked = Checked(hub)
  OBVIOUS
<1>3. PICK unfit \in BOOLEAN : unfit <=> (stream /\ Unstreamable(from, to, chat))
  OBVIOUS
<1>4. CASE hub = Bad \/ checked = Bad
  <2>1. whole = Bad
    BY <1>1, <1>2, <1>4
  <2> QED  BY <1>2, <1>4, <2>1
<1>5. CASE ~(hub = Bad \/ checked = Bad) /\ unfit
  <2>1. whole = Bad
    BY <1>1, <1>2, <1>3, <1>5
  <2> QED  BY <1>2, <1>3, <1>5, <2>1
<1>6. CASE ~(hub = Bad \/ checked = Bad) /\ ~unfit
  <2>1. whole = sent
    BY <1>1, <1>2, <1>3, <1>6
  <2> QED  BY <1>2, <1>3, <1>6, <2>1
<1> QED  BY <1>4, <1>5, <1>6

(* translate_request does not refuse a document whose settings it has      *)
(* translated before, when the target takes its turns.                     *)
LEMMA TranslatedAgain ==
  ASSUME NEW c \in Format, NEW u \in Format, c # u, NEW context,
         NEW d, Formed(d), Worded(c, d), NEW e, Formed(e), Worded(c, e), SameFrame(e, d),
         e.turns # <<>>, translate_request(c, u, context, d) # Bad
  PROVE  /\ Takes(u, HubDoc(c, d))
         /\ Takes(u, HubDoc(c, e)) => translate_request(c, u, context, e) # Bad
<1>1. PICK stream, R : /\ stream = extract_stream(c, context.source_stream, d.settings)
                       /\ R = extract_reasoning(c, d.settings)
  OBVIOUS
<1>2. stream = extract_stream(c, context.source_stream, e.settings) /\ R = extract_reasoning(c, e.settings)
  BY <1>1 DEF SameFrame
<1>3. PICK hub, chat : /\ hub = request_to_chat(c, context, d)
                       /\ chat = [hub EXCEPT !.settings = Renamed(@, context.target_model)]
  OBVIOUS
<1>4. PICK more, talk : /\ more = request_to_chat(c, context, e)
                        /\ talk = [more EXCEPT !.settings = Renamed(@, context.target_model)]
  OBVIOUS
<1>5. /\ hub # Bad /\ Checked(hub) # Bad /\ ~(stream /\ Unstreamable(c, u, chat))
      /\ request_from_chat(u, chat, R, stream) # Bad
  BY <1>1, <1>3, TranslatedIs
<1>6. IsSeq(e.turns)
  BY DEF Worded
<1>7. AtHub(c, d, hub, e, more)
  BY <1>3, <1>4, <1>5, <1>6, HubAgain
<1>8. PICK ms, ns : ms = HubDoc(c, d) /\ ns = HubDoc(c, e)
  OBVIOUS
<1>9. PICK s : hub = Request(<<>>, ms, s) /\ more = Request(<<>>, ns, s)
  BY <1>7, <1>8 DEF AtHub
<1>10. PICK t : t = Renamed(s, context.target_model)
  OBVIOUS
<1>11. chat = Request(<<>>, ms, t) /\ talk = Request(<<>>, ns, t)
  BY <1>3, <1>4, <1>9, <1>10 DEF Request
<1>12. /\ chat.system = <<>> /\ chat.turns = ms /\ chat.settings = t /\ Formed(chat)
       /\ talk.system = <<>> /\ talk.turns = ns /\ talk.settings = t /\ Formed(talk)
       /\ hub.system = <<>> /\ hub.turns = ms /\ hub.settings = s
       /\ more.system = <<>> /\ more.turns = ns /\ more.settings = s /\ more # Bad
  BY <1>9, <1>11, RequestIs
<1>13. ~AnyBad(ms) /\ ~Has(s, "bad")
  BY <1>5, <1>12, CheckedIs
<1>14. ChatForms(ms)
  BY <1>8, <1>13, HubDocForms
<1>15. Takes(u, ms)
  BY <1>5, <1>12, <1>14, SentAgain
<1>16. ASSUME Takes(u, ns) PROVE translate_request(c, u, context, e) # Bad
  <2>1. ChatForms(ns)
    BY <1>16 DEF Takes
  <2>2. request_from_chat(u, talk, R, stream) # Bad
    BY <1>5, <1>12, <1>14, <1>16, <2>1, SentAgain
  <2>3. ~AnyBad(ns) /\ ~AnyBad(more.system)
    BY <1>12, <2>1, FormsAreHub DEF AnyBad
  <2>4. Checked(more) # Bad
    BY <1>12, <1>13, <2>3, CheckedIs
  <2>5. ~(stream /\ Unstreamable(c, u, talk))
    BY <1>5, <1>12 DEF Unstreamable
  <2> QED  BY <1>2, <1>4, <1>12, <2>2, <2>4, <2>5, TranslatedIs
<1> QED  BY <1>8, <1>15, <1>16

-----------------------------------------------------------------------------
(* What a reply holds, as its client has it: the parts the target it came  *)
(* from can be sent back.                                                  *)

(* A content that is no array of parts has texts alone.                    *)
LEMMA TextsOnly ==
  ASSUME NEW c, Content(c), c.form = "parts" => c.parts = <<>>
  PROVE  \A i \in DOMAIN c.parts : c.parts[i].is = "text"
<1>1. CASE c.parts = <<>>
  BY <1>1, Nowhere
<1>2. CASE c.parts # <<>>
  <2>1. PICK p : p = [is |-> "text", text |-> c.parts[1].text]
    OBVIOUS
  <2>2. c.parts = <<p>>
    BY <1>2, <2>1 DEF Content
  <2>3. PICK s : s = <<p>>
    OBVIOUS
  <2>4. IsSeq(s) /\ Len(s) = 1 /\ s[1] = p
    BY <2>3, One
  <2>5. DOMAIN s = 1..1
    BY <2>4, SeqIs
  <2>6. \A i \in 1..1 : i = 1
    OBVIOUS
  <2> QED  BY <2>1, <2>2, <2>3, <2>4, <2>5, <2>6
<1> QED  BY <1>1, <1>2

LEMMA AssistantIsPlain ==
  ASSUME NEW u, NEW m, AssistantForm(m),
         u \in {"anthropic", "gemini"} => ObjectCalls(m.calls)
  PROVE  HubMessage(u, m)
<1>1. ChatForm(m) /\ Tidy(m) /\ m.role = "assistant" /\ Content(m.content)
  BY DEF AssistantForm, ChatForm
<1>2. \A i \in DOMAIN m.content.parts : m.content.parts[i].is = "text"
  BY <1>1, TextsOnly DEF AssistantForm
<1>3. \A i \in DOMAIN m.content.parts : SaidPlainly(u, m.content.parts[i])
  BY <1>2 DEF SaidPlainly
<1> QED  BY <1>1, <1>3 DEF HubMessage

(* What an Anthropic answer is at the hub, a target can be told.           *)
LEMMA AnthropicPlain ==
  ASSUME NEW a, PartsForm(a.content), NEW h, h = anthropic_response_to_chat(a), h # Bad
  PROVE  HubMessage("anthropic", h.message)
<1>1. AssistantForm(h.message)
  BY AnthropicAnswered
<1>2. PICK uu, text, calls :
        /\ uu = With(a.content, LAMBDA p : p.is = "tool_use")
        /\ text = Concat(TextItems(With(a.content, LAMBDA p : p.is = "text")))
        /\ calls = Each(convert_anthropic_tool_use, uu)
  OBVIOUS
<1>3. /\ ~AnyBad(calls)
      /\ h = Answer(Assistant(text, calls), anthropic_finish_to_chat(a.stop_reason),
                    CountsOf("anthropic", a.usage), FALSE)
  BY <1>2, Zenon DEF anthropic_response_to_chat, TextItems
<1>4. h.message.calls = calls
  <2>1. PICK m, finish, counts : /\ m = Assistant(text, calls)
                                 /\ finish = anthropic_finish_to_chat(a.stop_reason)
                                 /\ counts = CountsOf("anthropic", a.usage)
    OBVIOUS
  <2>2. h.message = m
    BY <1>3, <2>1 DEF Answer
  <2>3. PICK content : m = Message("assistant", content, calls, "", "")
    BY <2>1, Zenon DEF Assistant
  <2>4. m.calls = calls
    BY <2>3 DEF Message
  <2> QED  BY <2>2, <2>4
<1>5. ObjectCalls(calls)
  <2>1. /\ DOMAIN calls = DOMAIN uu
        /\ \A i \in DOMAIN uu : calls[i] = convert_anthropic_tool_use(uu[i])
    BY <1>2 DEF Each
  <2>2. ASSUME NEW i \in DOMAIN calls PROVE calls[i].args = "object"
    <3>1. calls[i] # Bad
      BY <1>3, <2>2 DEF AnyBad
    <3>2. PICK p : p = uu[i]
      OBVIOUS
    <3>3. calls[i] = convert_anthropic_tool_use(p)
      BY <2>1, <2>2, <3>2
    <3>4. p.args = "object" /\ calls[i] = Call(p.id, p.name, p.args)
      BY <3>1, <3>3 DEF convert_anthropic_tool_use
    <3> QED  BY <3>4 DEF Call
  <2> QED  BY <2>2 DEF ObjectCalls
<1> QED  BY <1>1, <1>4, <1>5, AssistantIsPlain

LEMMA CollapsedPlainly ==
  ASSUME NEW u, NEW parts, \A i \in DOMAIN parts : SaidPlainly(u, parts[i]),
         NEW c, c = collapse_text_parts(parts)
  PROVE  \A i \in DOMAIN c.parts : SaidPlainly(u, c.parts[i])
<1>1. CASE Len(parts) = 1 /\ parts[1].is = "text"
  <2>1. c = Str(parts[1].text)
    BY <1>1 DEF collapse_text_parts
  <2>2. PICK p : p = [is |-> "text", text |-> parts[1].text]
    OBVIOUS
  <2>3. PICK s : s = <<p>>
    OBVIOUS
  <2>4. c.parts = s
    BY <2>1, <2>2, <2>3 DEF Str
  <2>5. IsSeq(s) /\ Len(s) = 1 /\ s[1] = p
    BY <2>3, One
  <2>6. DOMAIN s = 1..1 /\ \A i \in 1..1 : i = 1
    BY <2>5, SeqIs
  <2>7. SaidPlainly(u, p)
    BY <2>2 DEF SaidPlainly
  <2> QED  BY <2>4, <2>5, <2>6, <2>7
<1>2. CASE ~(Len(parts) = 1 /\ parts[1].is = "text")
  <2>1. c.parts = parts
    BY <1>2 DEF collapse_text_parts, Parts
  <2> QED  BY <2>1
<1> QED  BY <1>1, <1>2

LEMMA GeminiPartPlainly ==
  ASSUME NEW p, NEW q, q = gemini_part_to_chat(p), q # Bad
  PROVE  SaidPlainly("gemini", q)
BY DEF gemini_part_to_chat, SaidPlainly

(* What a model's content says, as the hub has it.                         *)
LEMMA ModelPlain ==
  ASSUME NEW t, ContentForm(t), t.role = "model", NEW m,
         gemini_content_to_chat(t) = <<m>>, m # Bad, ChatForm(m), Tidy(m), m.role = "assistant"
  PROVE  HubMessage("gemini", m)
<1>1. PICK R, C, S : /\ R = Where(t.parts, {"functionResponse"})
                     /\ C = Where(t.parts, {"functionCall"}) /\ S = DOMAIN t.parts \ (R \cup C)
  OBVIOUS
<1>2. PICK uu : uu = Picked(t.parts, C)
  OBVIOUS
<1>3. PICK said, calls, results :
        /\ said = Each(gemini_part_to_chat, Picked(t.parts, S))
        /\ calls = Each(LAMBDA p : Call(p.id, p.name, p.args), uu)
        /\ results = Each(LAMBDA p : Result(p.id, p.name, Str(Json(p.response))),
                          Picked(t.parts, R))
  OBVIOUS
<1>4. <<m>> = GeminiHub(t, said, calls, results)
  BY <1>1, <1>2, <1>3, GeminiContent
<1>5. IsSeq(t.parts) /\ DOMAIN t.parts = 1..Len(t.parts)
  BY PartsPlain, SeqIs DEF ContentForm, PlainParts
<1>6. R = {}
  BY <1>1 DEF ContentForm, Where
<1>7. results = <<>>
  <2>1. Picked(t.parts, R) = <<>>
    BY <1>5, <1>6, PickedEmpty
  <2> QED  BY <1>3, <2>1, SMT DEF Each
<1>8. GoodContent(t, said)
  <2>1. CASE ~GoodContent(t, said)
    <3>1. <<m>> = <<Bad>>
      BY <1>4, <2>1 DEF GeminiHub
    <3>2. <<m>>[1] = m /\ <<Bad>>[1] = Bad
      BY One
    <3> QED  BY <3>1, <3>2
  <2> QED  BY <2>1
<1>9. PICK l : l = Message(HubRole(t.role), collapse_text_parts(said), calls, "", "")
  OBVIOUS
<1>10. m = l
  <2>1. ~(said = <<>> /\ calls = <<>>)
    <3>1. CASE said = <<>> /\ calls = <<>>
      <4>1. <<m>> = <<>>
        BY <1>4, <1>7, <1>8, <3>1 DEF GeminiHub
      <4>2. Len(<<m>>) = 1 /\ Len(<<>>) = 0
        BY One, Empty
      <4> QED  BY <4>1, <4>2
    <3> QED  BY <3>1
  <2>2. <<m>> = Append(results, l)
    BY <1>4, <1>8, <1>9, <2>1 DEF GeminiHub
  <2>3. Append(<<>>, l) = <<>> \o <<l>> /\ <<>> \o <<l>> = <<l>>
    BY One, Empty, Appended
  <2>4. <<m>> = <<l>>
    BY <1>7, <2>2, <2>3
  <2>5. <<m>>[1] = m /\ <<l>>[1] = l
    BY One
  <2> QED  BY <2>4, <2>5
<1>11. PICK c : c = collapse_text_parts(said)
  OBVIOUS
<1>12. m.content = c /\ m.calls = calls
  BY <1>9, <1>10, <1>11 DEF Message
<1>13. \A i \in DOMAIN said : SaidPlainly("gemini", said[i])
  <2>1. PICK ps : ps = Picked(t.parts, S)
    OBVIOUS
  <2>2. DOMAIN said = DOMAIN ps /\ \A i \in DOMAIN ps : said[i] = gemini_part_to_chat(ps[i])
    BY <1>3, <2>1 DEF Each
  <2>3. \A i \in DOMAIN said : said[i] # Bad
    BY <1>8 DEF GoodContent, AnyBad
  <2> QED  BY <2>2, <2>3, GeminiPartPlainly
<1>14. \A i \in DOMAIN c.parts : SaidPlainly("gemini", c.parts[i])
  BY <1>11, <1>13, CollapsedPlainly
<1>15. ObjectCalls(calls)
  <2>1. IsSeq(uu) /\ \A j \in 1..Len(uu) : \E i \in C \cap 1..Len(t.parts) : uu[j] = t.parts[i]
    BY <1>2, <1>5, PickedFrom
  <2>2. \A i \in C : t.parts[i].args = "object"
    BY <1>1, <1>8 DEF GoodContent, Where
  <2>3. \A j \in 1..Len(uu) : uu[j].args = "object"
    BY <2>1, <2>2
  <2>4. DOMAIN calls = 1..Len(uu) /\ \A j \in DOMAIN calls : calls[j].args = uu[j].args
    BY <1>3, <2>1, SeqIs DEF Each, Call
  <2> QED  BY <2>3, <2>4 DEF ObjectCalls
<1> QED  BY <1>12, <1>14, <1>15 DEF HubMessage

(* What an upstream has answered is said plainly for it at the hub.        *)
LEMMA AnsweredPlainly ==
  ASSUME NEW u \in Format, NEW a, Answered(u, a),
         NEW h, h = response_to_chat(u, a), h # Bad,
         u = "chat" => h.message.role = "assistant"
  PROVE  HubMessage(u, h.message)
<1>1. CASE u = "chat"
  <2>1. h = a
    BY <1>1 DEF response_to_chat
  <2>2. AssistantForm(a.message)
    BY <1>1, <2>1 DEF Answered, AssistantForm, Tidy
  <2> QED  BY <1>1, <2>1, <2>2, AssistantIsPlain
<1>2. CASE u = "responses"
  <2>1. h = responses_response_to_chat(a)
    BY <1>2 DEF response_to_chat
  <2> QED  BY <1>2, <2>1, ResponsesAnswered, AssistantIsPlain
<1>3. CASE u = "anthropic"
  <2>1. h = anthropic_response_to_chat(a) /\ PartsForm(a.content)
    BY <1>3 DEF response_to_chat, Answered
  <2> QED  BY <1>3, <2>1, AnthropicPlain
<1>4. CASE u = "gemini"
  <2>1. h = gemini_response_to_chat(a)
    BY <1>4 DEF response_to_chat
  <2>2. PICK t, ms : t = a.content /\ t.role = "model" /\ ContentForm(t) /\ ms = gemini_content_to_chat(t)
    BY <1>4 DEF Answered
  <2>3. PICK e, v : e = gemini_finish_to_chat(a.finishReason) /\ v = CountsOf("gemini", a.usage)
    OBVIOUS
  <2>4. ms # <<>> /\ ~AnyBad(ms) /\ h = Answer(ms[Len(ms)], e, v, FALSE)
    BY <2>1, <2>2, <2>3, Zenon DEF gemini_response_to_chat
  <2>5. PICK C, S : C = Where(t.parts, {"functionCall"}) /\ S = DOMAIN t.parts \ C
    OBVIOUS
  <2>6. PICK said, calls : /\ said = Each(gemini_part_to_chat, Picked(t.parts, S))
                           /\ calls = Each(LAMBDA p : Call(p.id, p.name, p.args), Picked(t.parts, C))
    OBVIOUS
  <2>7. PICK m : AnswerTurn(m, t, said, calls)
    BY <2>2, <2>4, <2>5, <2>6, GeminiAlone
  <2>8. ms = <<m>>
    BY <2>2, <2>7 DEF AnswerTurn
  <2>9. h.message = m
    BY <2>4, <2>8, One DEF Answer
  <2>10. ChatForm(m) /\ Tidy(m) /\ m.role = "assistant"
    BY <1>4, <2>1, <2>9, GeminiAnswered
  <2>11. m # Bad
    BY <2>10, NotBad
  <2> QED  BY <1>4, <2>2, <2>8, <2>9, <2>10, <2>11, ModelPlain
<1> QED  BY <1>1, <1>2, <1>3, <1>4 DEF Format

(* What of a reply its client can give back to the target it came from.    *)
PlainBlock(p) == p.is = "text" \/ (p.is = "tool_use" /\ p.args = "object")
PlainOutput(u, i) ==
  \/ i.is = "message" /\ IsSeq(i.text)
  \/ i.is = "function_call" /\ (u # "chat" => i.args = "object")
PlainPart(p) == p.is = "text" \/ (p.is = "functionCall" /\ p.args = "object")

LEMMA UsePlain ==
  ASSUME NEW calls, NEW uu, uu = convert_openai_tool_calls(calls), ~AnyBad(uu)
  PROVE  \A i \in DOMAIN uu : PlainBlock(uu[i])
<1>1. /\ DOMAIN uu = DOMAIN calls
      /\ \A i \in DOMAIN calls :
           uu[i] = IF calls[i].args # "object" THEN Bad
                     ELSE [is |-> "tool_use", id |-> calls[i].id, name |-> calls[i].name,
                           args |-> calls[i].args]
  BY DEF convert_openai_tool_calls, Each
<1>2. ASSUME NEW i \in DOMAIN uu PROVE PlainBlock(uu[i])
  <2>1. uu[i] # Bad
    BY <1>2 DEF AnyBad
  <2>2. PICK c, p : c = calls[i] /\ p = [is |-> "tool_use", id |-> c.id, name |-> c.name,
                                         args |-> c.args]
    OBVIOUS
  <2>3. uu[i] = IF c.args # "object" THEN Bad ELSE p
    BY <1>1, <1>2, <2>2
  <2>4. c.args = "object" /\ uu[i] = p
    BY <2>1, <2>3
  <2> QED  BY <2>2, <2>4 DEF PlainBlock
<1> QED  BY <1>2

(* The replies, in the dialects of the clients.                            *)
LEMMA AnthropicReplyPlain ==
  ASSUME NEW h, NEW m, m = h.message, ChatForm(m), Unnamed(m),
         NEW b, b = chat_response_to_anthropic(h), b # Bad
  PROVE  PartsForm(b.content) /\ \A i \in DOMAIN b.content : PlainBlock(b.content[i])
<1>1. PICK s, uu : s = SaidText(m) /\ uu = convert_openai_tool_calls(m.calls)
  OBVIOUS
<1>2. PICK tt, e, v : /\ tt = Blocks(s) /\ e = chat_finish_to_anthropic(h.finish)
                      /\ v = UsageFor("anthropic", h.usage)
  OBVIOUS
<1>3. ~AnyBad(uu) /\ b = [content |-> tt \o uu, stop_reason |-> e, usage |-> v, extra |-> FALSE]
  BY <1>1, <1>2, Zenon DEF chat_response_to_anthropic, parse_chat_response, Blocks
<1>4. PICK w : w = tt \o uu
  OBVIOUS
<1>5. b.content = w
  BY <1>3, <1>4
<1>6. PartsForm(b.content)
  BY ToAnthropicAnswer DEF ReplyForm
<1>7. IsSeq(uu) /\ \A i \in 1..Len(uu) : PlainBlock(uu[i])
  <2>1. IsSeq(uu)
    BY <1>1, UsesGood DEF ChatForm
  <2>2. DOMAIN uu = 1..Len(uu)
    BY <2>1, SeqIs
  <2>3. \A i \in DOMAIN uu : PlainBlock(uu[i])
    BY <1>1, <1>3, UsePlain
  <2> QED  BY <2>1, <2>2, <2>3
<1>8. IsSeq(tt) /\ \A i \in 1..Len(tt) : PlainBlock(tt[i])
  <2>1. CASE s = <<>>
    <3>1. tt = <<>>
      BY <1>2, <2>1, NoBlocks
    <3> QED  BY <3>1, Empty
  <2>2. CASE \E t : s = <<t>>
    <3>1. PICK t, p : s = <<t>> /\ p = [is |-> "text", text |-> t]
      BY <2>2
    <3>2. tt = <<p>>
      BY <1>2, <3>1, OneBlock
    <3>3. IsSeq(tt) /\ Len(tt) = 1 /\ tt[1] = p
      BY <3>2, One
    <3>4. PlainBlock(p)
      BY <3>1 DEF PlainBlock
    <3> QED  BY <3>3, <3>4
  <2> QED  BY <1>1, <2>1, <2>2 DEF SaidText
<1>9. PICK T : T = {p \in {tt[i] : i \in 1..Len(tt)} \cup {uu[i] : i \in 1..Len(uu)} : PlainBlock(p)}
  OBVIOUS
<1>10. \A i \in 1..Len(tt \o uu) : (tt \o uu)[i] \in T
  <2>1. \A i \in 1..Len(tt) : tt[i] \in T
    BY <1>8, <1>9
  <2>2. \A i \in 1..Len(uu) : uu[i] \in T
    BY <1>7, <1>9
  <2> QED  BY <1>7, <1>8, <2>1, <2>2, JoinedItems
<1>11. IsSeq(w) /\ DOMAIN w = 1..Len(w)
  BY <1>5, <1>6, SeqIs DEF PartsForm
<1>12. \A i \in DOMAIN w : PlainBlock(w[i])
  BY <1>4, <1>9, <1>10, <1>11
<1> QED  BY <1>5, <1>6, <1>12

LEMMA OutCallsPlain ==
  ASSUME NEW u, NEW calls, IsSeq(calls), u # "chat" => ObjectCalls(calls), NEW status,
         NEW ii, ii = OutCalls(calls, status)
  PROVE  \A i \in 1..Len(ii) : PlainOutput(u, ii[i])
<1>1. IsSeq(ii) /\ Len(ii) = Len(calls) /\ DOMAIN calls = 1..Len(calls)
  BY OutCallsAre, SeqIs
<1>2. ASSUME NEW i \in 1..Len(ii) PROVE PlainOutput(u, ii[i])
  <2>1. PICK c : c = calls[i]
    OBVIOUS
  <2>2. ii[i] = [is |-> "function_call", id |-> c.id, name |-> c.name, args |-> c.args,
                 status |-> status]
    BY <1>1, <1>2, <2>1 DEF OutCalls, Each
  <2>3. ii[i].is = "function_call" /\ ii[i].args = c.args
    BY <2>2
  <2>4. u # "chat" => c.args = "object"
    BY <1>1, <1>2, <2>1 DEF ObjectCalls
  <2> QED  BY <2>3, <2>4 DEF PlainOutput
<1> QED  BY <1>2

LEMMA ResponsesReplyPlain ==
  ASSUME NEW u, NEW h, NEW m, m = h.message, ChatForm(m), Unnamed(m),
         u # "chat" => ObjectCalls(m.calls),
         NEW b, b = chat_response_to_responses(h), b # Bad
  PROVE  IsSeq(b.output) /\ \A i \in 1..Len(b.output) : PlainOutput(u, b.output[i])
<1>1. PICK s, st : s = SaidText(m) /\ st = (IF h.finish = "length" THEN "incomplete" ELSE "completed")
  OBVIOUS
<1>2. PICK mm, cc, e, v :
        /\ mm = OutMessages(s, st) /\ cc = OutCalls(m.calls, st)
        /\ e = (IF h.finish = "length" THEN "max_output_tokens" ELSE "completed")
        /\ v = UsageFor("responses", h.usage)
  OBVIOUS
<1>3. b = [output |-> mm \o cc, status |-> e, usage |-> v, extra |-> FALSE]
  <2>1. b = IF ~parse_chat_response(h)
                 \/ h.finish \notin {"unset", "stop", "tool_calls", "length"}
              THEN Bad
              ELSE [output |->
                      OutMessages(SaidText(h.message),
                                  IF h.finish = "length" THEN "incomplete" ELSE "completed")
                        \o OutCalls(h.message.calls,
                                    IF h.finish = "length" THEN "incomplete" ELSE "completed"),
                    status |-> IF h.finish = "length" THEN "max_output_tokens" ELSE "completed",
                    usage |-> UsageFor("responses", h.usage), extra |-> FALSE]
    BY Zenon DEF chat_response_to_responses, OutMessages, OutCalls
  <2>2. ~(~parse_chat_response(h) \/ h.finish \notin {"unset", "stop", "tool_calls", "length"})
    BY <2>1, Zenon
  <2> QED  BY <1>1, <1>2, <2>1, <2>2, Zenon
<1>4. PICK w : w = mm \o cc
  OBVIOUS
<1>5. b.output = w
  BY <1>3, <1>4
<1>6. IsSeq(cc) /\ \A i \in 1..Len(cc) : PlainOutput(u, cc[i])
  BY <1>2, OutCallsAre, OutCallsPlain DEF ChatForm
<1>7. IsSeq(mm) /\ \A i \in 1..Len(mm) : PlainOutput(u, mm[i])
  <2>1. CASE s = <<>>
    <3>1. mm = <<>>
      BY <1>2, <2>1, NoMessages
    <3> QED  BY <3>1, Empty
  <2>2. CASE \E t : s = <<t>> /\ IsSeq(t)
    <3>1. PICK t, p : /\ s = <<t>> /\ IsSeq(t)
                      /\ p = [is |-> "message", text |-> t, status |-> st]
      BY <2>2
    <3>2. mm = <<p>>
      BY <1>2, <3>1, OneMessage
    <3>3. IsSeq(mm) /\ Len(mm) = 1 /\ mm[1] = p
      BY <3>2, One
    <3>4. PlainOutput(u, p)
      BY <3>1 DEF PlainOutput
    <3> QED  BY <3>3, <3>4
  <2> QED  BY <1>1, <2>1, <2>2, SaidTextIs
<1>8. PICK T : T = {p \in {mm[i] : i \in 1..Len(mm)} \cup {cc[i] : i \in 1..Len(cc)} : PlainOutput(u, p)}
  OBVIOUS
<1>9. IsSeq(mm \o cc) /\ \A i \in 1..Len(mm \o cc) : (mm \o cc)[i] \in T
  <2>1. \A i \in 1..Len(mm) : mm[i] \in T
    BY <1>7, <1>8
  <2>2. \A i \in 1..Len(cc) : cc[i] \in T
    BY <1>6, <1>8
  <2> QED  BY <1>6, <1>7, <2>1, <2>2, JoinedItems, Joined
<1> QED  BY <1>4, <1>5, <1>8, <1>9

LEMMA GeminiReplyPlain ==
  ASSUME NEW u, u # "gemini", NEW h, NEW m, m = h.message, HubMessage(u, m),
         NEW b, b = chat_response_to_gemini(h), b # Bad
  PROVE  /\ b.content.role = "model" /\ ContentForm(b.content)
         /\ \A i \in DOMAIN b.content.parts : PlainPart(b.content.parts[i])
<1>1. PICK t : t = chat_message_to_gemini(m)
  OBVIOUS
<1>2. PICK e, v : e = chat_finish_to_gemini(h.finish) /\ v = UsageFor("gemini", h.usage)
  OBVIOUS
<1>3. t # Bad /\ b = [content |-> t, finishReason |-> e, usage |-> v, extra |-> FALSE]
  BY <1>1, <1>2, Zenon DEF chat_response_to_gemini, parse_chat_response
<1>4. b.content = t
  BY <1>3
<1>5. /\ ChatForm(m) /\ Tidy(m) /\ m.role = "assistant" /\ IsSeq(m.calls) /\ PlainParts(m.content.parts)
      /\ \A i \in DOMAIN m.content.parts : m.content.parts[i].is = "text"
  BY DEF HubMessage, SaidPlainly, ChatForm
<1>6. t.role = "model" /\ ContentForm(t)
  BY <1>4, <1>5, ToGeminiAnswer DEF ReplyForm
<1>7. PICK qs, uu : qs = chat_content_to_gemini(m.content, FALSE) /\ uu = Each(ToGeminiCall, m.calls)
  OBVIOUS
<1>8. t.parts = qs \o uu /\ ~AnyBad(qs \o uu)
  <2>1. t = GeminiTurn(m)
    BY <1>1, GeminiTurnIs
  <2>2. PICK ps : ps = qs \o uu /\ ps = GeminiParts(m)
    BY <1>7 DEF GeminiParts
  <2>3. m.role # "tool" /\ m.role # "user"
    BY <1>5
  <2>4. PICK x : x = [role |-> "model", parts |-> ps]
    OBVIOUS
  <2>5. CASE ps # <<>> /\ ~AnyBad(ps)
    <3>1. GeminiTurn(m) = x
      BY <1>5, <2>2, <2>3, <2>4, <2>5, Zenon DEF GeminiTurn
    <3> QED  BY <2>1, <2>2, <2>4, <2>5, <3>1
  <2>6. CASE ~(ps # <<>> /\ ~AnyBad(ps))
    <3>1. GeminiTurn(m) = Bad
      BY <1>5, <2>2, <2>3, <2>6, Zenon DEF GeminiTurn
    <3> QED  BY <1>3, <2>1, <3>1
  <2> QED  BY <2>5, <2>6
<1>9. IsSeq(qs) /\ Len(qs) = Len(m.content.parts) /\ IsSeq(uu) /\ Len(uu) = Len(m.calls)
  <2>1. IsSeq(qs) /\ Len(qs) = Len(m.content.parts)
    <3>1. PICK content : content = m.content
      OBVIOUS
    <3>2. PlainParts(content.parts) /\ qs = chat_content_to_gemini(content, FALSE)
      BY <1>5, <1>7, <3>1
    <3> QED  BY <3>1, <3>2, ContentToGemini
  <2>2. IsSeq(uu) /\ Len(uu) = Len(m.calls)
    BY <1>5, <1>7, GeminiCallsGood
  <2> QED  BY <2>1, <2>2
<1>10. ~AnyBad(qs) /\ ~AnyBad(uu)
  BY <1>8, <1>9, BadJoined
<1>11. \A i \in 1..Len(qs) : PlainPart(qs[i])
  <2>1. qs = [i \in DOMAIN m.content.parts |-> ToGeminiPart(m.content.parts[i])]
    BY <1>7 DEF chat_content_to_gemini, ToGeminiPart, Each
  <2>2. DOMAIN qs = 1..Len(qs)
    BY <1>9, SeqIs
  <2>3. ASSUME NEW i \in 1..Len(qs) PROVE PlainPart(qs[i])
    <3>1. PICK p : p = m.content.parts[i] /\ p.is = "text" /\ qs[i] = ToGeminiPart(p)
      BY <1>5, <2>1, <2>2, <2>3
    <3>2. qs[i] = p
      BY <3>1 DEF ToGeminiPart
    <3> QED  BY <3>1, <3>2 DEF PlainPart
  <2> QED  BY <2>3
<1>12. \A i \in 1..Len(uu) : PlainPart(uu[i])
  <2>1. DOMAIN uu = 1..Len(uu) /\ DOMAIN uu = DOMAIN m.calls
        /\ \A i \in DOMAIN uu : uu[i] = ToGeminiCall(m.calls[i])
    BY <1>7, <1>9, SeqIs DEF Each
  <2>2. ASSUME NEW i \in 1..Len(uu) PROVE PlainPart(uu[i])
    <3>1. PICK c, p : c = m.calls[i] /\ p = [is |-> "functionCall", id |-> c.id, name |-> c.name,
                                             args |-> c.args]
      OBVIOUS
    <3>2. uu[i] # Bad /\ uu[i] = ToGeminiCall(c)
      BY <1>10, <2>1, <2>2, <3>1 DEF AnyBad
    <3>3. c.args = "object" /\ uu[i] = p
      BY <3>1, <3>2 DEF ToGeminiCall
    <3> QED  BY <3>1, <3>3 DEF PlainPart
  <2> QED  BY <2>2
<1>13. PICK T : T = {p \in {qs[i] : i \in 1..Len(qs)} \cup {uu[i] : i \in 1..Len(uu)} : PlainPart(p)}
  OBVIOUS
<1>14. IsSeq(qs \o uu) /\ \A i \in 1..Len(qs \o uu) : (qs \o uu)[i] \in T
  <2>1. \A i \in 1..Len(qs) : qs[i] \in T
    BY <1>11, <1>13
  <2>2. \A i \in 1..Len(uu) : uu[i] \in T
    BY <1>12, <1>13
  <2> QED  BY <1>9, <2>1, <2>2, JoinedItems, Joined
<1>15. \A i \in DOMAIN t.parts : PlainPart(t.parts[i])
  <2>1. PICK w : w = qs \o uu
    OBVIOUS
  <2>2. DOMAIN w = 1..Len(w)
    BY <1>14, <2>1, SeqIs
  <2> QED  BY <1>8, <1>13, <1>14, <2>1, <2>2
<1> QED  BY <1>4, <1>6, <1>15

ReplyPlain(c, u, b) ==
  /\ c = "chat" => HubMessage(u, b.message)
  /\ c = "responses" =>
       IsSeq(b.output) /\ \A i \in 1..Len(b.output) : PlainOutput(u, b.output[i])
  /\ c = "anthropic" =>
       PartsForm(b.content) /\ \A i \in DOMAIN b.content : PlainBlock(b.content[i])
  /\ c = "gemini" =>
       /\ b.content.role = "model" /\ ContentForm(b.content)
       /\ \A i \in DOMAIN b.content.parts : PlainPart(b.content.parts[i])

(* A reply is made of what its target can be sent back.                    *)
LEMMA RepliedPlainly ==
  ASSUME NEW c \in Format, NEW u \in Format, c # u, NEW a, Answered(u, a),
         NEW b, b = translate_response(u, c, a), b # Bad
  PROVE  ReplyPlain(c, u, b)
<1>1. PICK h : h = response_to_chat(u, a)
  OBVIOUS
<1>2. h # Bad /\ b = response_from_chat(c, h)
  BY <1>1, Zenon DEF translate_response
<1>3. ASSUME u = "chat" PROVE h.message.role = "assistant"
  <2>1. parse_chat_response(h)
    <3>1. CASE c = "responses"
      <4>1. b = chat_response_to_responses(h)
        BY <1>2, <3>1 DEF response_from_chat
      <4> QED  BY <4>1, Zenon DEF chat_response_to_responses
    <3>2. CASE c = "anthropic"
      <4>1. b = chat_response_to_anthropic(h)
        BY <1>2, <3>2 DEF response_from_chat
      <4> QED  BY <4>1, Zenon DEF chat_response_to_anthropic
    <3>3. CASE c = "gemini"
      <4>1. b = chat_response_to_gemini(h)
        BY <1>2, <3>3 DEF response_from_chat
      <4> QED  BY <4>1, Zenon DEF chat_response_to_gemini
    <3> QED  BY <1>3, <3>1, <3>2, <3>3 DEF Format
  <2> QED  BY <2>1 DEF parse_chat_response
<1>4. PICK m : m = h.message /\ HubMessage(u, m)
  BY <1>1, <1>2, <1>3, AnsweredPlainly
<1>5. ChatForm(m) /\ Unnamed(m)
  BY <1>4, Zenon DEF HubMessage, Tidy, Unnamed
<1>6. ASSUME c = "chat" PROVE HubMessage(u, b.message)
  <2>1. b = h
    BY <1>2, <1>6 DEF response_from_chat
  <2> QED  BY <1>4, <2>1
<1>7. ASSUME c = "responses"
      PROVE  IsSeq(b.output) /\ \A i \in 1..Len(b.output) : PlainOutput(u, b.output[i])
  <2>1. b = chat_response_to_responses(h)
    BY <1>2, <1>7 DEF response_from_chat
  <2>2. u # "chat" => ObjectCalls(m.calls)
    BY <1>4, <1>7 DEF HubMessage, Format
  <2> QED  BY <1>4, <1>5, <2>1, <2>2, ResponsesReplyPlain
<1>8. ASSUME c = "anthropic"
      PROVE  PartsForm(b.content) /\ \A i \in DOMAIN b.content : PlainBlock(b.content[i])
  <2>1. b = chat_response_to_anthropic(h)
    BY <1>2, <1>8 DEF response_from_chat
  <2> QED  BY <1>4, <1>5, <2>1, AnthropicReplyPlain
<1>9. ASSUME c = "gemini"
      PROVE  /\ b.content.role = "model" /\ ContentForm(b.content)
             /\ \A i \in DOMAIN b.content.parts : PlainPart(b.content.parts[i])
  <2>1. b = chat_response_to_gemini(h) /\ u # "gemini"
    BY <1>2, <1>9 DEF response_from_chat
  <2> QED  BY <1>4, <2>1, GeminiReplyPlain
<1> QED  BY <1>6, <1>7, <1>8, <1>9 DEF ReplyPlain

-----------------------------------------------------------------------------
(* The turns a client adds - what it was answered, and the results of the  *)
(* calls in it - are each welcome to the target.                           *)

OfAssistant(m, content, calls) == m = Message("assistant", content, calls, "", "")

LEMMA MessageFields ==
  ASSUME NEW content, NEW calls, NEW m, OfAssistant(m, content, calls)
  PROVE  m.role = "assistant" /\ m.content = content /\ m.calls = calls /\ m # Bad
<1>1. m.role = "assistant" /\ m.content = content /\ m.calls = calls
  BY DEF Message, OfAssistant
<1>2. "role" \in DOMAIN m /\ "role" \notin DOMAIN Bad
  BY DEF Message, OfAssistant, Bad
<1> QED  BY <1>1, <1>2

LEMMA UsesObjects ==
  ASSUME NEW uu, IsSeq(uu), \A i \in 1..Len(uu) : uu[i].args = "object",
         NEW calls, calls = Each(convert_anthropic_tool_use, uu)
  PROVE  IsSeq(calls) /\ Len(calls) = Len(uu) /\ ~AnyBad(calls) /\ ObjectCalls(calls)
<1>1. DOMAIN uu = 1..Len(uu)
  BY SeqIs
<1>2. /\ DOMAIN calls = DOMAIN uu /\ calls = [i \in DOMAIN calls |-> calls[i]]
      /\ \A i \in DOMAIN uu : calls[i] = convert_anthropic_tool_use(uu[i])
  BY DEF Each
<1>3. IsSeq(calls) /\ Len(calls) = Len(uu)
  BY <1>2, Imaged
<1>4. ASSUME NEW i \in DOMAIN calls PROVE calls[i].args = "object" /\ calls[i] # Bad
  <2>1. PICK p, l : p = uu[i] /\ p.args = "object" /\ l = Call(p.id, p.name, p.args)
    BY <1>1, <1>2, <1>4
  <2>2. calls[i] = l
    BY <1>2, <1>4, <2>1 DEF convert_anthropic_tool_use
  <2>3. l.args = "object" /\ "args" \in DOMAIN l /\ "args" \notin DOMAIN Bad
    BY <2>1 DEF Call, Bad
  <2> QED  BY <2>2, <2>3
<1> QED  BY <1>3, <1>4 DEF AnyBad, ObjectCalls

(* An assistant's blocks, taken back, are a message the target takes.      *)
LEMMA BlocksSuit ==
  ASSUME NEW u \in Format, NEW c, Content(c), PartsForm(c.parts), c.form = "parts",
         \A i \in DOMAIN c.parts : PlainBlock(c.parts[i]),
         Spoke("assistant", c.parts) # <<>>,
         NEW m, m = anthropic_assistant_to_openai(c)
  PROVE  Suits(u, m)
<1>1. PICK parts : parts = c.parts /\ PlainParts(parts)
  BY PartsPlain
<1>2. IsSeq(parts) /\ DOMAIN parts = 1..Len(parts)
  BY <1>1, SeqIs DEF PlainParts
<1>3. PICK K, U : K = Where(parts, {"text"}) /\ U = Where(parts, {"tool_use"})
  OBVIOUS
<1>4. PICK texts, uu : texts = Picked(parts, K) /\ uu = Picked(parts, U)
  OBVIOUS
<1>5. /\ With(parts, LAMBDA p : p.is = "text") = texts
      /\ With(parts, LAMBDA p : p.is = "tool_use") = uu
  BY <1>3, <1>4, BlockPicks
<1>6. PICK calls : calls = Each(convert_anthropic_tool_use, uu)
  OBVIOUS
<1>7. IsSeq(uu) /\ \A j \in 1..Len(uu) : \E i \in U \cap 1..Len(parts) : uu[j] = parts[i]
  BY <1>2, <1>4, PickedFrom
<1>8. IsSeq(texts) /\ \A j \in 1..Len(texts) : \E i \in K \cap 1..Len(parts) : texts[j] = parts[i]
  BY <1>2, <1>4, PickedFrom
<1>9. \A j \in 1..Len(uu) : uu[j].args = "object"
  <2>1. \A i \in U : parts[i].args = "object"
    BY <1>1, <1>3 DEF Where, PlainBlock
  <2> QED  BY <1>7, <2>1
<1>10. IsSeq(calls) /\ Len(calls) = Len(uu) /\ ~AnyBad(calls) /\ ObjectCalls(calls)
  BY <1>6, <1>7, <1>9, UsesObjects
<1>11. PICK h : h = IF texts = <<>> THEN Absent ELSE collapse_text_parts(texts)
  OBVIOUS
<1>12. parts # <<>>
  BY <1>1, SpokeNone
<1>13. \A i \in DOMAIN parts : parts[i].is \in {"text", "tool_use"}
  BY <1>1 DEF PlainBlock
<1>14. OfAssistant(m, h, calls)
  BY <1>1, <1>5, <1>6, <1>10, <1>11, <1>12, <1>13, Zenon DEF anthropic_assistant_to_openai, OfAssistant
<1>15. m.role = "assistant" /\ m.content = h /\ m.calls = calls /\ m # Bad
  BY <1>14, MessageFields
<1>16. /\ ChatForm(m) /\ Tidy(m)
       /\ (\A j, k \in DOMAIN c.parts :
             j < k => ~(c.parts[j].is = "tool_use" /\ c.parts[k].is = "text"))
            => ChatTurn(m) = Spoke("assistant", c.parts)
  BY <1>15, AnthropicAssistantTold
<1>17. \A i \in DOMAIN h.parts : SaidPlainly(u, h.parts[i])
  <2>1. CASE texts = <<>>
    <3>1. h.parts = <<>>
      BY <1>11, <2>1, AbsentSays
    <3> QED  BY <3>1, Nowhere
  <2>2. CASE texts # <<>>
    <3>1. h = collapse_text_parts(texts)
      BY <1>11, <2>2
    <3>2. DOMAIN texts = 1..Len(texts)
      BY <1>8, SeqIs
    <3>3. \A i \in K : parts[i].is = "text"
      BY <1>3 DEF Where
    <3>4. \A j \in DOMAIN texts : SaidPlainly(u, texts[j])
      BY <1>8, <3>2, <3>3 DEF SaidPlainly
    <3> QED  BY <3>1, <3>4, CollapsedPlainly
  <2> QED  BY <2>1, <2>2
<1>18. HubMessage(u, m)
  BY <1>10, <1>15, <1>16, <1>17 DEF HubMessage
<1>19. Says(m)
  <2>1. CASE calls # <<>>
    BY <1>15, <2>1 DEF Says
  <2>2. CASE calls = <<>>
    <3>1. Len(uu) = 0
      BY <1>10, <2>2, Empty
    <3>2. \A i \in DOMAIN parts : parts[i].is # "tool_use"
      <4>1. ASSUME NEW i \in DOMAIN parts, parts[i].is = "tool_use" PROVE FALSE
        <5>1. i \in U \cap 1..Len(parts)
          BY <1>2, <1>3, <4>1 DEF Where
        <5>2. \E j \in 1..Len(uu) : uu[j] = parts[i]
          BY <1>2, <1>4, <5>1, PickedHas
        <5> QED  BY <3>1, <5>2
      <4> QED  BY <4>1
    <3>3. ChatTurn(m) = Spoke("assistant", c.parts)
      BY <1>1, <1>16, <3>2
    <3> QED  BY <1>15, <1>16, <3>3, SpeaksSays
  <2> QED  BY <2>1, <2>2
<1> QED  BY <1>18, <1>19, UttersSuits

LEMMA SuitsOne ==
  ASSUME NEW u, NEW m, Suits(u, m), NEW ms, ms = <<m>>
  PROVE  SuitAll(u, ms)
<1>1. IsSeq(ms) /\ Len(ms) = 1 /\ ms[1] = m
  BY One
<1>2. \A i \in 1..1 : i = 1
  OBVIOUS
<1> QED  BY <1>1, <1>2 DEF SuitAll

LEMMA TextPartIsKept ==
  ASSUME NEW ps, NEW said, said = Each(gemini_part_to_chat, ps), IsSeq(ps),
         \A i \in 1..Len(ps) : ps[i].is = "text"
  PROVE  said = ps /\ ~AnyBad(said)
<1>1. DOMAIN ps = 1..Len(ps) /\ ps = [i \in 1..Len(ps) |-> ps[i]]
  BY SeqIs
<1>2. \A i \in DOMAIN ps : gemini_part_to_chat(ps[i]) = ps[i]
  BY <1>1 DEF gemini_part_to_chat
<1>3. said = [i \in DOMAIN ps |-> gemini_part_to_chat(ps[i])]
  BY DEF Each
<1>4. said = [i \in DOMAIN ps |-> ps[i]]
  BY <1>2, <1>3
<1>5. said = ps
  BY <1>1, <1>4
<1>6. \A i \in DOMAIN ps : ps[i] # Bad
  BY <1>1 DEF Bad
<1> QED  BY <1>5, <1>6 DEF AnyBad

(* A model's content of texts and calls, taken back, likewise.             *)
LEMMA ContentSuits ==
  ASSUME NEW u \in Format, NEW t, ContentForm(t), t.role = "model",
         \A i \in DOMAIN t.parts : PlainPart(t.parts[i]),
         Spoke("assistant", t.parts) # <<>>
  PROVE  SuitAll(u, gemini_content_to_chat(t))
<1>1. PICK parts : parts = t.parts /\ PlainParts(parts)
  BY PartsPlain DEF ContentForm
<1>2. IsSeq(parts) /\ DOMAIN parts = 1..Len(parts) /\ Len(parts) \in Nat
  BY <1>1, SeqIs DEF PlainParts
<1>3. PICK R, C, S : /\ R = Where(t.parts, {"functionResponse"})
                     /\ C = Where(t.parts, {"functionCall"}) /\ S = DOMAIN t.parts \ (R \cup C)
  OBVIOUS
<1>4. PICK ps, uu : ps = Picked(t.parts, S) /\ uu = Picked(t.parts, C)
  OBVIOUS
<1>5. PICK said, calls, results :
        /\ said = Each(gemini_part_to_chat, ps)
        /\ calls = Each(LAMBDA p : Call(p.id, p.name, p.args), uu)
        /\ results = Each(LAMBDA p : Result(p.id, p.name, Str(Json(p.response))),
                          Picked(t.parts, R))
  OBVIOUS
<1>6. PICK ms : ms = gemini_content_to_chat(t) /\ ms = GeminiHub(t, said, calls, results)
  BY <1>3, <1>4, <1>5, GeminiContent
<1>7. \A i \in DOMAIN parts : parts[i].is \in {"text", "functionCall"}
  BY <1>1 DEF PlainPart
<1>8. R = {}
  BY <1>1, <1>3, <1>7 DEF Where
<1>9. results = <<>>
  <2>1. Picked(t.parts, R) = <<>>
    BY <1>1, <1>2, <1>8, PickedEmpty
  <2> QED  BY <1>5, <2>1, SMT DEF Each
<1>10. IsSeq(uu) /\ \A j \in 1..Len(uu) : \E i \in C \cap 1..Len(parts) : uu[j] = parts[i]
  BY <1>1, <1>2, <1>4, PickedFrom
<1>11. IsSeq(ps) /\ \A j \in 1..Len(ps) : \E i \in S \cap 1..Len(parts) : ps[j] = parts[i]
  BY <1>1, <1>2, <1>4, PickedFrom
<1>12. \A i \in C : parts[i].args = "object" /\ parts[i].is = "functionCall"
  BY <1>1, <1>3 DEF Where, PlainPart
<1>13. \A i \in S : parts[i].is = "text"
  BY <1>1, <1>3, <1>7 DEF Where
<1>14. \A j \in 1..Len(ps) : ps[j].is = "text"
  BY <1>11, <1>13
<1>15. said = ps /\ ~AnyBad(said)
  BY <1>5, <1>11, <1>14, TextPartIsKept
<1>16. IsSeq(calls) /\ Len(calls) = Len(uu) /\ ObjectCalls(calls)
  <2>1. DOMAIN uu = 1..Len(uu)
    BY <1>10, SeqIs
  <2>2. /\ DOMAIN calls = DOMAIN uu /\ calls = [i \in DOMAIN calls |-> calls[i]]
        /\ \A j \in DOMAIN uu : calls[j].args = uu[j].args
    BY <1>5 DEF Each, Call
  <2>3. \A j \in 1..Len(uu) : uu[j].args = "object"
    BY <1>10, <1>12
  <2>4. IsSeq(calls) /\ Len(calls) = Len(uu)
    BY <1>10, <2>2, Imaged
  <2> QED  BY <2>1, <2>2, <2>3, <2>4 DEF ObjectCalls
<1>17. GoodContent(t, said)
  BY <1>1, <1>3, <1>12, <1>15 DEF GoodContent, Where
<1>18. ~(said = <<>> /\ calls = <<>>)
  <2>1. ASSUME said = <<>>, calls = <<>> PROVE FALSE
    <3>1. Len(ps) = 0 /\ Len(uu) = 0
      BY <1>15, <1>16, <2>1, Empty
    <3>2. parts # <<>>
      BY <1>1, SpokeNone
    <3>3. 1 \in 1..Len(parts)
      BY <1>2, <3>2, Empty
    <3>4. 1 \in S \/ 1 \in C
      BY <1>1, <1>2, <1>3, <1>8, <3>3
    <3>5. CASE 1 \in S
      <4>1. 1 \in S \cap 1..Len(parts)
        BY <3>3, <3>5
      <4>2. \E j \in 1..Len(Picked(parts, S)) : Picked(parts, S)[j] = parts[1]
        BY <1>2, <4>1, PickedHas
      <4> QED  BY <1>1, <1>4, <3>1, <4>2
    <3>6. CASE 1 \in C
      <4>1. 1 \in C \cap 1..Len(parts)
        BY <3>3, <3>6
      <4>2. \E j \in 1..Len(Picked(parts, C)) : Picked(parts, C)[j] = parts[1]
        BY <1>2, <4>1, PickedHas
      <4> QED  BY <1>1, <1>4, <3>1, <4>2
    <3> QED  BY <3>4, <3>5, <3>6
  <2> QED  BY <2>1
<1>19. PICK h, m : h = collapse_text_parts(said) /\ m = Message("assistant", h, calls, "", "")
  OBVIOUS
<1>20. m.role = "assistant" /\ m.content = h /\ m.calls = calls /\ m # Bad
  <2>1. OfAssistant(m, h, calls)
    BY <1>19, Zenon DEF OfAssistant
  <2> QED  BY <2>1, MessageFields
<1>21. ms = <<m>>
  <2>1. HubRole(t.role) = "assistant"
    BY DEF HubRole
  <2>2. ms = Append(results, m)
    BY <1>6, <1>17, <1>18, <1>19, <2>1 DEF GeminiHub
  <2>3. Append(<<>>, m) = <<>> \o <<m>> /\ <<>> \o <<m>> = <<m>>
    BY One, Empty, Appended
  <2> QED  BY <1>9, <2>2, <2>3
<1>22. PICK spoken : spoken = Spoke(Speaker(t.role), t.parts)
  OBVIOUS
<1>23. /\ Hub(ms) /\ AllTidy(ms)
       /\ (Typeless(t.parts) /\ Sequenced(t.parts)) => Tells(ms, spoken)
  BY <1>6, <1>22, GeminiContentTold
<1>24. ChatForm(m) /\ Tidy(m)
  <2>1. IsSeq(ms) /\ Len(ms) = 1 /\ ms[1] = m
    BY <1>21, One
  <2> QED  BY <1>20, <1>23, <2>1 DEF Hub, AllTidy
<1>25. HubMessage(u, m)
  <2>1. DOMAIN said = 1..Len(said)
    BY <1>11, <1>15, SeqIs
  <2>2. \A i \in DOMAIN said : SaidPlainly(u, said[i])
    BY <1>14, <1>15, <2>1 DEF SaidPlainly
  <2>3. \A i \in DOMAIN h.parts : SaidPlainly(u, h.parts[i])
    BY <1>19, <2>2, CollapsedPlainly
  <2> QED  BY <1>16, <1>20, <1>24, <2>3 DEF HubMessage
<1>26. Says(m)
  <2>1. CASE calls # <<>>
    BY <1>20, <2>1 DEF Says
  <2>2. CASE calls = <<>>
    <3>1. Len(uu) = 0
      BY <1>16, <2>2, Empty
    <3>2. \A i \in DOMAIN parts : parts[i].is = "text"
      <4>1. ASSUME NEW i \in DOMAIN parts, parts[i].is = "functionCall" PROVE FALSE
        <5>1. i \in C \cap 1..Len(parts)
          BY <1>1, <1>2, <1>3, <4>1 DEF Where
        <5>2. \E j \in 1..Len(Picked(parts, C)) : Picked(parts, C)[j] = parts[i]
          BY <1>2, <5>1, PickedHas
        <5> QED  BY <1>1, <1>4, <3>1, <5>2
      <4> QED  BY <1>7, <4>1
    <3>3. Typeless(t.parts) /\ Sequenced(t.parts)
      BY <1>1, <3>2 DEF Typeless, Sequenced
    <3>4. Concat(Told(ms)) = spoken
      <4>1. ~AnyBad(ms)
        BY <1>20, <1>21, <1>23, One, BadPart DEF Hub
      <4> QED  BY <1>23, <3>3, <4>1 DEF Tells
    <3>5. ChatTurn(m) = spoken
      BY <1>21, <1>24, <3>4, ToldOne
    <3>6. spoken # <<>>
      BY <1>22 DEF Speaker
    <3> QED  BY <1>20, <1>24, <3>5, <3>6, SpeaksSays
  <2> QED  BY <2>1, <2>2
<1>27. Suits(u, m)
  BY <1>25, <1>26, UttersSuits
<1> QED  BY <1>6, <1>21, <1>27, SuitsOne

(* Each turn that is taken from a reply is welcome to the target it came   *)
(* from.                                                                   *)
LEMMA WelcomeOne ==
  ASSUME NEW c, NEW u, NEW t, Welcome(c, u, t)
  PROVE  WelcomeAll(c, u, <<t>>)
<1>1. PICK s : s = <<t>>
  OBVIOUS
<1>2. IsSeq(s) /\ Len(s) = 1 /\ s[1] = t
  BY <1>1, One
<1>3. \A i \in 1..1 : i = 1
  OBVIOUS
<1> QED  BY <1>1, <1>2, <1>3 DEF WelcomeAll

LEMMA BlocksTaken ==
  ASSUME NEW u \in Format, NEW parts, PartsForm(parts),
         \A i \in DOMAIN parts : PlainBlock(parts[i]),
         NEW t, t = [role |-> "assistant", content |-> Parts(parts)],
         Turn("anthropic", t) # <<>>
  PROVE  Welcome("anthropic", u, t)
<1>1. PICK c : c = Parts(parts) /\ Content(c) /\ c.parts = parts /\ c.form = "parts"
  <2>1. PICK c : c = Parts(parts)
    OBVIOUS
  <2>2. c.form = "parts"
    BY <2>1 DEF Parts
  <2> QED  BY <2>1, <2>2, PartsContent
<1>2. t.role = "assistant" /\ t.content = c
  BY <1>1
<1>3. Spoke("assistant", c.parts) # <<>>
  BY <1>2 DEF Turn
<1>4. PICK m : m = anthropic_assistant_to_openai(c)
  OBVIOUS
<1>5. Suits(u, m)
  BY <1>1, <1>3, <1>4, BlocksSuit
<1>6. convert_anthropic_message(t) = <<m>>
  BY <1>2, <1>4 DEF convert_anthropic_message
<1>7. SuitAll(u, convert_anthropic_message(t))
  BY <1>5, <1>6, SuitsOne
<1>8. TurnForm("anthropic", t)
  BY <1>1, <1>2 DEF TurnForm
<1> QED  BY <1>7, <1>8 DEF Welcome

LEMMA ItemTakenBack ==
  ASSUME NEW u \in Format, NEW i, PlainOutput(u, i), NEW t, t = TakenItem(i)
  PROVE  Welcome("responses", u, t)
<1>1. ItemForm(t)
  BY TakenItemForm DEF PlainOutput
<1>2. ItemGoesOn(u, t)
  <2>1. CASE i.is = "message" /\ IsSeq(i.text)
    <3>1. PICK text : text = i.text
      OBVIOUS
    <3>2. PICK p : p = [is |-> "output_text", text |-> text]
      OBVIOUS
    <3>3. PICK s : s = <<p>> /\ s[1] = p
      BY One
    <3>4. PICK c : c = Parts(s) /\ c.parts = s
      BY PartsContent
    <3>5. t = [is |-> "message", role |-> "assistant", content |-> c]
      BY <2>1, <3>1, <3>2, <3>3, <3>4 DEF TakenItem
    <3>6. t.is = "message" /\ t.role = "assistant" /\ t.content = c
      BY <3>5
    <3>7. t.content.parts[1].text = text
      BY <3>2, <3>3, <3>4, <3>6
    <3>8. t.content = Parts(<<[is |-> "output_text", text |-> t.content.parts[1].text]>>)
      BY <3>2, <3>3, <3>4, <3>6, <3>7
    <3> QED  BY <2>1, <3>1, <3>6, <3>7, <3>8 DEF ItemGoesOn
  <2>2. CASE i.is = "function_call" /\ (u # "chat" => i.args = "object")
    <3>1. t = [is |-> "function_call", id |-> i.id, name |-> i.name, args |-> i.args]
      BY <2>2 DEF TakenItem
    <3>2. t.is = "function_call" /\ t.args = i.args
      BY <3>1
    <3> QED  BY <2>2, <3>2 DEF ItemGoesOn
  <2> QED  BY <2>1, <2>2 DEF PlainOutput
<1> QED  BY <1>1, <1>2 DEF Welcome, TurnForm

(* What a reply is taken into the document as, the target takes back.      *)
LEMMA TakenIsWelcome ==
  ASSUME NEW c \in Format, NEW u \in Format, NEW b, ReplyForm(c, b), ReplyPlain(c, u, b),
         \A i \in 1..Len(Taken(c, b)) : Turn(c, Taken(c, b)[i]) # <<>>
  PROVE  WelcomeAll(c, u, Taken(c, b))
<1>1. CASE c = "chat"
  <2>1. PICK m : m = b.message
    OBVIOUS
  <2>2. PICK s : s = <<m>> /\ s[1] = m /\ Len(s) = 1
    BY One
  <2>3. Taken(c, b) = s
    BY <1>1, <2>1, <2>2 DEF Taken
  <2>4. Turn(c, m) # <<>>
    BY <2>2, <2>3
  <2>5. HubMessage(u, m) /\ ChatTurn(m) # <<>>
    BY <1>1, <2>1, <2>4 DEF ReplyPlain, Turn
  <2>6. ChatForm(m) /\ Suits(u, m)
    BY <2>5, SpeaksSays, UttersSuits DEF HubMessage
  <2>7. Welcome(c, u, m)
    BY <1>1, <2>6 DEF Welcome, TurnForm
  <2> QED  BY <2>2, <2>3, <2>7, WelcomeOne
<1>2. CASE c = "anthropic"
  <2>1. PICK parts : parts = b.content
    OBVIOUS
  <2>2. PICK t : t = [role |-> "assistant", content |-> Parts(parts)]
    OBVIOUS
  <2>3. PICK s : s = <<t>> /\ s[1] = t /\ Len(s) = 1
    BY One
  <2>4. Taken(c, b) = s
    BY <1>2, <2>1, <2>2, <2>3 DEF Taken
  <2>5. Turn(c, t) # <<>>
    BY <2>3, <2>4
  <2>6. PartsForm(parts) /\ \A i \in DOMAIN parts : PlainBlock(parts[i])
    BY <1>2, <2>1 DEF ReplyPlain
  <2>7. Welcome(c, u, t)
    BY <1>2, <2>2, <2>5, <2>6, BlocksTaken
  <2> QED  BY <2>3, <2>4, <2>7, WelcomeOne
<1>3. CASE c = "gemini"
  <2>1. PICK t : t = b.content
    OBVIOUS
  <2>2. PICK s : s = <<t>> /\ s[1] = t /\ Len(s) = 1
    BY One
  <2>3. Taken(c, b) = s
    BY <1>3, <2>1, <2>2 DEF Taken
  <2>4. Turn(c, t) # <<>>
    BY <2>2, <2>3
  <2>5. t.role = "model" /\ ContentForm(t) /\ \A i \in DOMAIN t.parts : PlainPart(t.parts[i])
    BY <1>3, <2>1 DEF ReplyPlain
  <2>6. Spoke("assistant", t.parts) # <<>>
    BY <1>3, <2>4, <2>5 DEF Turn, Speaker
  <2>7. SuitAll(u, gemini_content_to_chat(t))
    BY <2>5, <2>6, ContentSuits
  <2>8. Welcome(c, u, t)
    BY <1>3, <2>5, <2>7 DEF Welcome, TurnForm
  <2> QED  BY <2>2, <2>3, <2>8, WelcomeOne
<1>4. CASE c = "responses"
  <2>1. PICK o, t : o = b.output /\ t = [i \in DOMAIN o |-> TakenItem(o[i])]
    OBVIOUS
  <2>2. Taken(c, b) = t
    BY <1>4, <2>1 DEF Taken, Each, TakenItem
  <2>3. IsSeq(o) /\ \A i \in 1..Len(o) : PlainOutput(u, o[i])
    BY <1>4, <2>1 DEF ReplyPlain
  <2>4. DOMAIN t = DOMAIN o /\ t = [i \in DOMAIN t |-> t[i]] /\ DOMAIN o = 1..Len(o)
    BY <2>1, <2>3, SeqIs
  <2>5. IsSeq(t) /\ Len(t) = Len(o)
    BY <2>3, <2>4, Imaged
  <2>6. ASSUME NEW i \in 1..Len(t) PROVE Welcome(c, u, t[i])
    <3>1. PICK x : x = o[i] /\ PlainOutput(u, x) /\ t[i] = TakenItem(x)
      BY <2>1, <2>3, <2>4, <2>5
    <3>2. Welcome("responses", u, t[i])
      BY <3>1, ItemTakenBack
    <3> QED  BY <1>4, <3>2
  <2> QED  BY <2>2, <2>5, <2>6 DEF WelcomeAll
<1> QED  BY <1>1, <1>2, <1>3, <1>4 DEF Format

LEMMA NamedResult ==
  ASSUME NEW u, NEW id, NEW name, NEW c, NEW m, m = Result(id, name, c), (u = "gemini") => Named(m)
  PROVE  Callable(u, name)
<1>1. m.role = "tool" /\ m.name = name
  BY DEF Result, Message
<1> QED  BY <1>1, Zenon DEF Named, Callable

LEMMA OneWord == ASSUME NEW text, text = <<"done">> PROVE IsSeq(text)
  BY One

(* The results of a message of Chat, each a message.                       *)
LEMMA ChatResultsWelcome ==
  ASSUME NEW u \in Format, NEW calls, IsSeq(calls), NEW named,
         NEW t, t = [i \in DOMAIN calls |-> ChatResult(calls[i], named)],
         (u = "gemini") => \A i \in 1..Len(t) : Named(t[i])
  PROVE  WelcomeAll("chat", u, t)
<1>1. DOMAIN t = DOMAIN calls /\ t = [i \in DOMAIN t |-> t[i]] /\ DOMAIN calls = 1..Len(calls)
  BY SeqIs
<1>2. IsSeq(t) /\ Len(t) = Len(calls)
  BY <1>1, Imaged
<1>3. ASSUME NEW i \in 1..Len(t) PROVE Welcome("chat", u, t[i])
  <2>1. t[i] = ChatResult(calls[i], named)
    BY <1>1, <1>2, <1>3
  <2>2. PICK id, name, text : t[i] = Result(id, name, Str(text)) /\ text = <<"done">>
    BY <2>1, Zenon DEF ChatResult
  <2>3. IsSeq(text)
    BY <2>2, OneWord
  <2>4. (u = "gemini") => Named(t[i])
    BY <1>3
  <2>5. PICK m : m = t[i]
    OBVIOUS
  <2>6. m = Result(id, name, Str(text)) /\ ((u = "gemini") => Named(m))
    BY <2>2, <2>4, <2>5
  <2>7. Callable(u, name)
    BY <2>6, NamedResult
  <2>8. Suits(u, m)
    BY <2>3, <2>6, <2>7, ResultSuits
  <2>9. ChatForm(m)
    BY <2>8 DEF Suits
  <2> QED  BY <2>5, <2>8, <2>9 DEF Welcome, TurnForm
<1> QED  BY <1>2, <1>3 DEF WelcomeAll

LEMMA OutputsWelcome ==
  ASSUME NEW u \in Format, u # "gemini", NEW calls, IsSeq(calls),
         NEW t, t = [i \in DOMAIN calls |-> CallOutput(calls[i])]
  PROVE  WelcomeAll("responses", u, t)
<1>1. DOMAIN t = DOMAIN calls /\ t = [i \in DOMAIN t |-> t[i]] /\ DOMAIN calls = 1..Len(calls)
  BY SeqIs
<1>2. IsSeq(t) /\ Len(t) = Len(calls)
  BY <1>1, Imaged
<1>3. ASSUME NEW i \in 1..Len(t) PROVE Welcome("responses", u, t[i])
  <2>1. PICK o, text : o = t[i] /\ text = <<"done">> /\ o = CallOutput(calls[i])
    BY <1>1, <1>2, <1>3
  <2>2. ItemForm(o)
    BY <2>1, DoneForms
  <2>3. o.is = "function_call_output" /\ o.text = text
    BY <2>1 DEF CallOutput
  <2>4. IsSeq(text)
    BY <2>1, OneWord
  <2>5. ItemGoesOn(u, o)
    BY <2>3, <2>4 DEF ItemGoesOn
  <2> QED  BY <2>1, <2>2, <2>5 DEF Welcome, TurnForm
<1> QED  BY <1>2, <1>3 DEF WelcomeAll

(* The results of an Anthropic turn become a message each.                 *)
AllResults(u, ms, n) ==
  /\ IsSeq(ms) /\ Len(ms) = n
  /\ \A i \in 1..Len(ms) : Suits(u, ms[i]) /\ ms[i].role = "tool"

LEMMA ResultsGood ==
  ASSUME NEW u, NEW ms, NEW n, AllResults(u, ms, n)
  PROVE  ~AnyBad(ms)
<1>1. ChatForms(ms)
  BY DEF AllResults, Suits, ChatForms
<1> QED  BY <1>1, FormsAreHub

LEMMA OneMoreResult ==
  ASSUME NEW u \in Format, u # "gemini", NEW ms, NEW n \in Nat, AllResults(u, ms, n),
         NEW call, NEW p, p = ToolResult(call), NEW ns, ns = anthropic_user_part_to_openai(ms, p)
  PROVE  AllResults(u, ns, n + 1)
<1>1. ~AnyBad(ms)
  BY ResultsGood
<1>2. PICK text : text = <<"done">> /\ IsSeq(text)
  BY OneWord
<1>3. PICK s : s = Str(text) /\ TextOf(s) = text /\ s.parts = <<[is |-> "text", text |-> text]>>
  <2>1. Str(text).parts = <<[is |-> "text", text |-> text]>>
    BY DEF Str
  <2> QED  BY <1>2, <2>1, TextOfStr
<1>4. p.is = "tool_result" /\ p.error = FALSE /\ p.content = s
  BY <1>2, <1>3 DEF ToolResult
<1>5. PICK m : m = convert_anthropic_tool_result(p)
  OBVIOUS
<1>6. \A i \in DOMAIN s.parts : s.parts[i].is = "text"
  <2>1. PICK q : q = [is |-> "text", text |-> text]
    OBVIOUS
  <2>2. PICK ps : ps = s.parts /\ ps = <<q>>
    BY <1>3, <2>1
  <2>3. DOMAIN ps = 1..1 /\ ps[1] = q
    BY <2>2, One, SeqIs
  <2>4. q.is = "text"
    BY <2>1
  <2> QED  BY <2>2, <2>3, <2>4
<1>7. PICK name : m = Result(p.id, name, s) /\ name = ""
  BY <1>3, <1>4, <1>5, <1>6, Zenon DEF convert_anthropic_tool_result
<1>8. Callable(u, name)
  BY Zenon DEF Callable
<1>9. m = Result(p.id, name, Str(text))
  BY <1>3, <1>7
<1>10. Suits(u, m)
  BY <1>2, <1>8, <1>9, ResultSuits
<1>11. m.role = "tool"
  BY <1>9 DEF Result, Message
<1>12. ns = Append(ms, m)
  BY <1>1, <1>4, <1>5 DEF anthropic_user_part_to_openai
<1>13. /\ IsSeq(ns) /\ Len(ns) = Len(ms) + 1 /\ Len(ms) \in Nat
       /\ ns[Len(ms) + 1] = m /\ \A i \in 1..Len(ms) : ns[i] = ms[i]
  BY <1>12, AppendedIs DEF AllResults
<1>14. \A i \in 1..Len(ns) : i \in 1..Len(ms) \/ i = Len(ms) + 1
  BY <1>13
<1> QED  BY <1>10, <1>11, <1>13, <1>14 DEF AllResults

LEMMA UserFolded ==
  ASSUME NEW ps, Len(ps) \in Nat
  PROVE  \E made : /\ made[0] = <<>>
                   /\ \A n \in 1..Len(ps) :
                        made[n] = anthropic_user_part_to_openai(made[n - 1], ps[n])
                   /\ Folded(anthropic_user_part_to_openai, <<>>, ps) = made[Len(ps)]
<1>1. PICK before : before = <<>>
  OBVIOUS
<1> QED  BY <1>1, PartsFolded, ZenonT(30)

LEMMA ToolResultsWelcome ==
  ASSUME NEW u \in Format, u # "gemini", NEW calls, IsSeq(calls), calls # <<>>,
         NEW ps, ps = [i \in DOMAIN calls |-> ToolResult(calls[i])],
         NEW t, t = [role |-> "user", content |-> Parts(ps)]
  PROVE  Welcome("anthropic", u, t)
<1>1. DOMAIN ps = DOMAIN calls /\ ps = [i \in DOMAIN ps |-> ps[i]] /\ DOMAIN calls = 1..Len(calls)
  BY SeqIs
<1>2. IsSeq(ps) /\ Len(ps) = Len(calls) /\ Len(ps) \in Nat /\ Len(ps) # 0
  BY <1>1, Imaged, SeqIs, Empty
<1>3. \A i \in DOMAIN calls : PartForm(ps[i])
  BY DoneForms
<1>4. PartsForm(ps)
  BY <1>1, <1>3, PartsEach
<1>5. PICK c : c = Parts(ps) /\ Content(c) /\ c.parts = ps /\ c.form = "parts"
  <2>1. PICK c : c = Parts(ps)
    OBVIOUS
  <2>2. c.form = "parts"
    BY <2>1 DEF Parts
  <2> QED  BY <2>1, <2>2, PartsContent
<1>6. t.role = "user" /\ t.content = c
  BY <1>5
<1>7. PICK made : /\ made[0] = <<>>
                  /\ \A n \in 1..Len(ps) :
                       made[n] = anthropic_user_part_to_openai(made[n - 1], ps[n])
                  /\ Folded(anthropic_user_part_to_openai, <<>>, ps) = made[Len(ps)]
  BY <1>2, UserFolded, Zenon
<1>8. PICK S : S = {n \in Nat : n <= Len(ps) => AllResults(u, made[n], n)}
  OBVIOUS
<1>9. 0 \in S
  <2>1. \A i \in 1..0 : FALSE
    OBVIOUS
  <2>2. AllResults(u, made[0], 0)
    BY <1>7, <2>1, Empty DEF AllResults
  <2> QED  BY <1>8, <2>2
<1>10. ASSUME NEW n \in Nat, n \in S PROVE n + 1 \in S
  <2>1. ASSUME n + 1 <= Len(ps) PROVE AllResults(u, made[n + 1], n + 1)
    <3>1. n + 1 \in 1..Len(ps) /\ n <= Len(ps) /\ (n + 1) - 1 = n
      BY <1>2, <2>1
    <3>2. PICK ms, ns, p : ms = made[n] /\ ns = made[n + 1] /\ p = ps[n + 1]
      OBVIOUS
    <3>3. ns = anthropic_user_part_to_openai(ms, p)
      BY <1>7, <3>1, <3>2
    <3>4. p = ToolResult(calls[n + 1])
      BY <1>1, <1>2, <3>1, <3>2
    <3>5. AllResults(u, ms, n)
      BY <1>8, <1>10, <3>1, <3>2
    <3>6. AllResults(u, ns, n + 1)
      BY <3>3, <3>4, <3>5, OneMoreResult
    <3> QED  BY <3>2, <3>6
  <2> QED  BY <1>8, <2>1
<1>11. Len(ps) \in S
  <2>1. Nat \subseteq S
    BY <1>9, <1>10, Induct
  <2> QED  BY <1>2, <2>1
<1>12. PICK out : out = made[Len(ps)] /\ AllResults(u, out, Len(ps))
  BY <1>2, <1>8, <1>11
<1>13. PICK ns : ns = Each(flush_user_parts, out)
  OBVIOUS
<1>14. ns = out
  <2>1. IsSeq(out) /\ DOMAIN out = 1..Len(out) /\ out = [i \in 1..Len(out) |-> out[i]]
    BY <1>12, SeqIs DEF AllResults
  <2>2. \A i \in DOMAIN out : flush_user_parts(out[i]) = out[i]
    BY <1>12, <2>1 DEF flush_user_parts, AllResults
  <2>3. ns = [i \in DOMAIN out |-> flush_user_parts(out[i])]
    BY <1>13 DEF Each
  <2>4. ns = [i \in DOMAIN out |-> out[i]]
    BY <2>2, <2>3
  <2> QED  BY <2>1, <2>4
<1>15. out # <<>>
  BY <1>2, <1>12, Empty DEF AllResults
<1>16. Each(flush_user_parts, Folded(anthropic_user_part_to_openai, <<>>, c.parts)) = out
  <2>1. Folded(anthropic_user_part_to_openai, <<>>, ps) = out
    BY <1>7, <1>12, Zenon
  <2> QED  BY <1>5, <1>13, <1>14, <2>1, Zenon
<1>17. anthropic_user_to_openai(c) = out
  BY <1>5, <1>15, <1>16, Zenon DEF anthropic_user_to_openai
<1>18. convert_anthropic_message(t) = out
  BY <1>6, <1>17 DEF convert_anthropic_message
<1>19. SuitAll(u, convert_anthropic_message(t))
  BY <1>12, <1>18 DEF AllResults, SuitAll
<1>20. TurnForm("anthropic", t)
  BY <1>4, <1>5, <1>6 DEF TurnForm
<1> QED  BY <1>19, <1>20 DEF Welcome

LEMMA EachNone ==
  ASSUME NEW s, s = <<>>
  PROVE  /\ Each(gemini_part_to_chat, s) = <<>>
         /\ Each(LAMBDA p : Call(p.id, p.name, p.args), s) = <<>>
  BY SMT DEF Each

LEMMA JsonResult ==
  ASSUME NEW u, u # "gemini", NEW p, NEW m, m = Result(p.id, p.name, Str(Json(p.response)))
  PROVE  Suits(u, m)
<1>1. PICK text : text = Json(p.response)
  OBVIOUS
<1>2. IsSeq(text)
  <2>1. PICK x : text = <<x>>
    BY <1>1 DEF Json
  <2> QED  BY <2>1, One
<1>3. PICK id, name : m = Result(id, name, Str(text))
  BY <1>1
<1>4. Callable(u, name)
  BY Zenon DEF Callable
<1> QED  BY <1>2, <1>3, <1>4, ResultSuits

(* The results of a Gemini content, likewise.                              *)
LEMMA ResponsesWelcome ==
  ASSUME NEW u \in Format, u # "gemini", NEW calls, IsSeq(calls),
         NEW ps, ps = [i \in DOMAIN calls |-> FunctionResponse(calls[i])],
         NEW t, t.role = "user", t.parts = ps
  PROVE  Welcome("gemini", u, t)
<1>1. DOMAIN ps = DOMAIN calls /\ ps = [i \in DOMAIN ps |-> ps[i]] /\ DOMAIN calls = 1..Len(calls)
  BY SeqIs
<1>2. IsSeq(ps) /\ Len(ps) = Len(calls)
  BY <1>1, Imaged
<1>3. \A i \in DOMAIN calls : PartForm(ps[i]) /\ ps[i].is = "functionResponse"
  BY DoneForms
<1>4. PartsForm(ps)
  BY <1>1, <1>3, PartsEach
<1>5. t.role = "user" /\ t.parts = ps
  OBVIOUS
<1>6. TurnForm("gemini", t)
  BY <1>1, <1>3, <1>4, <1>5 DEF TurnForm, ContentForm
<1>7. PICK R, C, S : /\ R = Where(t.parts, {"functionResponse"})
                     /\ C = Where(t.parts, {"functionCall"}) /\ S = DOMAIN t.parts \ (R \cup C)
  OBVIOUS
<1>8. R = DOMAIN ps /\ C = {} /\ S = {}
  BY <1>1, <1>3, <1>5, <1>7 DEF Where
<1>9. PICK pp, cc, uu : pp = Picked(t.parts, S) /\ cc = Picked(t.parts, C) /\ uu = Picked(t.parts, R)
  OBVIOUS
<1>10. IsSeq(uu) /\ pp = <<>> /\ cc = <<>>
  BY <1>2, <1>5, <1>8, <1>9, PickedFrom, PickedEmpty
<1>11. PICK said, calling, results :
         /\ said = Each(gemini_part_to_chat, pp)
         /\ calling = Each(LAMBDA p : Call(p.id, p.name, p.args), cc)
         /\ results = Each(LAMBDA p : Result(p.id, p.name, Str(Json(p.response))), uu)
  OBVIOUS
<1>12. said = <<>> /\ calling = <<>>
  BY <1>10, <1>11, EachNone
<1>13. gemini_content_to_chat(t) = GeminiHub(t, said, calling, results)
  <2>1. gemini_content_to_chat(t)
          = GeminiHub(t, Each(gemini_part_to_chat, pp),
                      Each(LAMBDA p : Call(p.id, p.name, p.args), cc),
                      Each(LAMBDA p : Result(p.id, p.name, Str(Json(p.response))), uu))
    BY <1>7, <1>9, GeminiContent
  <2> QED  BY <1>11, <2>1
<1>14. GoodContent(t, said)
  <2>1. \A i \in DOMAIN t.parts : t.parts[i].is # "functionCall"
    BY <1>1, <1>3, <1>5
  <2>2. ~AnyBad(said)
    BY <1>12, Empty DEF AnyBad
  <2> QED  BY <1>5, <2>1, <2>2 DEF GoodContent
<1>15. gemini_content_to_chat(t) = results
  BY <1>12, <1>13, <1>14, Zenon DEF GeminiHub
<1>16. /\ DOMAIN results = DOMAIN uu /\ results = [j \in DOMAIN results |-> results[j]]
       /\ \A j \in DOMAIN uu :
            results[j] = Result(uu[j].id, uu[j].name, Str(Json(uu[j].response)))
  BY <1>11 DEF Each
<1>17. IsSeq(results) /\ Len(results) = Len(uu) /\ DOMAIN uu = 1..Len(uu)
  BY <1>10, <1>16, Imaged, SeqIs
<1>18. \A j \in 1..Len(results) : Suits(u, results[j])
  BY <1>16, <1>17, JsonResult
<1>19. SuitAll(u, gemini_content_to_chat(t))
  BY <1>15, <1>17, <1>18 DEF SuitAll
<1> QED  BY <1>6, <1>19 DEF Welcome

LEMMA WelcomeNone == ASSUME NEW c, NEW u PROVE WelcomeAll(c, u, <<>>)
  BY Empty DEF WelcomeAll

(* What its client answers its calls with, the target takes - Gemini, only *)
(* when the results name their functions.                                  *)
Answerable(c, u, rs) ==
  u = "gemini" => rs = <<>> \/ (c = "chat" /\ \A i \in 1..Len(rs) : Named(rs[i]))

LEMMA ResultsNone ==
  ASSUME NEW c \in Format, c # "chat", NEW calls, IsSeq(calls), NEW named,
         ResultsOf(c, calls, named) = <<>>
  PROVE  calls = <<>>
<1>1. CASE c = "anthropic"
  <2>1. SUFFICES ASSUME calls # <<>> PROVE FALSE
    OBVIOUS
  <2>2. PICK t : ResultsOf(c, calls, named) = <<t>>
    BY <1>1, <2>1, Zenon DEF ResultsOf
  <2>3. <<t>> # <<>>
    BY One, Empty
  <2> QED  BY <2>2, <2>3
<1>2. CASE c = "gemini"
  <2>1. SUFFICES ASSUME calls # <<>> PROVE FALSE
    OBVIOUS
  <2>2. PICK t : ResultsOf(c, calls, named) = <<t>>
    BY <1>2, <2>1, Zenon DEF ResultsOf
  <2>3. <<t>> # <<>>
    BY One, Empty
  <2> QED  BY <2>2, <2>3
<1>3. CASE c = "responses"
  <2>1. PICK t : t = [i \in DOMAIN calls |-> CallOutput(calls[i])]
    OBVIOUS
  <2>2. ResultsOf(c, calls, named) = t
    BY <1>3, <2>1, Zenon DEF ResultsOf, Each, CallOutput
  <2>3. DOMAIN t = DOMAIN calls /\ t = [i \in DOMAIN t |-> t[i]]
    BY <2>1
  <2>4. IsSeq(t) /\ Len(t) = Len(calls)
    BY <2>3, Imaged
  <2> QED  BY <2>2, <2>4, Empty
<1> QED  BY <1>1, <1>2, <1>3 DEF Format

(* The results of calls are welcome to every target, but for a Gemini that *)
(* is not told their functions.                                            *)
LEMMA ResultsWelcome ==
  ASSUME NEW c \in Format, NEW u \in Format, c # u, NEW calls, IsSeq(calls), NEW named,
         Answerable(c, u, ResultsOf(c, calls, named))
  PROVE  WelcomeAll(c, u, ResultsOf(c, calls, named))
<1>0. PICK rs : rs = ResultsOf(c, calls, named) /\ Answerable(c, u, rs)
  OBVIOUS
<1>1. CASE rs = <<>>
  BY <1>0, <1>1, WelcomeNone
<1>2. CASE rs # <<>> /\ c = "chat"
  <2>1. PICK t : t = [i \in DOMAIN calls |-> ChatResult(calls[i], named)]
    OBVIOUS
  <2>2. rs = t
    BY <1>0, <1>2, <2>1, Zenon DEF ResultsOf, Each, ChatResult
  <2>3. u = "gemini" => \A i \in 1..Len(t) : Named(t[i])
    BY <1>0, <1>2, <2>2 DEF Answerable
  <2>4. WelcomeAll("chat", u, t)
    BY <2>1, <2>3, ChatResultsWelcome
  <2> QED  BY <1>0, <1>2, <2>2, <2>4
<1>3. CASE rs # <<>> /\ c # "chat"
  <2>1. u # "gemini"
    BY <1>0, <1>3 DEF Answerable
  <2>2. CASE c = "responses"
    <3>1. PICK t : t = [i \in DOMAIN calls |-> CallOutput(calls[i])]
      OBVIOUS
    <3>2. rs = t
      BY <1>0, <2>2, <3>1, Zenon DEF ResultsOf, Each, CallOutput
    <3>3. WelcomeAll("responses", u, t)
      BY <2>1, <3>1, OutputsWelcome
    <3> QED  BY <1>0, <2>2, <3>2, <3>3
  <2>3. CASE c = "anthropic"
    <3>0. calls # <<>>
      <4>1. SUFFICES ASSUME calls = <<>> PROVE FALSE
        OBVIOUS
      <4>2. rs = <<>>
        BY <1>0, <2>3, <4>1 DEF ResultsOf
      <4> QED  BY <1>3, <4>2
    <3>1. PICK ps : ps = [i \in DOMAIN calls |-> ToolResult(calls[i])]
      OBVIOUS
    <3>2. PICK t : t = [role |-> "user", content |-> Parts(ps)]
      OBVIOUS
    <3>3. rs = <<t>>
      BY <1>0, <2>3, <3>0, <3>1, <3>2, Zenon DEF ResultsOf, Each, ToolResult
    <3>4. Welcome("anthropic", u, t)
      BY <2>1, <3>0, <3>1, <3>2, ToolResultsWelcome
    <3> QED  BY <1>0, <2>3, <3>3, <3>4, WelcomeOne
  <2>4. CASE c = "gemini"
    <3>0. calls # <<>>
      <4>1. SUFFICES ASSUME calls = <<>> PROVE FALSE
        OBVIOUS
      <4>2. rs = <<>>
        BY <1>0, <2>4, <4>1 DEF ResultsOf
      <4> QED  BY <1>3, <4>2
    <3>1. PICK ps : ps = [i \in DOMAIN calls |-> FunctionResponse(calls[i])]
      OBVIOUS
    <3>2. PICK t : t = [role |-> "user", parts |-> ps]
      OBVIOUS
    <3>3. rs = <<t>>
      BY <1>0, <2>4, <3>0, <3>1, <3>2, Zenon DEF ResultsOf, Each, FunctionResponse
    <3>4. Welcome("gemini", u, t)
      <4>1. t.role = "user" /\ t.parts = ps
        BY <3>2
      <4> QED  BY <2>1, <3>1, <4>1, ResponsesWelcome
    <3> QED  BY <1>0, <2>4, <3>3, <3>4, WelcomeOne
  <2> QED  BY <1>3, <2>2, <2>3, <2>4 DEF Format
<1> QED  BY <1>1, <1>2, <1>3

-----------------------------------------------------------------------------
(* The document of a client grows, and what is left unanswered is dealt    *)
(* with: a client that was once taken can go on.                           *)

Within(s, t) == \A i \in 1..Len(s) : \E j \in 1..Len(t) : t[j] = s[i]

LEMMA StillThere ==
  ASSUME NEW s, NEW t, IsSeq(s), IsSeq(t), NEW r, Joins(r, s, t)
  PROVE  Within(s, r) /\ Within(t, r)
<1>2. /\ Len(r) = Len(s) + Len(t) /\ Len(s) \in Nat /\ Len(t) \in Nat
      /\ \A i \in 1..Len(s) : r[i] = s[i]
      /\ \A i \in 1..Len(t) : r[Len(s) + i] = t[i]
  BY Joined, SeqIs DEF Joins
<1>3. ASSUME NEW i \in 1..Len(s) PROVE \E j \in 1..Len(r) : r[j] = s[i]
  <2>1. i \in 1..Len(r) /\ r[i] = s[i]
    BY <1>2
  <2> QED  BY <2>1
<1>4. ASSUME NEW i \in 1..Len(t) PROVE \E j \in 1..Len(r) : r[j] = t[i]
  <2>1. Len(s) + i \in 1..Len(r) /\ r[Len(s) + i] = t[i]
    BY <1>2
  <2> QED  BY <2>1
<1> QED  BY <1>3, <1>4 DEF Within

LEMMA ResultDeals ==
  ASSUME NEW id, NEW text
  PROVE  Kind(Results(id, text), Dealing) # <<>>
<1>1. PICK x : x = [by |-> "tool", is |-> "result", id |-> id, text |-> text]
  OBVIOUS
<1>2. x.is = "result" /\ Results(id, text) = <<x>>
  BY <1>1 DEF Results
<1>3. Kind(<<x>>, Dealing) = <<x>>
  BY <1>2, KindOne DEF Dealing
<1>4. <<x>> # <<>>
  BY One, Empty
<1> QED  BY <1>2, <1>3, <1>4

(* Results that Gemini does not take come with calls or results in the     *)
(* turns.                                                                  *)
LEMMA UnansweredDeals ==
  ASSUME NEW c \in Format, c # "gemini", NEW b, ReplyForm(c, b), NEW named,
         NEW rs, rs = ResultsOf(c, CallsIn(c, b), named), rs # <<>>
  PROVE  SomeDeal(c, Taken(c, b)) \/ SomeDeal(c, rs)
<1>1. PICK calls : calls = CallsIn(c, b) /\ IsSeq(calls)
  BY ReplySpeechSeq
<1>2. rs = ResultsOf(c, calls, named)
  BY <1>1
<1>3. TurnForms(c, rs)
  BY <1>1, <1>2, ResultsForms
<1>4. IsSeq(rs) /\ 1 \in 1..Len(rs)
  <2>1. IsSeq(rs) /\ Len(rs) \in Nat
    BY <1>3, SeqIs DEF TurnForms
  <2>2. Len(rs) # 0
    BY <2>1, Empty
  <2> QED  BY <2>1, <2>2
<1>5. DOMAIN calls = 1..Len(calls) /\ DOMAIN rs = 1..Len(rs)
  BY <1>1, <1>4, SeqIs
<1>6. CASE c = "chat"
  <2>1. rs = [i \in DOMAIN calls |-> ChatResult(calls[i], named)]
    BY <1>2, <1>6, Zenon DEF ResultsOf, Each, ChatResult
  <2>2. rs[1] = ChatResult(calls[1], named)
    BY <1>4, <1>5, <2>1
  <2>3. PICK id, name, content, m : m = rs[1] /\ m = Result(id, name, content)
    BY <2>2, Zenon DEF ChatResult
  <2>4. m.role = "tool" /\ m.id = id
    BY <2>3 DEF Result, Message
  <2>5. ChatForm(m)
    BY <1>3, <1>4, <1>6, <2>3 DEF TurnForms, TurnForm
  <2>6. ChatTurn(m) = Results(m.id, TextOf(m.content))
    BY <2>4, <2>5, ChatTurnSays
  <2>7. Deals(c, rs[1])
    BY <1>6, <2>3, <2>6, ResultDeals DEF Deals, Turn
  <2> QED  BY <1>4, <2>7 DEF SomeDeal
<1>7. CASE c = "responses"
  <2>1. rs = [i \in DOMAIN calls |-> CallOutput(calls[i])]
    BY <1>2, <1>7, Zenon DEF ResultsOf, Each, CallOutput
  <2>2. PICK o : o = rs[1] /\ o = CallOutput(calls[1])
    BY <1>4, <1>5, <2>1
  <2>3. o.is = "function_call_output"
    BY <2>2 DEF CallOutput
  <2>4. ResponsesTurn(o) = Results(o.id, o.text)
    BY <2>3 DEF ResponsesTurn
  <2>5. Deals(c, rs[1])
    BY <1>7, <2>2, <2>4, ResultDeals DEF Deals, Turn
  <2> QED  BY <1>4, <2>5 DEF SomeDeal
<1>8. CASE c = "anthropic"
  <2>1. calls # <<>>
    BY <1>2, <1>8 DEF ResultsOf
  <2>2. PICK parts : parts = b.content
    OBVIOUS
  <2>3. PICK t : t = [role |-> "assistant", content |-> Parts(parts)]
    OBVIOUS
  <2>4. PICK s : s = <<t>> /\ s[1] = t /\ Len(s) = 1
    BY One
  <2>5. Taken(c, b) = s
    BY <1>8, <2>2, <2>3, <2>4 DEF Taken
  <2>6. t.role = "assistant" /\ t.content = Parts(parts)
    BY <2>3
  <2>7. t.content.parts = parts
    BY <2>6, PartsContent
  <2>8. Turn(c, t) = Spoke("assistant", parts)
    BY <1>8, <2>6, <2>7 DEF Turn
  <2>9. calls = Kind(Spoke("assistant", parts), Dealing)
    BY <1>1, <1>8, <2>2, ProseIs DEF CallsIn, AnswerSpeech
  <2>10. Deals(c, t)
    BY <2>1, <2>8, <2>9 DEF Deals
  <2> QED  BY <2>4, <2>5, <2>10 DEF SomeDeal
<1> QED  BY <1>6, <1>7, <1>8 DEF Format

(* What ConversationGoesOn has of a document that goes on.                 *)
Resumes(c, u, context, d) ==
  \/ translate_request(c, u, context, d) # Bad
  \/ \E i \in DOMAIN d.turns : Turn(c, d.turns[i]) = <<>>
  \/ /\ u = "gemini" /\ Traffic(Speech(c, d)) # <<>>
     /\ c = "chat" => \E i \in DOMAIN d.turns : ~Named(d.turns[i])

LEMMA WelcomeJoined ==
  ASSUME NEW c, NEW u, NEW s, NEW t, WelcomeAll(c, u, s), WelcomeAll(c, u, t)
  PROVE  WelcomeAll(c, u, s \o t)
<1>1. IsSeq(s) /\ IsSeq(t)
  BY DEF WelcomeAll
<1>2. PICK T : T = {x \in {s[i] : i \in 1..Len(s)} \cup {t[i] : i \in 1..Len(t)} : Welcome(c, u, x)}
  OBVIOUS
<1>3. (\A i \in 1..Len(s) : s[i] \in T) /\ (\A i \in 1..Len(t) : t[i] \in T)
  BY <1>2 DEF WelcomeAll
<1>4. \A i \in 1..Len(s \o t) : (s \o t)[i] \in T
  BY <1>1, <1>3, JoinedItems
<1>5. IsSeq(s \o t)
  BY <1>1, Joined
<1>6. PICK r : r = s \o t
  OBVIOUS
<1>7. IsSeq(r) /\ \A i \in 1..Len(r) : Welcome(c, u, r[i])
  BY <1>2, <1>4, <1>5, <1>6
<1> QED  BY <1>6, <1>7 DEF WelcomeAll

(* The document that ends with an answer and the results of its calls goes *)
(* on: translate_request takes it, or the answer was empty, or it deals    *)
(* with calls a Gemini is not told the function of.                        *)
LEMMA DocumentResumes ==
  ASSUME NEW c \in Format, NEW u \in Format, c # u, NEW context,
         NEW d, Written(c, d), Worded(c, d), translate_request(c, u, context, d) # Bad,
         NEW a, Answered(u, a), NEW b, b = translate_response(u, c, a), b # Bad, NEW named,
         NEW e, e = [d EXCEPT !.turns = @ \o (Taken(c, b) \o ResultsOf(c, CallsIn(c, b), named))]
  PROVE  Resumes(c, u, context, e)
<1>1. ReplyForm(c, b)
  BY TextAnswered
<1>2. ReplyPlain(c, u, b)
  BY RepliedPlainly
<1>3. Worded(c, e)
  BY <1>1, GoesOn
<1>4. PICK calls : calls = CallsIn(c, b) /\ IsSeq(calls)
  BY <1>1, ReplySpeechSeq
<1>5. PICK tt, rs : tt = Taken(c, b) /\ rs = ResultsOf(c, calls, named)
  OBVIOUS
<1>6. IsSeq(tt) /\ IsSeq(rs)
  <2>1. TurnForms(c, tt) /\ TurnForms(c, rs)
    BY <1>1, <1>4, <1>5, TakenForms, ResultsForms
  <2> QED  BY <2>1 DEF TurnForms
<1>7. PICK more : more = tt \o rs /\ IsSeq(more)
  BY <1>6, Joined
<1>8. PICK ts : ts = d.turns \o more
  OBVIOUS
<1>9. Formed(d) /\ IsSeq(d.turns)
  BY DEF Written, Worded, Formed
<1>10. e = [d EXCEPT !.turns = ts]
  BY <1>4, <1>5, <1>7, <1>8
<1>11. e.turns = ts /\ SameFrame(e, d) /\ Formed(e)
  <2>1. e = Request(d.system, ts, d.settings)
    BY <1>9, <1>10 DEF Formed, Request
  <2>2. e.turns = ts /\ e.system = d.system /\ e.settings = d.settings
    BY <2>1 DEF Request
  <2> QED  BY <2>1, <2>2 DEF SameFrame, Formed
<1>12. Prolongs(e, d, more)
  BY <1>8, <1>11 DEF Prolongs, SameFrame
<1>13. SUFFICES ASSUME \A i \in DOMAIN e.turns : Turn(c, e.turns[i]) # <<>>
                PROVE  Resumes(c, u, context, e)
  BY DEF Resumes
<1>14. Within(tt, more) /\ Within(rs, more) /\ Within(more, ts) /\ DOMAIN ts = 1..Len(ts)
  <2>1. Joins(more, tt, rs) /\ Joins(ts, d.turns, more)
    BY <1>7, <1>8 DEF Joins
  <2>2. Within(tt, more) /\ Within(rs, more)
    BY <1>6, <2>1, StillThere
  <2>3. Within(more, ts)
    BY <1>7, <1>9, <2>1, StillThere
  <2>4. IsSeq(ts)
    BY <1>3, <1>11 DEF Worded
  <2> QED  BY <2>2, <2>3, <2>4, SeqIs
<1>15. WelcomeAll(c, u, tt)
  <2>1. \A i \in 1..Len(tt) : Turn(c, tt[i]) # <<>>
    <3>1. \A i \in 1..Len(ts) : Turn(c, ts[i]) # <<>>
      BY <1>11, <1>13, <1>14
    <3>2. \A i \in 1..Len(more) : Turn(c, more[i]) # <<>>
      BY <1>14, <3>1 DEF Within
    <3> QED  BY <1>14, <3>2 DEF Within
  <2> QED  BY <1>1, <1>2, <1>5, <2>1, TakenIsWelcome
<1>16. CASE Answerable(c, u, rs)
  <2>1. WelcomeAll(c, u, rs)
    BY <1>4, <1>5, <1>16, ResultsWelcome
  <2>2. WelcomeAll(c, u, more)
    BY <1>7, <1>15, <2>1, WelcomeJoined
  <2>3. CASE ts = <<>>
    <3>1. d.turns = <<>>
      <4>1. d.turns \o more = <<>>
        BY <1>8, <2>3
      <4>2. IsSeq(d.turns) /\ IsSeq(more)
        BY <1>7, <1>9
      <4> QED  BY <4>1, <4>2, JoinedNone
    <3>2. e = d
      BY <1>9, <1>10, <2>3, <3>1 DEF Formed, Request
    <3> QED  BY <3>2 DEF Resumes
  <2>4. CASE ts # <<>>
    <3>1. /\ Takes(u, HubDoc(c, d))
          /\ Takes(u, HubDoc(c, e)) => translate_request(c, u, context, e) # Bad
      BY <1>3, <1>9, <1>11, <2>4, TranslatedAgain
    <3>2. Takes(u, HubDoc(c, e))
      BY <1>12, <2>2, <3>1, HubGrows
    <3> QED  BY <3>1, <3>2 DEF Resumes
  <2> QED  BY <2>3, <2>4
<1>17. CASE ~Answerable(c, u, rs)
  <2>1. u = "gemini" /\ rs # <<>> /\ (c = "chat" => \E i \in 1..Len(rs) : ~Named(rs[i]))
    BY <1>17 DEF Answerable
  <2>2. c # "gemini"
    BY <2>1
  <2>3. SomeDeal(c, tt) \/ SomeDeal(c, rs)
    BY <1>1, <1>4, <1>5, <2>1, <2>2, UnansweredDeals
  <2>4. SomeDeal(c, more)
    BY <1>6, <1>7, <2>3, DealJoined
  <2>5. SomeDeal(c, e.turns)
    BY <1>7, <1>8, <1>9, <1>11, <2>4, DealJoined
  <2>6. Traffic(Speech(c, e)) # <<>>
    BY <1>3, <2>5, TrafficHeard
  <2>7. c = "chat" => \E i \in DOMAIN e.turns : ~Named(e.turns[i])
    <3>1. ASSUME NEW i \in 1..Len(rs), ~Named(rs[i])
          PROVE  \E j \in DOMAIN e.turns : ~Named(e.turns[j])
      <4>1. PICK j \in 1..Len(more) : more[j] = rs[i]
        BY <1>14 DEF Within
      <4>2. PICK k \in 1..Len(ts) : ts[k] = more[j]
        BY <1>14 DEF Within
      <4> QED  BY <1>11, <1>14, <3>1, <4>1, <4>2
    <3> QED  BY <2>1, <3>1
  <2> QED  BY <2>1, <2>6, <2>7 DEF Resumes
<1> QED  BY <1>16, <1>17

(* A document for an upstream of its own dialect is sent as it is.         *)
LEMMA SameIsNeverRefused ==
  ASSUME NEW f, NEW context, NEW d
  PROVE  translate_request(f, f, context, d) # Bad
<1>1. CASE f = "gemini"
  <2>1. translate_request(f, f, context, d)
          = Sent(d, <<context.target_model>>, extract_stream(f, context.source_stream, d.settings))
    BY <1>1, Zenon DEF translate_request
  <2> QED  BY <2>1, SentIsGood, Zenon
<1>2. CASE f # "gemini"
  <2>1. translate_request(f, f, context, d)
          = Sent([d EXCEPT !.settings = Renamed(@, context.target_model)], <<>>,
                 extract_stream(f, context.source_stream, d.settings))
    BY <1>2, Zenon DEF translate_request
  <2> QED  BY <2>1, SentIsGood, Zenon
<1> QED  BY <1>1, <1>2

(* What a conversation remembers of its translations: the request the      *)
(* upstream answers was taken, a refused one was not, and the document     *)
(* that ends with an answer can go on.                                     *)
GoingOn ==
  /\ client \in Format /\ upstream \in Format /\ upstream # client
       /\ stage \in {"asked", "answered", "replied"} =>
         translate_request(client, upstream, Context, doc) # Bad
  /\ stage = "replied" => Answered(upstream, answer)
  /\ stage = "refused" =>
       /\ upstream \in Dialect
       /\ "images" \notin {client, upstream} =>
            translate_request(client, upstream, Context, doc) = Bad
  /\ kept # Nobody => client # "images"
  /\ kept \in Format /\ kept # client => Resumes(client, kept, Context, doc)

LEMMA GoingOnHolds == Spec => []GoingOn
<1>1. Init => GoingOn
  BY DEF Init, GoingOn, Nobody, Format
<1>2. RInv /\ WordsInvariant /\ GoingOn /\ [Next]_vars => GoingOn'
  <2> SUFFICES ASSUME RInv, WordsInvariant, GoingOn, [Next]_vars
               PROVE  GoingOn'
    OBVIOUS
  <2>0. Nobody \notin Format
    BY DEF Nobody, Format
  <2>1. CASE Write
    <3>1. stage' = "writing" /\ kept' = Nobody
      BY <2>1 DEF Write
    <3> QED  BY <2>0, <3>1 DEF GoingOn
  <2>2. ASSUME NEW to \in Dialect, Ask(to)
        PROVE  GoingOn'
    <3> DEFINE sent == IF "images" \in {client, to}
                         THEN translate_image_request(client, to, Context, doc)
                         ELSE translate_request(client, to, Context, doc)
    <3>1. /\ upstream' = to
          /\ \/ stage' = "refused" /\ sent = Bad
             \/ stage' = "asked" /\ sent # Bad
          /\ UNCHANGED <<client, doc, streamed, kept>>
      BY <2>2, Zenon DEF Ask
    <3>2. Context' = Context
      BY <3>1 DEF Context
    <3>3. /\ client \in Format /\ to \in Format => sent = translate_request(client, to, Context, doc)
          /\ "images" \notin {client, to} => sent = translate_request(client, to, Context, doc)
      BY DEF Format
    <3> HIDE DEF sent
    <3> QED  BY <3>1, <3>2, <3>3 DEF GoingOn
  <2>3. CASE Respond
    <3>1. /\ stage = "asked" /\ stage' = "answered"
          /\ UNCHANGED <<client, doc, streamed, upstream, kept>>
      BY <2>3 DEF Respond
    <3>2. Context' = Context
      BY <3>1 DEF Context
    <3> QED  BY <3>1, <3>2 DEF GoingOn
  <2>4. CASE Return
    <3>1. /\ stage = "answered" /\ stage' \in {"failed", "replied"}
          /\ UNCHANGED <<client, doc, streamed, upstream, answer, kept>>
      BY <2>4, Zenon DEF Return
    <3>2. Context' = Context
      BY <3>1 DEF Context
    <3>3. Answered(upstream, answer)
      BY <3>1 DEF WordsInvariant
    <3> QED  BY <3>1, <3>2, <3>3 DEF GoingOn
  <2>5. CASE Continue
    <3>1. /\ stage = "replied" /\ client # "images" /\ stage' = "writing" /\ kept' = upstream
          /\ UNCHANGED <<client, streamed>>
          /\ \E named \in BOOLEAN :
               doc' = [doc EXCEPT !.turns =
                         @ \o (Taken(client, reply)
                                 \o ResultsOf(client, CallsIn(client, reply), named))]
      BY <2>5, Zenon DEF Continue
    <3>2. Context' = Context
      BY <3>1 DEF Context
    <3>3. client \in Format /\ Written(client, doc) /\ Worded(client, doc)
      BY <3>1 DEF WordsInvariant, Dialect
    <3>4. ASSUME upstream \in Format, upstream # client
          PROVE  Resumes(client, upstream, Context, doc')
      <4>1. translate_request(client, upstream, Context, doc) # Bad
        BY <3>1, <3>3, <3>4 DEF GoingOn
      <4>2. Answered(upstream, answer)
        BY <3>1 DEF GoingOn
      <4>3. reply = translate_response(upstream, client, answer) /\ reply # Bad
        BY <3>1, <3>3, <3>4 DEF RInv, Translation, Format
      <4> QED  BY <3>1, <3>3, <3>4, <4>1, <4>2, <4>3, DocumentResumes
    <3> QED  BY <3>1, <3>2, <3>4 DEF GoingOn
  <2>6. CASE UNCHANGED vars
    <3>1. UNCHANGED <<client, doc, streamed, stage, upstream, answer, kept>>
      BY <2>6 DEF vars
    <3>2. Context' = Context
      BY <3>1 DEF Context
    <3> QED  BY <3>1, <3>2 DEF GoingOn
  <2> QED  BY <2>1, <2>2, <2>3, <2>4, <2>5, <2>6 DEF Next
<1> QED  BY <1>1, <1>2, ConversationInvariant, WordsInvariantHolds, PTL DEF Spec

(* ConversationGoesOn of every conversation: an upstream that has answered *)
(* is sent its own answer and the results of its calls again, whatever the *)
(* document before them and whatever it answered - what response_from_chat *)
(* writes of an answer, request_to_chat reads and request_from_chat takes  *)
(* - but for an empty answer, a picture, and a Gemini that is not told the *)
(* function of a result.                                                   *)
THEOREM ConversationGoesOnHeld == Spec => []ConversationGoesOn
<1>1. WordsInvariant /\ GoingOn => ConversationGoesOn
  <2> SUFFICES ASSUME WordsInvariant, GoingOn, stage = "refused", kept = upstream,
                      ~EmptyAnswer, upstream # "images"
               PROVE  /\ upstream = "gemini" /\ Traffic(Speech(client, doc)) # <<>>
                      /\ client = "chat" => \E i \in DOMAIN doc.turns : ~Named(doc.turns[i])
    BY DEF ConversationGoesOn
  <2>1. upstream \in Format /\ kept # Nobody
    BY DEF GoingOn, Dialect, Nobody, Format
  <2>2. client \in Format
    BY <2>1 DEF WordsInvariant, GoingOn, Dialect
  <2>3. translate_request(client, upstream, Context, doc) = Bad
    BY <2>1, <2>2 DEF GoingOn, Format
  <2>4. upstream # client
    BY <2>3, SameIsNeverRefused
  <2>5. Resumes(client, upstream, Context, doc)
    BY <2>1, <2>4 DEF GoingOn
  <2> QED  BY <2>3, <2>5 DEF Resumes, EmptyAnswer
<1> QED  BY <1>1, WordsInvariantHolds, GoingOnHolds, PTL

=============================================================================
