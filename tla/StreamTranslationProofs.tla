----------------------- MODULE StreamTranslationProofs -----------------------
(***************************************************************************)
(* What holds of StreamTranslation for streams of any length and any cut:  *)
(* its types, that a body which ends without an error has left nothing     *)
(* behind, and that no client is told of an end the upstream did not have. *)
(***************************************************************************)
EXTENDS StreamTranslation, SequenceTheorems, FiniteSetTheorems, TLAPS

(* An end on its way to the client has been said.                          *)
IsEnd(x) == x.is = "terminal"
EndIn(s) == \E i \in DOMAIN s : IsEnd(s[i])
Marked == Ended \/ (from = "gemini" /\ line = "eof")
OnItsWay == client.done \/ EndIn(todo) \/ EndIn(draft)

(* A client is told that its answer is over only if the upstream said so,  *)
(* for which Gemini has nothing but the end of the stream.                 *)
EndIsTrue == client.done => Marked

(* A body that ends without an error has read its upstream to the end,     *)
(* taken every event, and sent every frame made of them.                   *)
NothingLeft ==
  body = "closed" =>
    line = "eof" /\ taken = Len(events) /\ todo = <<>> /\ draft = <<>>

Drained == upstreamDone => line = "eof" /\ read = Len(events)

IInv == TypeOK /\ Drained /\ NothingLeft /\ (OnItsWay => Marked)

-----------------------------------------------------------------------------
(***************************************************************************)
(* What the upstream may say is an event, and it adds pieces to the answer.*)
(***************************************************************************)
LEMMA CallsType ==
  ASSUME said \in Seq(Piece)
  PROVE  Calls \in Nat
<1> DEFINE S == {i \in DOMAIN said : said[i].is = "call"}
<1>1. DOMAIN said = 1..Len(said) /\ Len(said) \in Nat
  BY LenProperties
<1>2. IsFiniteSet(1..Len(said))
  BY <1>1, FS_Interval
<1>3. IsFiniteSet(S)
  BY <1>1, <1>2, FS_Subset
<1> QED
  BY <1>3, FS_CardinalityType DEF Calls

(* The events of a vendor's stream by what they carry of the answer.       *)
LEMMA SayableIs ==
  ASSUME NEW e \in Sayable
  PROVE  \/ e.pieces = <<>> /\ e.at \in {0, places + 1}
         \/ /\ ~Finished
            /\ \/ e.pieces = <<Text>> /\ e.at \in TextPlaces
               \/ e.pieces = <<Call>> /\ e.at = places + 1 /\ from # "gemini"
               \/ /\ e.pieces = <<Call, Arguments(places + 1, Len(said) + 2)>>
                  /\ e.at = 1 /\ from = "gemini"
               \/ \E c \in OpenCalls : e.pieces = <<Arguments(c, Len(said) + 1)>> /\ e.at = c
               \/ e.pieces = <<Finish>> /\ e.at \in {0, 1}
               \/ e.pieces = <<Text, Finish>> /\ e.at = 1 /\ from \notin {"responses", "anthropic"}
<1>1. /\ \A m : Marks(m).pieces = <<>> /\ Marks(m).at = 0
      /\ \A p, n : Carries(p, n).pieces = p /\ Carries(p, n).at = n
  BY DEF Marks, Carries
<1>2. \/ \E m : e = Marks(m)
      \/ ~Finished /\ e \in Content
      \/ ~Finished /\ e \in Endings
  BY DEF Sayable
<1>3. CASE \E m : e = Marks(m)
  BY <1>1, <1>3
<1>4. CASE ~Finished /\ e \in Content
  <2>1. \/ e = Carries(<<>>, 0)
        \/ e = Carries(<<>>, places + 1)
        \/ \E at \in TextPlaces : e = Carries(<<Text>>, at)
        \/ from = "gemini" /\ e = Carries(<<Call, Arguments(places + 1, Len(said) + 2)>>, 1)
        \/ from # "gemini" /\ e = Carries(<<Call>>, places + 1)
        \/ \E c \in OpenCalls : e = Carries(<<Arguments(c, Len(said) + 1)>>, c)
    BY <1>4 DEF Content
  <2>2. CASE e = Carries(<<>>, 0) \/ e = Carries(<<>>, places + 1)
    BY <2>2 DEF Carries
  <2>3. CASE \E at \in TextPlaces : e = Carries(<<Text>>, at)
    BY <1>4, <2>3 DEF Carries
  <2>4. CASE e = Carries(<<Call, Arguments(places + 1, Len(said) + 2)>>, 1) /\ from = "gemini"
    BY <1>4, <2>4 DEF Carries
  <2>5. CASE e = Carries(<<Call>>, places + 1) /\ from # "gemini"
    BY <1>4, <2>5 DEF Carries
  <2>6. CASE \E c \in OpenCalls : e = Carries(<<Arguments(c, Len(said) + 1)>>, c)
    BY <1>4, <2>6 DEF Carries
  <2> QED
    BY <2>1, <2>2, <2>3, <2>4, <2>5, <2>6
<1>5. CASE ~Finished /\ e \in Endings
  <2>1. \/ e = [Carries(<<Finish>>, 0) EXCEPT !.mark = "done"]
        \/ e \in {Carries(<<Finish>>, 0), Carries(<<Finish>>, 1)}
        \/ e = Carries(<<Text, Finish>>, 1) /\ from \notin {"responses", "anthropic"}
    BY <1>5 DEF Endings
  <2>2. LET d == [Carries(<<Finish>>, 0) EXCEPT !.mark = "done"]
        IN  d.pieces = <<Finish>> /\ d.at = 0
    BY DEF Carries
  <2>3. CASE e = [Carries(<<Finish>>, 0) EXCEPT !.mark = "done"]
    BY <1>5, <2>2, <2>3
  <2>4. CASE e \in {Carries(<<Finish>>, 0), Carries(<<Finish>>, 1)}
    BY <1>5, <2>4 DEF Carries
  <2>5. CASE e = Carries(<<Text, Finish>>, 1) /\ from \notin {"responses", "anthropic"}
    BY <1>5, <2>5 DEF Carries
  <2> QED
    BY <2>1, <2>3, <2>4, <2>5
<1> QED
  BY <1>2, <1>3, <1>4, <1>5

LEMMA CallNamesType ==
  ASSUME said \in Seq(Piece)
  PROVE  CallNames \subseteq Nat /\ OpenCalls \subseteq CallNames
<1>1. \A i \in DOMAIN said : said[i] \in Piece
  BY LenProperties, ElementOfSeq
<1>2. CallNames \subseteq Nat
  BY <1>1 DEF CallNames, Piece
<1>3. OpenCalls \subseteq CallNames
  BY DEF OpenCalls
<1> QED
  BY <1>2, <1>3

LEMMA SayableType ==
  ASSUME said \in Seq(Piece), places \in Nat, NEW e \in Sayable
  PROVE  e \in Event
<1>1. Len(said) \in Nat
  BY LenProperties
<1>2. /\ Text \in Piece /\ Call \in Piece /\ Finish \in Piece
      /\ \A c, n \in Nat : Arguments(c, n) \in Piece
  BY <1>1 DEF Text, Call, Finish, Arguments, Piece
<1>3. e = [pieces |-> e.pieces, at |-> e.at, mark |-> e.mark]
      /\ e.mark \in {"none", "start", "done", "foreign"}
  <2>1. /\ \A m \in {"none", "start", "done", "foreign"} :
             LET d == Marks(m) IN d = [pieces |-> d.pieces, at |-> d.at, mark |-> m]
        /\ \A p, n : LET d == Carries(p, n)
                     IN  d = [pieces |-> d.pieces, at |-> d.at, mark |-> "none"]
    BY DEF Marks, Carries
  <2>2. ASSUME e \in Content PROVE e.mark = "none" /\ e = [pieces |-> e.pieces, at |-> e.at, mark |-> "none"]
    <3>1. PICK p, n : e = Carries(p, n)
      BY <2>2 DEF Content
    <3>2. Carries(p, n) = [pieces |-> p, at |-> n, mark |-> "none"]
      BY DEF Carries
    <3> QED
      BY <3>1, <3>2
  <2>3. ASSUME e \in Endings
        PROVE  /\ e.mark \in {"none", "done"}
               /\ e = [pieces |-> e.pieces, at |-> e.at, mark |-> e.mark]
    BY <2>3 DEF Endings, Carries
  <2>4. \/ \E m \in {"none", "start", "done", "foreign"} : e = Marks(m)
        \/ e \in Content
        \/ e \in Endings
    BY DEF Sayable
  <2>5. \A m : Marks(m).mark = m
    BY DEF Marks
  <2> QED
    BY <2>1, <2>2, <2>3, <2>4, <2>5
<1>4. e.at \in Nat
  <2>1. TextPlaces \subseteq Nat /\ OpenCalls \subseteq Nat
    BY CallNamesType DEF TextPlaces
  <2>2. \/ e.at = 0 \/ e.at = 1 \/ e.at = places + 1
        \/ e.at \in TextPlaces \/ e.at \in OpenCalls
    BY SayableIs
  <2>3. 0 \in Nat /\ 1 \in Nat /\ places + 1 \in Nat
    OBVIOUS
  <2> QED
    BY <2>1, <2>2, <2>3, Zenon
<1>5. e.pieces \in Seq(Piece)
  <2>1. /\ <<>> \in Seq(Piece) /\ \A p \in Piece : <<p>> \in Seq(Piece)
        /\ \A p, q \in Piece : <<p, q>> \in Seq(Piece)
    OBVIOUS
  <2>2. ASSUME NEW c \in OpenCalls PROVE Arguments(c, Len(said) + 1) \in Piece
    BY <1>1, <1>2, CallNamesType
  <2>3. Arguments(places + 1, Len(said) + 2) \in Piece
    BY <1>1, <1>2
  <2> QED
    BY <1>2, <2>1, <2>2, <2>3, SayableIs
<1> QED
  BY <1>3, <1>4, <1>5 DEF Event

(* What one more event leaves as it was.                                   *)
LEMMA SendsKeeps ==
  ASSUME events \in Seq(Event), said \in Seq(Piece), places \in Nat,
         NEW e \in Sayable, Sends(e)
  PROVE  /\ events' \in Seq(Event) /\ said' \in Seq(Piece) /\ places' \in Nat
         /\ Len(events') = Len(events) + 1
         /\ Ended => Ended'
<1>1. e \in Event
  BY SayableType
<1>2. e.pieces \in Seq(Piece)
  BY <1>1 DEF Event
<1>3. events' = Append(events, e) /\ said' = said \o e.pieces
  BY DEF Sends
<1>4. /\ events' \in Seq(Event) /\ Len(events') = Len(events) + 1
      /\ \A i \in 1..Len(events) : events'[i] = events[i]
  BY <1>1, <1>3, AppendProperties
<1>5. said' \in Seq(Piece)
  BY <1>2, <1>3, ConcatProperties
<1>6. ASSUME Ended PROVE Ended'
  <2>1. PICK i \in DOMAIN events : events[i].mark = "done"
    BY <1>6 DEF Ended
  <2>2. i \in 1..Len(events) /\ i \in 1..Len(events')
    BY <1>4, LenProperties
  <2>3. i \in DOMAIN events' /\ events'[i].mark = "done"
    BY <1>4, <2>1, <2>2, LenProperties
  <2> QED
    BY <2>3 DEF Ended
<1>7. places' \in Nat
  BY DEF Sends
<1> QED
  BY <1>4, <1>5, <1>6, <1>7

-----------------------------------------------------------------------------
(***************************************************************************)
(* What the relay makes of an event: canonical events, frames, and an end  *)
(* only of an end.                                                         *)
(***************************************************************************)
LEMMA DecodeType ==
  ASSUME TypeOK, NEW e \in Event
  PROVE  /\ decode(e) \in Seq(Canonical)
         /\ EndIn(decode(e)) => e.mark = "done"
<1> DEFINE first == IF NeedsStart(e) THEN <<Start>> ELSE <<>>
           middle == [i \in DOMAIN e.pieces |-> Decoded(e, e.pieces[i])]
           last == IF e.mark = "done" THEN <<Terminal>> ELSE <<>>
           Inner == {c \in Canonical : ~IsEnd(c)}
<1>1. Start \in Inner /\ Terminal \in Canonical
  BY DEF Start, Terminal, Canonical, IsEnd
<1>2. e.pieces \in Seq(Piece)
  BY DEF Event
<1>3. \A p \in Piece : Decoded(e, p) \in Inner
  BY DEF Decoded, Position, Reason, Piece, Event, Canonical, IsEnd
<1>4. first \in Seq(Inner)
  <2>1. <<>> \in Seq(Inner) /\ <<Start>> \in Seq(Inner)
    BY <1>1
  <2> QED
    BY <2>1
<1>5. middle \in Seq(Inner)
  <2>1. DOMAIN e.pieces = 1..Len(e.pieces) /\ Len(e.pieces) \in Nat
    BY <1>2, LenProperties
  <2>2. \A i \in 1..Len(e.pieces) : e.pieces[i] \in Piece
    BY <1>2, ElementOfSeq
  <2>3. middle \in [1..Len(e.pieces) -> Inner]
    BY <2>1, <2>2, <1>3
  <2> QED
    BY <2>1, <2>3, SeqDef
<1>6. first \o middle \in Seq(Inner)
  BY <1>4, <1>5, ConcatProperties
<1>7. last \in Seq(Canonical) /\ Len(last) = IF e.mark = "done" THEN 1 ELSE 0
  BY <1>1
<1>8. first \o middle \in Seq(Canonical)
  BY <1>6, SeqMonotonic
<1>9. decode(e) = (first \o middle) \o last
  BY DEF decode
<1> HIDE DEF first, middle, last
<1>10. decode(e) \in Seq(Canonical)
  BY <1>7, <1>8, <1>9, ConcatProperties
<1>11. ASSUME NEW i \in DOMAIN decode(e), IsEnd(decode(e)[i])
       PROVE  e.mark = "done"
  <2> DEFINE inner == first \o middle
  <2>1. /\ Len(inner) \in Nat /\ \A j \in 1..Len(inner) : ~IsEnd(inner[j])
        /\ inner \in Seq(Canonical)
    BY <1>6, <1>8, LenProperties, ElementOfSeq
  <2>5. decode(e) = inner \o last
    BY <1>9
  <2> HIDE DEF inner, Inner
  <2>2. /\ Len(decode(e)) = Len(inner) + Len(last)
        /\ \A j \in 1..Len(inner) + Len(last) :
             decode(e)[j] = IF j <= Len(inner) THEN inner[j] ELSE last[j - Len(inner)]
    <3>1. \A s, t \in Seq(Canonical) :
            /\ Len(s \o t) = Len(s) + Len(t)
            /\ \A j \in 1..Len(s) + Len(t) :
                 (s \o t)[j] = IF j <= Len(s) THEN s[j] ELSE t[j - Len(s)]
      BY ConcatProperties
    <3>2. inner \in Seq(Canonical) /\ last \in Seq(Canonical)
      BY <1>7, <2>1
    <3> QED
      BY <3>1, <3>2, <2>5
  <2>3. i \in 1..Len(inner) + Len(last)
    BY <1>10, <2>2, LenProperties
  <2>4. Len(last) # 0
    <3> SUFFICES ASSUME Len(last) = 0 PROVE FALSE
      OBVIOUS
    <3>1. i \in 1..Len(inner) /\ decode(e)[i] = inner[i]
      BY <2>1, <2>2, <2>3
    <3> QED
      BY <3>1, <2>1, <1>11
  <2> QED
    BY <2>4, <1>7
<1> QED
  BY <1>10, <1>11 DEF EndIn

LEMMA TranslatorType ==
  ASSUME TypeOK, NEW c \in Canonical
  PROVE  /\ Remembered(c) \in Translator
         /\ Remembered(c).active = translator.active
         /\ Remembered(c).blocks = translator.blocks
         /\ LET b == AnthropicBlocks(c)
            IN b.active \in Nat /\ b.blocks \in Nat /\ b.active <= b.blocks
<1>1. translator.active \in Nat /\ translator.blocks \in Nat
      /\ translator.active <= translator.blocks
  BY DEF TypeOK, Translator
<1>2. /\ Remembered(c) \in Translator
      /\ Remembered(c).active = translator.active
      /\ Remembered(c).blocks = translator.blocks
  BY DEF TypeOK, Translator, Remembered
<1> QED
  BY <1>1, <1>2 DEF AnthropicBlocks, Opens, Opened

LEMMA FramesType ==
  ASSUME TypeOK, NEW c \in Canonical
  PROVE  /\ Frames(c) \in Seq(Frame)
         /\ EndIn(Frames(c)) => IsEnd(c)
<1> DEFINE Good == {g \in Frame : IsEnd(g) => IsEnd(c)}
           block == [is |-> "block", at |-> Opened, n |-> 0]
<1>1. translator.active \in Nat /\ Opened \in Nat
  BY DEF TypeOK, Translator, Opened
<1>2. c \in Good /\ \A n \in Nat : [c EXCEPT !.at = n] \in Good
  BY DEF Canonical, Frame, IsEnd
<1>3. BlockStop \in Good /\ block \in Good
  BY <1>1 DEF BlockStop, Frame, IsEnd
<1> HIDE DEF Good, block
<1>4. /\ <<>> \in Seq(Good) /\ \A f \in Good : <<f>> \in Seq(Good)
      /\ \A f, g \in Good : <<f, g>> \in Seq(Good)
  OBVIOUS
<1>5. \A f \in Good : (IF translator.active = 0 THEN <<>> ELSE <<BlockStop>>) \o <<f>> \in Seq(Good)
  <2>1. (IF translator.active = 0 THEN <<>> ELSE <<BlockStop>>) \in Seq(Good)
    BY <1>3, <1>4
  <2> QED
    BY <2>1, <1>4, ConcatProperties
<1>6. AnthropicFrames(c) \in Seq(Good)
  <2>1. CASE c.is = "text"
    BY <2>1, <1>1, <1>2, <1>3, <1>4 DEF AnthropicFrames, block
  <2>2. CASE c.is = "call"
    BY <2>2, <1>1, <1>2, <1>5 DEF AnthropicFrames
  <2>3. CASE c.is = "arguments"
    BY <2>3, <1>1, <1>2, <1>4 DEF AnthropicFrames
  <2>4. CASE c.is = "finish"
    BY <2>4, <1>2, <1>5 DEF AnthropicFrames
  <2>5. CASE c.is \notin {"text", "call", "arguments", "finish"}
    BY <2>5, <1>2, <1>4 DEF AnthropicFrames
  <2> QED
    BY <2>1, <2>2, <2>3, <2>4, <2>5
<1>7. Frames(c) \in Seq(Good)
  BY <1>2, <1>4, <1>6 DEF Frames
<1>8. Good \subseteq Frame /\ \A g \in Good : IsEnd(g) => IsEnd(c)
  BY DEF Good
<1> QED
  BY <1>7, <1>8, SeqMonotonic, ElementOfSeq, LenProperties DEF EndIn

LEMMA EndInParts ==
  ASSUME NEW S, NEW s \in Seq(S), NEW t \in Seq(S)
  PROVE  /\ ~EndIn(<<>>)
         /\ EndIn(s \o t) => EndIn(s) \/ EndIn(t)
         /\ s # <<>> /\ EndIn(Tail(s)) => EndIn(s)
         /\ s # <<>> /\ IsEnd(Head(s)) => EndIn(s)
<1>1. ~EndIn(<<>>)
  BY DEF EndIn
<1>2. ASSUME EndIn(s \o t) PROVE EndIn(s) \/ EndIn(t)
  <2>1. PICK i \in DOMAIN (s \o t) : IsEnd((s \o t)[i])
    BY <1>2 DEF EndIn
  <2>2. /\ i \in 1..Len(s) + Len(t) /\ Len(s) \in Nat /\ Len(t) \in Nat
        /\ (s \o t)[i] = IF i <= Len(s) THEN s[i] ELSE t[i - Len(s)]
        /\ DOMAIN s = 1..Len(s) /\ DOMAIN t = 1..Len(t)
    BY <2>1, ConcatProperties, LenProperties
  <2>3. CASE i <= Len(s)
    BY <2>1, <2>2, <2>3 DEF EndIn
  <2>4. CASE i > Len(s)
    <3>1. i - Len(s) \in DOMAIN t /\ IsEnd(t[i - Len(s)])
      BY <2>1, <2>2, <2>4
    <3> QED
      BY <3>1 DEF EndIn
  <2> QED
    BY <2>2, <2>3, <2>4
<1>3. ASSUME s # <<>>, EndIn(Tail(s)) PROVE EndIn(s)
  <2>1. PICK i \in DOMAIN Tail(s) : IsEnd(Tail(s)[i])
    BY <1>3 DEF EndIn
  <2>2. i + 1 \in DOMAIN s /\ Tail(s)[i] = s[i + 1]
    BY <1>3, <2>1, HeadTailProperties, LenProperties
  <2> QED
    BY <2>1, <2>2 DEF EndIn
<1>4. ASSUME s # <<>>, IsEnd(Head(s)) PROVE EndIn(s)
  <2>1. 1 \in DOMAIN s /\ Head(s) = s[1]
    BY <1>4, EmptySeq, LenProperties
  <2> QED
    BY <1>4, <2>1 DEF EndIn
<1> QED
  BY <1>1, <1>2, <1>3, <1>4

-----------------------------------------------------------------------------
(***************************************************************************)
(* The invariant, action by action.                                        *)
(***************************************************************************)
LEMMA InitInv == Init => IInv
<1> SUFFICES ASSUME Init PROVE IInv
  OBVIOUS
<1>1. TypeOK
  <2>1. /\ <<>> \in Seq(Event) /\ <<>> \in Seq(Piece) /\ Len(events) = 0
        /\ <<>> \in Seq(Canonical) /\ <<>> \in Seq(Frame)
    BY DEF Init
  <2>2. translator \in Translator /\ translator.active <= translator.blocks
    BY DEF Init, Translator
  <2>3. client \in Client
    BY DEF Init, Client
  <2> QED
    BY <2>1, <2>2, <2>3 DEF Init, TypeOK
<1>2. ~EndIn(todo) /\ ~EndIn(draft) /\ ~client.done
  BY DEF Init, EndIn
<1> QED
  BY <1>1, <1>2 DEF Init, IInv, Drained, NothingLeft, OnItsWay

LEMMA SpeakStep ==
  ASSUME IInv, Say \/ Close
  PROVE  IInv'
<1>1. /\ line = "open" /\ body = "open" /\ line' \in {"open", "eof", "reset"}
      /\ unended' \in BOOLEAN
      /\ UNCHANGED <<from, to, sse, translator, todo, draft, body, reader>>
  BY DEF Say, Close, IInv, TypeOK
<1>2. /\ events' \in Seq(Event) /\ said' \in Seq(Piece) /\ places' \in Nat
      /\ Len(events) \in Nat /\ Len(events') \in Nat /\ Len(events) <= Len(events')
      /\ Ended => Ended'
  <2>1. /\ events \in Seq(Event) /\ said \in Seq(Piece) /\ places \in Nat
        /\ Len(events) \in Nat
    BY LenProperties DEF IInv, TypeOK
  <2>2. CASE UNCHANGED <<events, said, places>>
    <3>1. Ended => Ended'
      BY <2>2 DEF Ended
    <3> QED
      BY <2>1, <2>2, <3>1
  <2>3. CASE \E e \in Sayable : Sends(e)
    <3>1. PICK e \in Sayable : Sends(e)
      BY <2>3
    <3> QED
      BY <2>1, <3>1, SendsKeeps
  <2>4. UNCHANGED <<events, said, places>> \/ \E e \in Sayable : Sends(e)
    BY DEF Say, Close
  <2> QED
    BY <2>2, <2>3, <2>4
<1>3. TypeOK'
  BY <1>1, <1>2 DEF IInv, TypeOK, sse, reader
<1>4. Drained' /\ NothingLeft'
  BY <1>1 DEF IInv, Drained, NothingLeft, sse
<1>5. (OnItsWay => Marked)'
  BY <1>1, <1>2 DEF IInv, OnItsWay, Marked, EndIn, reader
<1> QED
  BY <1>3, <1>4, <1>5 DEF IInv

(* What is left alone by the steps that read.                              *)
LEMMA FailsStep ==
  ASSUME IInv, body = "open", Fails, taken' \in Nat, taken' <= read,
         terminalSeen' \in BOOLEAN, UNCHANGED upstreamDone
  PROVE  IInv'
<1>1. ~EndIn(todo') /\ ~EndIn(draft') /\ (Marked => Marked')
  BY DEF Fails, EndIn, Marked, Ended, upstream
<1>2. TypeOK'
  BY DEF IInv, TypeOK, Fails, upstream, reader
<1>3. (OnItsWay => Marked)'
  BY <1>1 DEF IInv, OnItsWay, Fails, reader
<1> QED
  BY <1>2, <1>3 DEF IInv, Drained, NothingLeft, Fails, upstream

LEMMA ReadStep ==
  ASSUME IInv, ReadChunk \/ ReadFails \/ ReadEnds
  PROVE  IInv'
<1>1. /\ taken \in Nat /\ read \in Nat /\ taken <= read /\ read <= Len(events)
      /\ Len(events) \in Nat /\ terminalSeen \in BOOLEAN
  BY LenProperties DEF IInv, TypeOK
<1>2. ASSUME UNCHANGED <<upstream, taken, terminalSeen, translator, todo, draft, body, reader>>,
             read' \in Nat, read <= read', read' <= Len(events),
             upstreamDone' \in BOOLEAN, Drained'
      PROVE  IInv'
  <2>1. TypeOK'
    BY <1>1, <1>2 DEF IInv, TypeOK, upstream, reader
  <2>2. NothingLeft'
    BY <1>2 DEF IInv, NothingLeft, upstream
  <2>3. (OnItsWay => Marked)'
    BY <1>2 DEF IInv, OnItsWay, EndIn, Marked, Ended, upstream, reader
  <2> QED
    BY <1>2, <2>1, <2>2, <2>3 DEF IInv
<1>3. CASE ReadChunk
  <2>1. PICK k \in 1..(Len(events) - read) :
          IF k > BufferLimit
            THEN Fails /\ UNCHANGED <<taken, upstreamDone, terminalSeen>>
            ELSE /\ read' = read + k
                 /\ UNCHANGED <<upstream, taken, upstreamDone, terminalSeen, translator,
                                todo, draft, body, reader>>
    BY <1>3 DEF ReadChunk
  <2>2. CASE k > BufferLimit
    BY <1>1, <1>3, <2>1, <2>2, FailsStep DEF ReadChunk, Idle
  <2>3. CASE ~(k > BufferLimit)
    <3>1. /\ read' = read + k /\ upstreamDone' = FALSE
          /\ UNCHANGED <<upstream, taken, terminalSeen, translator, todo, draft, body, reader>>
      BY <1>3, <2>1, <2>3 DEF ReadChunk, IInv, TypeOK
    <3>2. read' \in Nat /\ read <= read' /\ read' <= Len(events)
      BY <1>1, <3>1
    <3> QED
      BY <1>2, <3>1, <3>2 DEF Drained
  <2> QED
    BY <2>2, <2>3
<1>4. CASE ReadFails
  BY <1>1, <1>4, FailsStep DEF ReadFails, Idle
<1>5. CASE ReadEnds
  <2>1. Drained' /\ upstreamDone' \in BOOLEAN /\ read' = read
    BY <1>5 DEF ReadEnds, Drained, upstream
  <2> QED
    BY <1>1, <1>2, <1>5, <2>1 DEF ReadEnds
<1> QED
  BY <1>3, <1>4, <1>5

LEMMA TakeStep ==
  ASSUME IInv, TakeEvent
  PROVE  IInv'
<1> DEFINE e == events[taken + 1]
<1>1. /\ taken \in Nat /\ read \in Nat /\ taken < read /\ read <= Len(events)
      /\ Len(events) \in Nat /\ body = "open" /\ taken' = taken + 1
      /\ events \in Seq(Event)
  BY LenProperties DEF IInv, TypeOK, TakeEvent, CanTake, Idle
<1>2. taken + 1 \in DOMAIN events /\ e \in Event
  <2>1. taken + 1 \in 1..Len(events)
    BY <1>1
  <2> QED
    BY <1>1, <2>1, LenProperties, ElementOfSeq
<1>3. taken' \in Nat /\ taken' <= read /\ terminalSeen' \in BOOLEAN
  BY <1>1 DEF TakeEvent, IsTerminal, IInv, TypeOK
<1>4. CASE Undecodable(e)
  BY <1>1, <1>3, <1>4, FailsStep DEF TakeEvent
<1>5. CASE ~Undecodable(e)
  <2>1. /\ todo' = decode(e)
        /\ UNCHANGED <<upstream, read, upstreamDone, translator, draft, body, reader>>
    BY <1>5 DEF TakeEvent
  <2>2. todo' \in Seq(Canonical) /\ (EndIn(todo') => e.mark = "done")
    BY <1>2, <2>1, DecodeType DEF IInv
  <2>3. TypeOK'
    BY <1>3, <2>1, <2>2 DEF IInv, TypeOK, upstream, reader
  <2>4. (OnItsWay => Marked)'
    <3>1. EndIn(todo') => Ended
      BY <1>2, <2>2 DEF Ended
    <3>2. Marked' = Marked /\ client' = client /\ draft' = draft
      BY <2>1 DEF Marked, Ended, upstream, reader
    <3> QED
      BY <3>1, <3>2 DEF IInv, OnItsWay, Marked
  <2> QED
    BY <1>1, <2>1, <2>3, <2>4 DEF IInv, Drained, NothingLeft, upstream
<1> QED
  BY <1>4, <1>5

LEMMA EndStep ==
  ASSUME IInv, EndOfStream
  PROVE  IInv'
<1>1. /\ body = "open" /\ todo = <<>> /\ draft = <<>> /\ upstreamDone /\ taken = read
      /\ line = "eof" /\ read = Len(events) /\ taken \in Nat
  BY DEF EndOfStream, Exhausted, Idle, IInv, Drained, TypeOK
<1>2. CASE from = "gemini" /\ ~terminalSeen /\ to = "responses"
  BY <1>1, <1>2, FailsStep DEF EndOfStream, IInv, TypeOK
<1>3. CASE from = "gemini" /\ ~terminalSeen /\ to # "responses"
  <2>1. /\ todo' = <<Terminal>> /\ terminalSeen' = TRUE
        /\ UNCHANGED <<upstream, read, taken, upstreamDone, translator, draft, body, reader>>
    BY <1>3 DEF EndOfStream
  <2>2. todo' \in Seq(Canonical)
    BY <2>1 DEF Terminal, Canonical
  <2>3. TypeOK'
    BY <2>1, <2>2 DEF IInv, TypeOK, upstream, reader
  <2>4. Marked'
    BY <1>1, <1>3, <2>1 DEF Marked, upstream
  <2> QED
    BY <1>1, <2>1, <2>3, <2>4 DEF IInv, Drained, NothingLeft, upstream
<1>4. CASE ~(from = "gemini" /\ ~terminalSeen)
  <2>1. body' = "closed" /\ UNCHANGED <<upstream, sse, translator, todo, draft, reader>>
    BY <1>4 DEF EndOfStream
  <2>2. TypeOK'
    BY <2>1 DEF IInv, TypeOK, upstream, sse, reader
  <2>3. (OnItsWay => Marked)'
    BY <2>1 DEF IInv, OnItsWay, EndIn, Marked, Ended, upstream, reader
  <2> QED
    BY <1>1, <2>1, <2>2, <2>3 DEF IInv, Drained, NothingLeft, upstream, sse
<1> QED
  BY <1>2, <1>3, <1>4

LEMMA EncodeStep ==
  ASSUME IInv, Encode
  PROVE  IInv'
<1> DEFINE c == Head(todo)
<1>1. /\ body = "open" /\ todo # <<>> /\ todo \in Seq(Canonical) /\ draft \in Seq(Frame)
      /\ c \in Canonical /\ Tail(todo) \in Seq(Canonical)
      /\ taken \in Nat /\ taken <= read /\ terminalSeen \in BOOLEAN
  BY HeadTailProperties DEF Encode, IInv, TypeOK
<1>2. CASE Unencodable(c)
  BY <1>1, <1>2, FailsStep DEF Encode
<1>3. CASE ~Unencodable(c)
  <2>1. /\ draft' = draft \o Frames(c) /\ todo' = Tail(todo)
        /\ translator' = IF to = "anthropic"
                           THEN [Remembered(c) EXCEPT
                                   !.active = AnthropicBlocks(c).active,
                                   !.blocks = AnthropicBlocks(c).blocks]
                           ELSE Remembered(c)
        /\ UNCHANGED <<upstream, sse, body, reader>>
    BY <1>3 DEF Encode
  <2>2. translator' \in Translator /\ translator'.active <= translator'.blocks
    <3>1. translator.active <= translator.blocks
      BY DEF IInv, TypeOK
    <3> QED
      BY <1>1, <2>1, <3>1, TranslatorType DEF Translator, IInv
  <2>3. Frames(c) \in Seq(Frame) /\ (EndIn(Frames(c)) => IsEnd(c))
    BY <1>1, FramesType DEF IInv
  <2>4. draft' \in Seq(Frame)
    BY <1>1, <2>1, <2>3, ConcatProperties
  <2>5. TypeOK'
    BY <1>1, <2>1, <2>2, <2>4 DEF IInv, TypeOK, upstream, sse, reader
  <2>6. (OnItsWay => Marked)'
    <3>1. EndIn(draft') => EndIn(draft) \/ EndIn(Frames(c))
      BY <1>1, <2>1, <2>3, EndInParts
    <3>2. (EndIn(todo') => EndIn(todo)) /\ (IsEnd(c) => EndIn(todo))
      BY <1>1, <2>1, EndInParts
    <3>3. Marked' = Marked /\ client' = client
      BY <2>1 DEF Marked, Ended, upstream, reader
    <3> QED
      BY <2>3, <3>1, <3>2, <3>3 DEF IInv, OnItsWay
  <2> QED
    BY <1>1, <2>1, <2>5, <2>6 DEF IInv, Drained, NothingLeft, upstream, sse
<1> QED
  BY <1>2, <1>3

(* What a client makes of a frame that follows the ones before it.         *)
LEMMA AfterType ==
  ASSUME NEW c \in Client, NEW f \in Frame
  PROVE  After(c, f) \in Client /\ After(c, f).done = IsEnd(f)
<1> DEFINE named == c.names \cup (IF f.is \in {"block", "call"} THEN {<<f.at, f.n>>} ELSE {})
           open == CASE f.is \in {"block", "call"} /\ to = "anthropic" -> f.at
                     [] f.is = "stop" -> 0
                     [] OTHER -> c.open
<1>1. f.at \in Nat /\ f.n \in Nat /\ c.names \subseteq Nat \X Nat /\ c.open \in Nat
  BY DEF Frame, Client
<1>2. named \in SUBSET (Nat \X Nat) /\ open \in Nat
  BY <1>1
<1>3. After(c, f) = [c EXCEPT !.begun = TRUE, !.open = open, !.names = named,
                              !.done = f.is = "terminal"]
  BY DEF After
<1> HIDE DEF named, open
<1> QED
  BY <1>2, <1>3 DEF Client, IsEnd

LEMMA UnderstoodType ==
  ASSUME NEW c \in Client, NEW f \in Frame, Follows(c, f)
  PROVE  Understood(c, f) \in Seq(Piece)
<1> DEFINE piece(of) == [is |-> f.is, call |-> of, n |-> f.n]
<1>1. f.at \in Nat /\ f.n \in Nat /\ c.names \subseteq Nat \X Nat
  BY DEF Frame, Client
<1>2. ASSUME f.is \in {"text", "call", "arguments", "finish"}, NEW of \in Nat
      PROVE  <<piece(of)>> \in Seq(Piece)
  <2>1. piece(of) \in Piece
    BY <1>1, <1>2 DEF Piece
  <2> HIDE DEF piece
  <2> QED
    BY <2>1
<1>3. CASE f.is = "arguments"
  <2>1. PICK x \in Names(c, f.at) : TRUE
    BY <1>3 DEF Follows, Fits
  <2>2. (CHOOSE y \in Names(c, f.at) : TRUE) \in Names(c, f.at)
    BY <2>1
  <2>3. (CHOOSE y \in Names(c, f.at) : TRUE)[2] \in Nat
    BY <1>1, <2>2 DEF Names
  <2>4. Understood(c, f) = <<piece((CHOOSE y \in Names(c, f.at) : TRUE)[2])>>
    BY <1>3 DEF Understood
  <2> QED
    BY <1>2, <1>3, <2>3, <2>4
<1>4. CASE f.is = "call"
  BY <1>1, <1>2, <1>4 DEF Understood
<1>5. CASE f.is \in {"text", "finish"}
  BY <1>2, <1>5 DEF Understood
<1>6. CASE f.is \notin {"text", "call", "arguments", "finish"}
  BY <1>6 DEF Understood
<1> QED
  BY <1>3, <1>4, <1>5, <1>6

LEMMA DeliverStep ==
  ASSUME IInv, Deliver
  PROVE  IInv'
<1> DEFINE f == Head(draft)
<1>1. /\ body = "open" /\ draft # <<>> /\ draft \in Seq(Frame) /\ f \in Frame
      /\ draft' = Tail(draft) /\ Tail(draft) \in Seq(Frame)
      /\ UNCHANGED <<upstream, sse, translator, todo, body>>
  BY HeadTailProperties DEF Deliver, IInv, TypeOK
<1>2. client \in Client /\ heard \in Seq(Piece)
  BY DEF IInv, TypeOK
<1>3. /\ client' \in Client /\ heard' \in Seq(Piece)
      /\ client'.done => client.done \/ IsEnd(f)
  <2>1. CASE Follows(client, f)
    <3>1. heard' = heard \o Understood(client, f) /\ client' = After(client, f)
      BY <2>1 DEF Deliver
    <3>2. heard' \in Seq(Piece)
      BY <1>1, <1>2, <2>1, <3>1, UnderstoodType, ConcatProperties
    <3> QED
      BY <1>1, <1>2, <3>1, <3>2, AfterType
  <2>2. CASE ~Follows(client, f)
    <3>1. client' = [client EXCEPT !.lost = TRUE] /\ heard' = heard
      BY <2>2 DEF Deliver
    <3> QED
      BY <1>2, <3>1 DEF Client
  <2> QED
    BY <2>1, <2>2
<1>4. TypeOK'
  BY <1>1, <1>3 DEF IInv, TypeOK, upstream, sse
<1>5. (OnItsWay => Marked)'
  <2>1. (EndIn(draft') => EndIn(draft)) /\ (IsEnd(f) => EndIn(draft))
    BY <1>1, EndInParts
  <2>2. Marked' = Marked /\ todo' = todo
    BY <1>1 DEF Marked, Ended, upstream
  <2> QED
    BY <1>3, <2>1, <2>2 DEF IInv, OnItsWay
<1> QED
  BY <1>1, <1>4, <1>5 DEF IInv, Drained, NothingLeft, upstream, sse

LEMMA Inductive == Spec => []IInv
<1>1. IInv /\ [Next]_vars => IInv'
  <2> SUFFICES ASSUME IInv, [Next]_vars PROVE IInv'
    OBVIOUS
  <2>1. CASE Next
    BY <2>1, SpeakStep, ReadStep, TakeStep, EndStep, EncodeStep, DeliverStep DEF Next, Relay
  <2>2. CASE UNCHANGED vars
    BY <2>2 DEF vars, IInv, TypeOK, Drained, NothingLeft, OnItsWay, EndIn, Marked, Ended,
                upstream, sse, reader
  <2> QED
    BY <2>1, <2>2
<1> QED
  BY <1>1, InitInv, PTL DEF Spec

-----------------------------------------------------------------------------
(* Whatever is streamed, in whatever chunks: translate_sse takes no event  *)
(* it has not read, and StreamTranslator's open block is one it has opened.*)
THEOREM TypeCorrect == Spec => []TypeOK
BY Inductive, PTL DEF IInv

(* translate_sse ends a body without an error only when its buffer and its *)
(* pending queue are empty and the upstream has closed in order.           *)
THEOREM NothingIsLeft == Spec => []NothingLeft
BY Inductive, PTL DEF IInv

(* No way through decode, remember and encode makes an end of anything but *)
(* an end: a cut stream does not look whole, except from Gemini.           *)
THEOREM EndHeld == Spec => []EndIsTrue
<1>1. IInv => EndIsTrue
  BY DEF IInv, OnItsWay, EndIsTrue
<1> QED
  BY <1>1, Inductive, PTL

-----------------------------------------------------------------------------
(***************************************************************************)
(* What the client of a translated stream makes of it, for streams of any  *)
(* length: it can follow every frame, it understands what was said, and a  *)
(* body that ends without an error has told it everything.  StreamTrans-   *)
(* lation says which five kinds of stream are excepted.                    *)
(*                                                                         *)
(* The relay keeps no list of what it has passed on, so the invariant says *)
(* what such a list would: where in the answer each event begins (off),    *)
(* and in which states the client will be after each frame that is still   *)
(* on its way (w).  The last of these is the one that the translator's     *)
(* flags must agree with.                                                  *)
(***************************************************************************)

Within(h, kind) == \E i \in DOMAIN h : h[i].is = kind

(* m names the last call in h; it is zero when there is none.              *)
Latest(m, h) ==
  \/ m = 0 /\ ~Within(h, "call")
  \/ /\ \E i \in DOMAIN h : h[i].is = "call" /\ h[i].call = m
     /\ \A i \in DOMAIN h : h[i].is = "call" => h[i].call <= m

(* Calls, of any sequence of pieces.                                       *)
CallsIn(s) == Cardinality({i \in DOMAIN s : s[i].is = "call"})

-----------------------------------------------------------------------------
(***************************************************************************)
(* What every vendor's stream is like.                                     *)
(***************************************************************************)
FinishLast(s) ==
  \A i \in DOMAIN s : s[i].is = "finish" =>
    /\ i = Len(s) /\ s[i].call = 0
    /\ s[i].n = IF from # "gemini" /\ Within(s, "call") THEN 1 ELSE 0

(* Calls are numbered as they begin, and all that carry arguments began.   *)
Numbered(s) ==
  /\ \A i \in DOMAIN s : s[i].is = "call" => s[i].n = s[i].call /\ s[i].call # 0
  /\ \A i, j \in DOMAIN s :
       i < j /\ s[i].is = "call" /\ s[j].is = "call" => s[i].call < s[j].call

ArgumentsFollow(s) ==
  \A i \in DOMAIN s : s[i].is = "arguments" =>
    \E j \in DOMAIN s : j < i /\ s[j].is = "call" /\ s[j].call = s[i].call

Grammar(s) ==
  /\ FinishLast(s) /\ Numbered(s) /\ ArgumentsFollow(s)
  /\ \A i \in DOMAIN s : s[i].is = "text" => s[i].call = 0

(* Where an event says a call stands: only Gemini has but one place.       *)
Place(p) == IF from = "gemini" THEN 1 ELSE p.call
InPlace(e) ==
  \A j \in DOMAIN e.pieces :
    e.pieces[j].is \in {"call", "arguments"} => e.at = Place(e.pieces[j])

(* No call is named by a place that has not begun.                         *)
Counted == \A i \in DOMAIN said : said[i].is = "call" => said[i].call <= places

Vendor ==
  /\ Counted /\ \A i \in DOMAIN events : InPlace(events[i])
  /\ \A i \in DOMAIN events : events[i].mark = "start" =>
       i = 1 /\ from \in {"anthropic", "responses"}
  /\ events # <<>> =>
       /\ events[1].mark # "done"
       /\ from \in {"anthropic", "responses"} => events[1].mark \in {"start", "foreign"}
  /\ \A i, j \in DOMAIN events : i < j /\ events[i].mark = "done" => events[j].mark = "foreign"
  /\ \A i \in DOMAIN events : events[i].mark = "done" => from # "gemini"
  /\ from = "responses" =>
       \A i \in DOMAIN events : \A j \in DOMAIN events[i].pieces :
         events[i].pieces[j].is = "finish" => j = 1

(* Of the answer s, the event evs[i] carries s[off[i-1] + 1] to s[off[i]]. *)
Laid(off, evs, s) ==
  /\ off \in [0..Len(evs) -> 0..Len(s)]
  /\ off[0] = 0 /\ off[Len(evs)] = Len(s)
  /\ \A i \in DOMAIN evs :
       /\ off[i] = off[i - 1] + Len(evs[i].pieces)
       /\ \A j \in DOMAIN evs[i].pieces : s[off[i - 1] + j] = evs[i].pieces[j]
       /\ evs[i].mark = "done" => \E j \in 1..off[i] : s[j].is = "finish"

-----------------------------------------------------------------------------
(***************************************************************************)
(* The client and what it has heard, after each frame on its way.          *)
(***************************************************************************)
Reader == [client : Client, heard : Seq(Piece)]
Reads(r, f) == [client |-> After(r.client, f), heard |-> r.heard \o Understood(r.client, f)]

Begins(h, s) == Len(h) <= Len(s) /\ \A i \in 1..Len(h) : h[i] = s[i]
Right(r) == r \in Reader /\ ~r.client.lost /\ Begins(r.heard, said)

CanRead(r, f, next) == Follows(r.client, f) /\ next = Reads(r, f) /\ Right(next)

Way(w, d) ==
  /\ DOMAIN w = 0..Len(d)
  /\ w[0] = [client |-> client, heard |-> heard]
  /\ \A i \in 0..Len(d) : Right(w[i])
  /\ \A i \in 1..Len(d) : CanRead(w[i - 1], d[i], w[i])

(* The flags t of the translator, and what the client r will be when it    *)
(* has read all the frames made so far.                                    *)
ChatNames(h) == {<<Place(h[i]), h[i].n>> : i \in {j \in DOMAIN h : h[j].is = "call"}}

Blocks(t, names, h) ==
  /\ \A x \in names : x[1] <= t.blocks
  /\ \A x, y \in names : x[1] = y[1] => x = y
  /\ t.active # 0 =>
       /\ \E m \in Nat : <<t.active, m>> \in names /\ Latest(m, h)
       /\ ~Within(h, "finish")

Agree(t, r) ==
  /\ r.client.begun <=> t.started \/ to = "gemini"
  /\ r.client.open = IF to = "anthropic" THEN t.active ELSE 0
  /\ t.sawTool <=> Within(r.heard, "call")
  /\ to = "chat" => r.client.names = ChatNames(r.heard)
  /\ to = "anthropic" => Blocks(t, r.client.names, r.heard)

(* The rest of the event in translation: a first event, k pieces, an end.  *)
EndTaken ==
  \/ \E i \in 1..taken : events[i].mark = "done"
  \/ from = "gemini" /\ terminalSeen

Stands(c, p) ==
  /\ c.is = p.is /\ c.n = p.n
  /\ p.is \in {"call", "arguments"} => c.at = Place(p)
  /\ p.is = "finish" \/ (p.is = "text" /\ to \in {"chat", "gemini"}) => c.at = 1

Rest(r, upto, a, k, z) ==
  /\ Len(todo) = a + k + z /\ Len(r.heard) + k = upto
  /\ a = 1 => todo[1].is = "start" /\ ~translator.started
  /\ \A i \in 1..k : Stands(todo[a + i], said[Len(r.heard) + i])
  /\ z = 1 => /\ IsEnd(todo[a + k + 1]) /\ EndTaken
              /\ to = "anthropic" => \E j \in 1..upto : said[j].is = "finish"
  /\ (r.client.done <=> to # "gemini" /\ EndTaken /\ z = 0)
  /\ r.client.done => todo = <<>>
  /\ IF taken = 0 THEN ~translator.started /\ a = 0 ELSE translator.started \/ a = 1

OnCourse(off, w) ==
  /\ Way(w, draft)
  /\ Agree(translator, w[Len(draft)])
  /\ \E a, z \in {0, 1}, k \in Nat : Rest(w[Len(draft)], off[taken], a, k, z)
  /\ to = "responses" => taken = 0 /\ ~EndTaken /\ todo = <<>> /\ draft = <<>>

Understands ==
  \E off :
    /\ Laid(off, events, said)
    /\ ~Untranslatable =>
         /\ ~client.lost /\ Begins(heard, said)
         /\ body # "failed" => \E w : OnCourse(off, w)

(* The end of a Gemini stream is made up when nothing is left to take, and *)
(* the body is closed only after that.                                     *)
GeminiEnds ==
  from = "gemini" =>
    /\ body = "closed" => terminalSeen
    /\ body = "open" /\ terminalSeen => upstreamDone /\ taken = read

CInv == IInv /\ Grammar(said) /\ Vendor /\ GeminiEnds /\ Understands

-----------------------------------------------------------------------------
(***************************************************************************)
(* One more piece.                                                         *)
(***************************************************************************)
LEMMA AppendParts ==
  ASSUME NEW S, NEW s \in Seq(S), NEW x \in S
  PROVE  /\ Append(s, x) \in Seq(S) /\ Len(Append(s, x)) = Len(s) + 1 /\ Len(s) \in Nat
         /\ DOMAIN s = 1..Len(s) /\ DOMAIN Append(s, x) = 1..(Len(s) + 1)
         /\ \A i \in 1..Len(s) : Append(s, x)[i] = s[i]
         /\ Append(s, x)[Len(s) + 1] = x
         /\ s \o <<x>> = Append(s, x)
BY AppendProperties, LenProperties, AppendIsConcat

LEMMA AppendTwo ==
  ASSUME NEW S, NEW s \in Seq(S), NEW x \in S, NEW y \in S
  PROVE  s \o <<x, y>> = Append(Append(s, x), y)
<1> DEFINE t == Append(Append(s, x), y)
           u == s \o <<x, y>>
           pair == <<x, y>>
<1>1. pair \in Seq(S) /\ Len(pair) = 2 /\ pair[1] = x /\ pair[2] = y
  OBVIOUS
<1>2. /\ t \in Seq(S) /\ Len(t) = Len(s) + 2 /\ Len(s) \in Nat
      /\ \A i \in 1..Len(s) : t[i] = s[i]
      /\ t[Len(s) + 1] = x /\ t[Len(s) + 2] = y
  <2>1. /\ Append(s, x) \in Seq(S) /\ Len(Append(s, x)) = Len(s) + 1 /\ Len(s) \in Nat
        /\ \A i \in 1..Len(s) : Append(s, x)[i] = s[i]
        /\ Append(s, x)[Len(s) + 1] = x
    BY AppendParts
  <2>2. /\ t \in Seq(S) /\ Len(t) = Len(Append(s, x)) + 1
        /\ \A i \in 1..Len(Append(s, x)) : t[i] = Append(s, x)[i]
        /\ t[Len(Append(s, x)) + 1] = y
    BY <2>1, AppendParts
  <2> HIDE DEF t
  <2> QED
    BY <2>1, <2>2
<1> HIDE DEF t, pair
<1>3. /\ u \in Seq(S) /\ Len(u) = Len(s) + 2
      /\ \A i \in 1..Len(s) + 2 : u[i] = IF i <= Len(s) THEN s[i] ELSE pair[i - Len(s)]
  BY <1>1, ConcatProperties DEF pair
<1> HIDE DEF u
<1>4. \A i \in 1..Len(u) : u[i] = t[i]
  <2> TAKE i \in 1..Len(u)
  <2>1. i \in 1..Len(s) \/ i = Len(s) + 1 \/ i = Len(s) + 2
    BY <1>2, <1>3
  <2> QED
    BY <1>1, <1>2, <1>3, <2>1
<1>5. u = t
  BY <1>2, <1>3, <1>4, SeqEqual
<1> QED
  BY <1>5 DEF u, t

LEMMA CallsAppend ==
  ASSUME NEW s \in Seq(Piece), NEW p \in Piece
  PROVE  /\ CallsIn(s) \in Nat
         /\ CallsIn(Append(s, p)) = IF p.is = "call" THEN CallsIn(s) + 1 ELSE CallsIn(s)
<1> DEFINE A == {i \in DOMAIN s : s[i].is = "call"}
           B == {i \in DOMAIN Append(s, p) : Append(s, p)[i].is = "call"}
<1>1. IsFiniteSet(A) /\ Cardinality(A) \in Nat
  <2>1. DOMAIN s = 1..Len(s) /\ Len(s) \in Nat
    BY LenProperties
  <2>2. IsFiniteSet(1..Len(s)) /\ A \subseteq 1..Len(s)
    BY <2>1, FS_Interval
  <2> QED
    BY <2>2, FS_Subset, FS_CardinalityType
<1>2. B = IF p.is = "call" THEN A \cup {Len(s) + 1} ELSE A
  <2>1. /\ Len(s) \in Nat /\ DOMAIN s = 1..Len(s) /\ DOMAIN Append(s, p) = 1..(Len(s) + 1)
        /\ \A i \in 1..Len(s) : Append(s, p)[i] = s[i]
        /\ Append(s, p)[Len(s) + 1] = p
    BY AppendParts
  <2> QED
    BY <2>1
<1>3. Len(s) + 1 \notin A
  BY LenProperties
<1> HIDE DEF A, B
<1>4. Cardinality(A \cup {Len(s) + 1}) = Cardinality(A) + 1
  BY <1>1, <1>3, FS_AddElement
<1> QED
  BY <1>1, <1>2, <1>4 DEF CallsIn, A, B

LEMMA WithinAppend ==
  ASSUME NEW s \in Seq(Piece), NEW p \in Piece, NEW kind
  PROVE  Within(Append(s, p), kind) <=> Within(s, kind) \/ p.is = kind
<1>1. /\ Len(s) \in Nat /\ DOMAIN s = 1..Len(s) /\ DOMAIN Append(s, p) = 1..(Len(s) + 1)
      /\ \A i \in 1..Len(s) : Append(s, p)[i] = s[i]
      /\ Append(s, p)[Len(s) + 1] = p
  BY AppendParts
<1> QED
  BY <1>1 DEF Within

LEMMA LatestAppend ==
  ASSUME NEW s \in Seq(Piece), NEW p \in Piece, NEW m \in Nat, Latest(m, s), p.is # "call"
  PROVE  Latest(m, Append(s, p))
<1>1. /\ Len(s) \in Nat /\ DOMAIN s = 1..Len(s) /\ DOMAIN Append(s, p) = 1..(Len(s) + 1)
      /\ \A i \in 1..Len(s) : Append(s, p)[i] = s[i]
      /\ Append(s, p)[Len(s) + 1] = p
  BY AppendParts
<1> QED
  BY <1>1 DEF Latest, Within

LEMMA LatestCall ==
  ASSUME NEW s \in Seq(Piece), NEW p \in Piece, p.is = "call",
         \A i \in DOMAIN s : s[i].is = "call" => s[i].call < p.call
  PROVE  Latest(p.call, Append(s, p))
<1>1. /\ Len(s) \in Nat /\ DOMAIN s = 1..Len(s) /\ DOMAIN Append(s, p) = 1..(Len(s) + 1)
      /\ \A i \in 1..Len(s) : Append(s, p)[i] = s[i] /\ s[i] \in Piece
      /\ Append(s, p)[Len(s) + 1] = p
  BY AppendParts, ElementOfSeq
<1>2. \A i \in 1..Len(s) : s[i].call \in Nat
  BY <1>1 DEF Piece
<1>3. p.call \in Nat
  BY DEF Piece
<1> QED
  BY <1>1, <1>2, <1>3 DEF Latest

LEMMA LatestUnique ==
  ASSUME NEW s \in Seq(Piece), NEW m \in Nat, NEW n \in Nat, Latest(m, s), Latest(n, s),
         n # 0
  PROVE  m = n
<1>1. PICK i \in DOMAIN s : s[i].is = "call" /\ s[i].call = n
  BY DEF Latest
<1>2. Within(s, "call")
  BY <1>1 DEF Within
<1>3. PICK j \in DOMAIN s : s[j].is = "call" /\ s[j].call = m
  BY <1>2 DEF Latest
<1>4. (\A x \in DOMAIN s : s[x].is = "call" => s[x].call <= m)
      /\ (\A x \in DOMAIN s : s[x].is = "call" => s[x].call <= n)
  BY <1>2 DEF Latest
<1> QED
  BY <1>1, <1>3, <1>4

LEMMA ChatNamesAppend ==
  ASSUME NEW s \in Seq(Piece), NEW p \in Piece
  PROVE  ChatNames(Append(s, p)) =
           ChatNames(s) \cup (IF p.is = "call" THEN {<<Place(p), p.n>>} ELSE {})
<1>1. /\ Len(s) \in Nat /\ DOMAIN s = 1..Len(s) /\ DOMAIN Append(s, p) = 1..(Len(s) + 1)
      /\ \A i \in 1..Len(s) : Append(s, p)[i] = s[i]
      /\ Append(s, p)[Len(s) + 1] = p
  BY AppendParts
<1> QED
  BY <1>1 DEF ChatNames

-----------------------------------------------------------------------------
(***************************************************************************)
(* What the upstream says next keeps to the grammar.                       *)
(***************************************************************************)
MayFollow(p, s) ==
  /\ ~Within(s, "finish")
  /\ \/ p.is = "text" /\ p.call = 0
     \/ /\ p.is = "call" /\ p.n = p.call /\ p.call # 0
        /\ \A i \in DOMAIN s : s[i].is = "call" => s[i].call < p.call
     \/ /\ p.is = "arguments"
        /\ \E i \in DOMAIN s : s[i].is = "call" /\ s[i].call = p.call
     \/ /\ p.is = "finish" /\ p.call = 0
        /\ p.n = IF from # "gemini" /\ Within(s, "call") THEN 1 ELSE 0

LEMMA CallsCounted ==
  ASSUME NEW s \in Seq(Piece)
  PROVE  /\ CallsIn(s) \in Nat
         /\ Within(s, "call") <=> CallsIn(s) > 0
         /\ CallsIn(s) <= 1 =>
              \A i, j \in DOMAIN s : s[i].is = "call" /\ s[j].is = "call" => i = j
<1> DEFINE S == {i \in DOMAIN s : s[i].is = "call"}
<1>1. IsFiniteSet(S)
  <2>1. DOMAIN s = 1..Len(s) /\ Len(s) \in Nat
    BY LenProperties
  <2>2. IsFiniteSet(1..Len(s)) /\ S \subseteq 1..Len(s)
    BY <2>1, FS_Interval
  <2> QED
    BY <2>2, FS_Subset
<1>2. CallsIn(s) = Cardinality(S)
  BY DEF CallsIn
<1>3. Within(s, "call") <=> S # {}
  BY DEF Within
<1>4. \A i, j \in DOMAIN s : s[i].is = "call" /\ s[j].is = "call" => i \in S /\ j \in S
  OBVIOUS
<1> HIDE DEF S
<1>5. Cardinality(S) \in Nat /\ (Cardinality(S) = 0 <=> S = {})
  BY <1>1, FS_CardinalityType, FS_EmptySet
<1>6. ASSUME Cardinality(S) <= 1, NEW i \in S, NEW j \in S, i # j PROVE FALSE
  <2>1. Cardinality(S) # 0
    BY <1>5
  <2>2. Cardinality(S) = 1
    BY <1>5, <1>6, <2>1
  <2>3. \E x : S = {x}
    BY <1>1, <2>2, FS_Singleton
  <2> QED
    BY <1>6, <2>3
<1> QED
  BY <1>2, <1>3, <1>4, <1>5, <1>6

LEMMA GrammarAppend ==
  ASSUME NEW s \in Seq(Piece), NEW p \in Piece, Grammar(s), MayFollow(p, s)
  PROVE  Grammar(Append(s, p))
<1> DEFINE t == Append(s, p)
<1>1. /\ Len(s) \in Nat /\ DOMAIN s = 1..Len(s) /\ DOMAIN t = 1..(Len(s) + 1)
      /\ \A i \in 1..Len(s) : t[i] = s[i]
      /\ t[Len(s) + 1] = p /\ Len(t) = Len(s) + 1
  BY AppendParts
<1>4. \A i \in DOMAIN s : s[i].is # "finish"
  BY DEF MayFollow, Within
<1>5. p.is = "finish" => (Within(t, "call") <=> Within(s, "call"))
  BY WithinAppend
<1>6. FinishLast(t)
  <2> SUFFICES ASSUME NEW i \in DOMAIN t, t[i].is = "finish"
               PROVE  /\ i = Len(t) /\ t[i].call = 0
                      /\ t[i].n = IF from # "gemini" /\ Within(t, "call") THEN 1 ELSE 0
    BY DEF FinishLast
  <2>1. i = Len(s) + 1 /\ t[i] = p
    BY <1>1, <1>4
  <2>2. p.call = 0 /\ p.n = IF from # "gemini" /\ Within(s, "call") THEN 1 ELSE 0
    BY <2>1 DEF MayFollow
  <2> QED
    BY <1>1, <1>5, <2>1, <2>2
<1> HIDE DEF t
<1>7. Numbered(t)
  <2>1. /\ \A i \in DOMAIN s : s[i].is = "call" => s[i].n = s[i].call /\ s[i].call # 0
        /\ \A i, j \in DOMAIN s :
             i < j /\ s[i].is = "call" /\ s[j].is = "call" => s[i].call < s[j].call
    BY DEF Grammar, Numbered
  <2>2. p.is = "call" => /\ p.n = p.call /\ p.call # 0
                         /\ \A i \in DOMAIN s : s[i].is = "call" => s[i].call < p.call
    BY DEF MayFollow
  <2>3. \A i \in DOMAIN t : t[i].is = "call" => t[i].n = t[i].call /\ t[i].call # 0
    BY <1>1, <2>1, <2>2
  <2>4. \A i, j \in DOMAIN t :
          i < j /\ t[i].is = "call" /\ t[j].is = "call" => t[i].call < t[j].call
    BY <1>1, <2>1, <2>2
  <2> QED
    BY <2>3, <2>4 DEF Numbered
<1>8. ArgumentsFollow(t)
  <2> SUFFICES ASSUME NEW i \in DOMAIN t, t[i].is = "arguments"
               PROVE  \E j \in DOMAIN t : j < i /\ t[j].is = "call" /\ t[j].call = t[i].call
    BY DEF ArgumentsFollow
  <2>1. CASE i \in 1..Len(s)
    <3>1. PICK j \in DOMAIN s : j < i /\ s[j].is = "call" /\ s[j].call = s[i].call
      BY <1>1, <2>1 DEF Grammar, ArgumentsFollow
    <3> QED
      BY <1>1, <2>1, <3>1
  <2>2. CASE i = Len(s) + 1
    <3>1. p.is = "arguments"
      BY <1>1, <2>2
    <3>2. PICK j \in DOMAIN s : s[j].is = "call" /\ s[j].call = p.call
      BY <3>1 DEF MayFollow
    <3> QED
      BY <1>1, <2>2, <3>2
  <2> QED
    BY <1>1, <2>1, <2>2
<1>9. \A i \in DOMAIN t : t[i].is = "text" => t[i].call = 0
  BY <1>1 DEF Grammar, MayFollow
<1> QED
  BY <1>6, <1>7, <1>8, <1>9 DEF Grammar, t

LEMMA PiecesFit ==
  ASSUME said \in Seq(Piece), places \in Nat, Counted, NEW e \in Sayable
  PROVE  \/ e.pieces = <<>>
         \/ \E p \in Piece : e.pieces = <<p>> /\ MayFollow(p, said)
         \/ \E p, q \in Piece :
              e.pieces = <<p, q>> /\ MayFollow(p, said) /\ MayFollow(q, Append(said, p))
<1>1. Calls = CallsIn(said) /\ Calls \in Nat /\ Len(said) \in Nat
      /\ (Within(said, "call") <=> Calls > 0) /\ DOMAIN said = 1..Len(said)
      /\ \A i \in DOMAIN said : said[i].call \in Nat
  <2>1. \A i \in 1..Len(said) : said[i] \in Piece
    BY ElementOfSeq
  <2> QED
    BY <2>1, CallsCounted, LenProperties DEF Calls, CallsIn, Piece
<1>2. /\ Text \in Piece /\ Call \in Piece /\ Finish \in Piece
      /\ \A c, n \in Nat : Arguments(c, n) \in Piece
  BY <1>1 DEF Text, Call, Finish, Arguments, Piece
<1>3. /\ Text.is = "text" /\ Text.call = 0
      /\ Call.is = "call" /\ Call.n = places + 1 /\ Call.call = places + 1
      /\ Finish.is = "finish" /\ Finish.call = 0
      /\ Finish.n = IF from # "gemini" /\ Calls > 0 THEN 1 ELSE 0
      /\ \A c, n \in Nat : Arguments(c, n).is = "arguments" /\ Arguments(c, n).call = c
  BY DEF Text, Call, Finish, Arguments
<1>4. CASE e.pieces = <<>>
  BY <1>4
<1>5. CASE ~Finished
  <2>2. ~Within(said, "finish")
    BY <1>5 DEF Finished, Within
  <2>3. MayFollow(Text, said) /\ MayFollow(Call, said) /\ MayFollow(Finish, said)
    <3>1. \A i \in DOMAIN said : said[i].is = "call" => said[i].call < Call.call
      BY <1>1, <1>3 DEF Counted
    <3> QED
      BY <1>1, <1>3, <2>2, <3>1 DEF MayFollow
  <2>4. CASE e.pieces = <<Text>>
    BY <1>2, <2>3, <2>4
  <2>5. CASE e.pieces = <<Call>>
    BY <1>2, <2>3, <2>5
  <2>6. CASE \E c \in OpenCalls : e.pieces = <<Arguments(c, Len(said) + 1)>>
    <3>1. PICK c \in OpenCalls : e.pieces = <<Arguments(c, Len(said) + 1)>>
      BY <2>6
    <3> DEFINE p == Arguments(c, Len(said) + 1)
    <3>2. c \in Nat /\ c \in CallNames
      BY CallNamesType
    <3>3. p \in Piece /\ p.is = "arguments" /\ p.call = c
      BY <1>1, <1>2, <1>3, <3>2
    <3>4. e.pieces = <<p>>
      BY <3>1
    <3> HIDE DEF p
    <3>5. \E i \in DOMAIN said : said[i].is = "call" /\ said[i].call = p.call
      BY <3>2, <3>3 DEF CallNames
    <3>6. MayFollow(p, said)
      BY <2>2, <3>3, <3>5 DEF MayFollow
    <3> QED
      BY <3>3, <3>4, <3>6
  <2>7. CASE e.pieces = <<Call, Arguments(places + 1, Len(said) + 2)>>
    <3> DEFINE q == Arguments(places + 1, Len(said) + 2)
               t == Append(said, Call)
    <3>1. q \in Piece /\ q.is = "arguments" /\ q.call = places + 1
      BY <1>1, <1>2, <1>3
    <3>2. e.pieces = <<Call, q>>
      BY <2>7
    <3>3. ~Within(t, "finish")
      BY <1>2, <1>3, <2>2, WithinAppend
    <3>4. Len(said) + 1 \in DOMAIN t /\ t[Len(said) + 1] = Call
      BY <1>1, <1>2, AppendParts
    <3> HIDE DEF q, t
    <3>5. MayFollow(q, t)
      BY <1>3, <3>1, <3>3, <3>4 DEF MayFollow
    <3> QED
      BY <1>2, <2>3, <3>1, <3>2, <3>5 DEF t
  <2>8. CASE e.pieces = <<Finish>>
    BY <1>2, <2>3, <2>8
  <2>9. CASE e.pieces = <<Text, Finish>>
    <3> DEFINE t == Append(said, Text)
    <3>1. (Within(t, "call") <=> Calls > 0) /\ ~Within(t, "finish")
      BY <1>1, <1>2, <1>3, <2>2, WithinAppend
    <3> HIDE DEF t
    <3>2. MayFollow(Finish, t)
      BY <1>3, <3>1 DEF MayFollow
    <3> QED
      BY <1>2, <2>3, <2>9, <3>2 DEF t
  <2> QED
    BY <1>4, <2>4, <2>5, <2>6, <2>7, <2>8, <2>9, SayableIs
<1> QED
  BY <1>4, <1>5, SayableIs

(* The event gives the place of its call, which the upstream counts.       *)
LEMMA PlacesKept ==
  ASSUME said \in Seq(Piece), places \in Nat, Counted, NEW e \in Sayable, Sends(e)
  PROVE  InPlace(e) /\ Counted'
<1>1. /\ Text.is = "text" /\ Finish.is = "finish" /\ Call.is = "call" /\ Call.call = places + 1
      /\ \A c, n : Arguments(c, n).is = "arguments" /\ Arguments(c, n).call = c
  BY DEF Text, Call, Finish, Arguments
<1>2. InPlace(e)
  <2>1. CASE e.pieces \in {<<>>, <<Text>>, <<Finish>>, <<Text, Finish>>}
    BY <1>1, <2>1 DEF InPlace
  <2>2. CASE e.pieces = <<Call>> /\ e.at = places + 1 /\ from # "gemini"
    BY <1>1, <2>2 DEF InPlace, Place
  <2>3. CASE /\ e.pieces = <<Call, Arguments(places + 1, Len(said) + 2)>>
             /\ e.at = 1 /\ from = "gemini"
    BY <2>3 DEF InPlace, Place
  <2>4. CASE \E c \in OpenCalls : e.pieces = <<Arguments(c, Len(said) + 1)>> /\ e.at = c
    <3>1. PICK c \in OpenCalls : e.pieces = <<Arguments(c, Len(said) + 1)>> /\ e.at = c
      BY <2>4
    <3>2. from # "gemini"
      BY <3>1 DEF OpenCalls
    <3> QED
      BY <1>1, <3>1, <3>2 DEF InPlace, Place
  <2> QED
    BY <2>1, <2>2, <2>3, <2>4, SayableIs
<1>3. e \in Event
  BY SayableType
<1>4. /\ said' = said \o e.pieces /\ e.pieces \in Seq(Piece)
      /\ Len(e.pieces) \in Nat /\ DOMAIN e.pieces = 1..Len(e.pieces)
      /\ Len(said) \in Nat /\ DOMAIN said = 1..Len(said)
  BY <1>3, LenProperties DEF Sends, Event
<1>5. /\ said' \in Seq(Piece) /\ Len(said') = Len(said) + Len(e.pieces)
      /\ \A i \in 1..Len(said') :
           said'[i] = IF i <= Len(said) THEN said[i] ELSE e.pieces[i - Len(said)]
  BY <1>4, ConcatProperties
<1>6. DOMAIN said' = 1..Len(said')
  BY <1>5, LenProperties
<1>7. ASSUME NEW j \in DOMAIN e.pieces, e.pieces[j].is = "call"
      PROVE  e.pieces[j].call = places + 1 /\ places' = places + 1
  <2>1. \/ e.pieces = <<Call>> /\ e.at = places + 1
        \/ e.pieces = <<Call, Arguments(places + 1, Len(said) + 2)>> /\ from = "gemini"
    BY <1>1, <1>7, SayableIs
  <2>2. e.pieces[j] = Call
    BY <1>1, <1>7, <2>1
  <2>3. BeginsPlace(e)
    BY <1>7, <2>1 DEF BeginsPlace, HasBlocks
  <2> QED
    BY <1>1, <2>2, <2>3 DEF Sends
<1>8. places <= places'
  BY DEF Sends
<1>9. \A i \in 1..Len(said) : said[i].call \in Nat
  <2>1. \A i \in 1..Len(said) : said[i] \in Piece
    BY ElementOfSeq
  <2> QED
    BY <2>1 DEF Piece
<1>10. ASSUME NEW i \in 1..Len(said'), said'[i].is = "call"
       PROVE  said'[i].call <= places'
  <2>1. CASE i <= Len(said)
    <3>1. i \in 1..Len(said) /\ said'[i] = said[i]
      BY <1>4, <1>5, <2>1
    <3>2. said[i].call <= places /\ said[i].call \in Nat
      BY <1>4, <1>9, <1>10, <3>1 DEF Counted
    <3>3. places' \in Nat
      BY DEF Sends
    <3> QED
      BY <1>8, <3>1, <3>2, <3>3
  <2>2. CASE ~(i <= Len(said))
    <3>1. i - Len(said) \in DOMAIN e.pieces /\ said'[i] = e.pieces[i - Len(said)]
      BY <1>4, <1>5, <2>2
    <3> QED
      BY <1>7, <1>10, <3>1
  <2> QED
    BY <2>1, <2>2
<1>11. Counted'
  BY <1>6, <1>10 DEF Counted
<1> QED
  BY <1>2, <1>11

LEMMA GrammarKept ==
  ASSUME said \in Seq(Piece), Grammar(said), places \in Nat, Counted, NEW e \in Sayable
  PROVE  LET s == said \o e.pieces
         IN s \in Seq(Piece) /\ Grammar(s) /\ CallsIn(said) <= CallsIn(s)
<1>1. \A t \in Seq(Piece) : \A p \in Piece :
        /\ Append(t, p) \in Seq(Piece) /\ t \o <<p>> = Append(t, p)
        /\ CallsIn(t) \in Nat /\ CallsIn(t) <= CallsIn(Append(t, p))
        /\ Grammar(t) /\ MayFollow(p, t) => Grammar(Append(t, p))
  BY AppendParts, CallsAppend, GrammarAppend
<1>2. CASE e.pieces = <<>>
  <2>1. said \o <<>> = said /\ CallsIn(said) \in Nat
    BY ConcatEmptySeq, CallsType DEF Calls, CallsIn
  <2> QED
    BY <1>2, <2>1
<1>3. CASE \E p \in Piece : e.pieces = <<p>> /\ MayFollow(p, said)
  BY <1>1, <1>3
<1>4. CASE \E p, q \in Piece :
             e.pieces = <<p, q>> /\ MayFollow(p, said) /\ MayFollow(q, Append(said, p))
  <2>1. PICK p, q \in Piece :
          e.pieces = <<p, q>> /\ MayFollow(p, said) /\ MayFollow(q, Append(said, p))
    BY <1>4
  <2>2. said \o <<p, q>> = Append(Append(said, p), q)
    BY AppendTwo
  <2>3. Grammar(Append(said, p)) /\ Append(said, p) \in Seq(Piece)
    BY <1>1, <2>1
  <2>4. Grammar(Append(Append(said, p), q)) /\ Append(Append(said, p), q) \in Seq(Piece)
    BY <1>1, <2>1, <2>3
  <2>5. CallsIn(said) <= CallsIn(Append(said, p))
        /\ CallsIn(Append(said, p)) <= CallsIn(Append(Append(said, p), q))
        /\ CallsIn(said) \in Nat /\ CallsIn(Append(said, p)) \in Nat
        /\ CallsIn(Append(Append(said, p), q)) \in Nat
    BY <1>1, <2>3, <2>4
  <2>6. CallsIn(said) <= CallsIn(Append(Append(said, p), q))
    BY <2>5
  <2> QED
    BY <2>1, <2>2, <2>4, <2>6
<1> QED
  BY <1>2, <1>3, <1>4, PiecesFit

LEMMA SayableMarks ==
  ASSUME Ended => Finished, NEW e \in Sayable
  PROVE  /\ e.mark = "start" => Opening
         /\ Opening => e.mark \in {"start", "foreign"} \/ Finished
         /\ e.mark = "done" => /\ from # "gemini" /\ ~Ended
                               /\ Finished \/ (e.pieces = <<Finish>> /\ ~Opening)
         /\ Finished /\ Ended => e.mark = "foreign"
<1>1. (\A m : Marks(m).mark = m) /\ (\A p, n : Carries(p, n).mark = "none")
  BY DEF Marks, Carries
<1>2. ASSUME NEW c \in Content PROVE c.mark = "none"
  <2>1. PICK p, n : c = Carries(p, n)
    BY DEF Content
  <2> QED
    BY <1>1, <2>1
<1>3. \A c \in Endings : /\ c.mark \in {"none", "done"}
                         /\ c.mark = "done" => from = "responses" /\ c.pieces = <<Finish>>
  <2>1. LET d == [Carries(<<Finish>>, 0) EXCEPT !.mark = "done"]
        IN  d.mark = "done" /\ d.pieces = <<Finish>>
    BY DEF Carries
  <2>2. /\ Carries(<<Finish>>, 0).mark = "none" /\ Carries(<<Finish>>, 1).mark = "none"
        /\ Carries(<<Text, Finish>>, 1).mark = "none"
    BY <1>1
  <2> QED
    BY <2>1, <2>2 DEF Endings
<1>4. \/ e = Marks("foreign")
      \/ Opening /\ e = Marks("start")
      \/ ~Opening /\ ~Finished /\ e \in Content \cup Endings
      \/ Finished /\ ~Ended /\ from # "gemini" /\ e = Marks("done")
  BY DEF Sayable
<1>5. CASE ~Opening /\ ~Finished /\ e \in Content
  BY <1>2, <1>5
<1>6. CASE ~Opening /\ ~Finished /\ e \in Endings
  BY <1>3, <1>6
<1>7. CASE e = Marks("foreign")
  <2>1. e.mark = "foreign"
    BY <1>1, <1>7
  <2> QED
    BY <2>1
<1>8. CASE Opening /\ e = Marks("start")
  <2>1. e.mark = "start"
    BY <1>1, <1>8
  <2>2. ~Ended
    BY <1>8 DEF Opening, Ended
  <2> QED
    BY <1>8, <2>1, <2>2
<1>9. CASE Finished /\ ~Ended /\ from # "gemini" /\ e = Marks("done")
  <2>1. e.mark = "done"
    BY <1>1, <1>9
  <2> QED
    BY <1>9, <2>1
<1> QED
  BY <1>4, <1>5, <1>6, <1>7, <1>8, <1>9

LEMMA EndedFinished ==
  ASSUME TypeOK, NEW off, Laid(off, events, said)
  PROVE  /\ Ended => Finished
         /\ Finished => events # <<>>
<1>1. /\ Len(said) \in Nat /\ DOMAIN said = 1..Len(said)
      /\ Len(events) \in Nat /\ DOMAIN events = 1..Len(events)
  BY LenProperties DEF TypeOK
<1>2. \A i \in DOMAIN events : off[i] \in 0..Len(said)
  BY <1>1 DEF Laid
<1>3. ASSUME Ended PROVE Finished
  <2>1. PICK i \in DOMAIN events : events[i].mark = "done"
    BY <1>3 DEF Ended
  <2>2. PICK j \in 1..off[i] : said[j].is = "finish"
    BY <2>1 DEF Laid
  <2>3. j \in DOMAIN said
    BY <1>1, <1>2, <2>2
  <2> QED
    BY <2>2, <2>3 DEF Finished
<1>4. ASSUME Finished, events = <<>> PROVE FALSE
  <2>1. Len(events) = 0 /\ Len(said) # 0
    BY <1>1, <1>4 DEF Finished
  <2> QED
    BY <2>1 DEF Laid
<1> QED
  BY <1>3, <1>4

LEMMA LaidAppend ==
  ASSUME NEW evs \in Seq(Event), NEW s \in Seq(Piece), NEW off, Laid(off, evs, s),
         NEW e \in Event,
         e.mark = "done" => Within(s \o e.pieces, "finish")
  PROVE  \E o : /\ Laid(o, Append(evs, e), s \o e.pieces)
               /\ \A i \in 0..Len(evs) : o[i] = off[i]
<1> DEFINE t == s \o e.pieces
           all == Append(evs, e)
           N == Len(evs)
           o == [i \in 0..(N + 1) |-> IF i <= N THEN off[i] ELSE Len(t)]
<1>1. e.pieces \in Seq(Piece)
  BY DEF Event
<1>2. /\ N \in Nat /\ DOMAIN evs = 1..N /\ Len(all) = N + 1 /\ DOMAIN all = 1..(N + 1)
      /\ \A i \in 1..N : all[i] = evs[i]
      /\ all[N + 1] = e
  BY AppendParts
<1>3. /\ t \in Seq(Piece) /\ Len(s) \in Nat /\ Len(e.pieces) \in Nat
      /\ Len(t) = Len(s) + Len(e.pieces) /\ DOMAIN t = 1..Len(t)
      /\ DOMAIN e.pieces = 1..Len(e.pieces)
      /\ \A i \in 1..Len(s) : t[i] = s[i]
      /\ \A i \in 1..Len(e.pieces) : t[Len(s) + i] = e.pieces[i]
  <2>1. /\ t \in Seq(Piece) /\ Len(t) = Len(s) + Len(e.pieces)
        /\ \A i \in 1..Len(s) + Len(e.pieces) :
             t[i] = IF i <= Len(s) THEN s[i] ELSE e.pieces[i - Len(s)]
    BY <1>1, ConcatProperties
  <2> HIDE DEF t
  <2>2. Len(s) \in Nat /\ Len(e.pieces) \in Nat /\ DOMAIN e.pieces = 1..Len(e.pieces)
    BY <1>1, LenProperties
  <2>3. DOMAIN t = 1..Len(t)
    BY <2>1, LenProperties
  <2>4. ASSUME NEW i \in 1..Len(e.pieces) PROVE t[Len(s) + i] = e.pieces[i]
    BY <2>1, <2>2
  <2> QED
    BY <2>1, <2>2, <2>3, <2>4
<1> HIDE DEF t, all
<1>4. /\ off \in [0..N -> 0..Len(s)] /\ off[0] = 0 /\ off[N] = Len(s)
      /\ \A i \in 1..N :
           /\ off[i] = off[i - 1] + Len(evs[i].pieces)
           /\ \A j \in DOMAIN evs[i].pieces : s[off[i - 1] + j] = evs[i].pieces[j]
           /\ evs[i].mark = "done" => \E j \in 1..off[i] : s[j].is = "finish"
  BY <1>2 DEF Laid
<1>5. \A i \in 0..N : o[i] = off[i] /\ o[i] \in 0..Len(s)
  <2>1. ASSUME NEW i \in 0..N PROVE o[i] = off[i]
    BY <1>2
  <2>2. ASSUME NEW i \in 0..N PROVE off[i] \in 0..Len(s)
    BY <1>4
  <2> QED  BY <2>1, <2>2
<1>6. o[N + 1] = Len(t)
  BY <1>2
<1>7. o \in [0..Len(all) -> 0..Len(t)] /\ o[0] = 0 /\ o[Len(all)] = Len(t)
  BY <1>2, <1>3, <1>4, <1>5, <1>6
<1> HIDE DEF o
<1>8. ASSUME NEW i \in DOMAIN all
      PROVE  /\ o[i] = o[i - 1] + Len(all[i].pieces)
             /\ \A j \in DOMAIN all[i].pieces : t[o[i - 1] + j] = all[i].pieces[j]
             /\ all[i].mark = "done" => \E j \in 1..o[i] : t[j].is = "finish"
  <2>1. CASE i \in 1..N
    <3>1. all[i] = evs[i] /\ o[i] = off[i] /\ o[i - 1] = off[i - 1] /\ o[i] <= Len(s)
          /\ o[i] \in Nat /\ o[i - 1] \in Nat
      BY <1>2, <1>3, <1>5, <2>1
    <3>2. /\ o[i] = o[i - 1] + Len(all[i].pieces)
          /\ \A j \in DOMAIN all[i].pieces : s[o[i - 1] + j] = all[i].pieces[j]
      BY <1>4, <2>1, <3>1
    <3>3. all[i].pieces \in Seq(Piece)
      <4>1. evs[i] \in Event
        BY <2>1, ElementOfSeq
      <4> QED
        BY <3>1, <4>1 DEF Event
    <3>4. Len(all[i].pieces) \in Nat /\ DOMAIN all[i].pieces = 1..Len(all[i].pieces)
      BY <3>3, LenProperties
    <3>5. ASSUME NEW j \in DOMAIN all[i].pieces
          PROVE  t[o[i - 1] + j] = all[i].pieces[j]
      <4>1. o[i - 1] + j \in 1..Len(s)
        <5>1. j \in Nat /\ 1 <= j /\ j <= Len(all[i].pieces) /\ Len(s) \in Nat
          BY <1>3, <3>4
        <5> QED  BY <3>1, <3>2, <3>4, <5>1
      <4> QED
        BY <1>3, <3>2, <4>1
    <3>6. ASSUME all[i].mark = "done" PROVE \E j \in 1..o[i] : t[j].is = "finish"
      <4>1. PICK j \in 1..off[i] : s[j].is = "finish"
        BY <1>4, <2>1, <3>1, <3>6
      <4>2. j \in 1..Len(s) /\ j \in 1..o[i]
        BY <1>3, <3>1
      <4> QED
        BY <1>3, <4>1, <4>2
    <3> QED
      BY <3>2, <3>5, <3>6
  <2>2. CASE i = N + 1
    <3>1. all[i] = e /\ o[i] = Len(t) /\ o[i - 1] = Len(s)
      BY <1>2, <1>4, <1>5, <1>6, <2>2
    <3>2. ASSUME e.mark = "done" PROVE \E j \in 1..o[i] : t[j].is = "finish"
      <4>1. Within(t, "finish")
        BY <3>2 DEF t
      <4> QED
        BY <1>3, <3>1, <4>1 DEF Within
    <3> QED
      BY <1>3, <3>1, <3>2
  <2> QED
    BY <1>2, <2>1, <2>2
<1>9. Laid(o, all, t)
  BY <1>7, <1>8 DEF Laid
<1> QED
  BY <1>5, <1>9 DEF all, t

-----------------------------------------------------------------------------
(***************************************************************************)
(* The upstream speaks or closes.                                          *)
(***************************************************************************)
Longer(short, long) ==
  Len(short) <= Len(long) /\ \A i \in 1..Len(short) : long[i] = short[i]

LEMMA SingleOfResponses ==
  ASSUME said \in Seq(Piece), places \in Nat, from = "responses", NEW e \in Sayable
  PROVE  e.pieces = <<>> \/ \E p \in Piece : e.pieces = <<p>>
<1>1. Len(said) \in Nat
  BY LenProperties
<1>2. /\ Text \in Piece /\ Call \in Piece /\ Finish \in Piece
      /\ \A c, n \in Nat : Arguments(c, n) \in Piece
  BY <1>1 DEF Text, Call, Finish, Arguments, Piece
<1>3. ASSUME NEW c \in OpenCalls PROVE Arguments(c, Len(said) + 1) \in Piece
  BY <1>1, <1>2, CallNamesType
<1> QED
  BY <1>2, <1>3, SayableIs

LEMMA VendorAppend ==
  ASSUME CInv, NEW e \in Sayable, Sends(e), UNCHANGED from
  PROVE  Vendor'
<1> DEFINE all == Append(events, e)
           N == Len(events)
<1>0. events' = Append(events, e)
  BY DEF Sends
<1>1. PICK off : Laid(off, events, said)
  BY DEF CInv, Understands
<1>2. (Ended => Finished) /\ (Finished => events # <<>>)
  BY <1>1, EndedFinished DEF CInv, IInv
<1>3. e \in Event
  BY SayableType DEF CInv, IInv, TypeOK
<1>4. /\ N \in Nat /\ DOMAIN events = 1..N /\ DOMAIN all = 1..(N + 1)
      /\ \A i \in 1..N : all[i] = events[i]
      /\ all[N + 1] = e
  BY <1>3, AppendParts DEF CInv, IInv, TypeOK
<1>5. events = <<>> <=> N = 0
  BY EmptySeq DEF CInv, IInv, TypeOK
<1>6. /\ e.mark = "start" => Opening
      /\ Opening => e.mark \in {"start", "foreign"}
      /\ e.mark = "done" => from # "gemini" /\ ~Ended /\ events # <<>>
      /\ Ended => e.mark = "foreign"
  <2>1. Opening => ~Finished
    BY <1>2 DEF Opening
  <2>2. from \in {"anthropic", "responses"} \/ e.mark # "done" \/ Finished
    <3>1. CASE e.mark = "done" /\ e \in Endings
      <4>1. from \notin {"anthropic", "responses"} => e.mark = "none"
        BY <3>1 DEF Endings, Carries
      <4> QED
        BY <3>1, <4>1
    <3>2. e \in Content => e.mark = "none"
      BY DEF Content, Carries
    <3>3. e \in Content \/ e \in Endings \/ Finished \/ e.mark # "done"
      BY DEF Sayable, Marks
    <3> QED
      BY <3>1, <3>2, <3>3
  <2>3. e.mark = "done" => events # <<>>
    BY <1>2, <2>2, SayableMarks DEF Opening, HasBlocks
  <2> QED
    BY <1>2, <2>1, <2>3, SayableMarks
<1> HIDE DEF all
<1>7. /\ \A i \in 1..N : events[i].mark = "start" => i = 1 /\ from \in {"anthropic", "responses"}
      /\ N # 0 => /\ events[1].mark # "done"
                  /\ from \in {"anthropic", "responses"} => events[1].mark \in {"start", "foreign"}
      /\ \A i, j \in 1..N : i < j /\ events[i].mark = "done" => events[j].mark = "foreign"
      /\ \A i \in 1..N : events[i].mark = "done" => from # "gemini" /\ Ended
  BY <1>4, <1>5 DEF CInv, Vendor, Ended
<1>8. \A i \in DOMAIN all : all[i].mark = "start" => i = 1 /\ from \in {"anthropic", "responses"}
  BY <1>4, <1>5, <1>6, <1>7 DEF Opening, HasBlocks
<1>9. /\ all[1].mark # "done"
      /\ from \in {"anthropic", "responses"} => all[1].mark \in {"start", "foreign"}
  <2>1. CASE N = 0
    BY <1>4, <1>5, <1>6, <2>1 DEF Opening, HasBlocks
  <2>2. CASE N # 0
    <3>1. 1 \in 1..N
      BY <1>4, <2>2
    <3> QED
      BY <1>4, <1>7, <2>2, <3>1
  <2> QED
    BY <2>1, <2>2
<1>10. \A i, j \in DOMAIN all : i < j /\ all[i].mark = "done" => all[j].mark = "foreign"
  <2> SUFFICES ASSUME NEW i \in DOMAIN all, NEW j \in DOMAIN all, i < j, all[i].mark = "done"
               PROVE  all[j].mark = "foreign"
    OBVIOUS
  <2>1. i \in 1..N /\ all[i] = events[i]
    BY <1>4
  <2>2. CASE j \in 1..N
    BY <1>4, <1>7, <2>1, <2>2
  <2>3. CASE j = N + 1
    BY <1>4, <1>6, <1>7, <2>1, <2>3
  <2> QED
    BY <1>4, <2>2, <2>3
<1>11. \A i \in DOMAIN all : all[i].mark = "done" => from # "gemini"
  BY <1>4, <1>6, <1>7
<1>12. ASSUME from = "responses", NEW i \in DOMAIN all, NEW j \in DOMAIN all[i].pieces,
              all[i].pieces[j].is = "finish"
       PROVE  j = 1
  <2>1. CASE i \in 1..N
    BY <1>4, <1>12, <2>1 DEF CInv, Vendor
  <2>2. CASE i = N + 1
    <3>1. e.pieces = <<>> \/ \E p \in Piece : e.pieces = <<p>>
      BY <1>12, SingleOfResponses DEF CInv, IInv, TypeOK
    <3>2. j \in DOMAIN e.pieces
      BY <1>4, <2>2
    <3> QED
      BY <3>1, <3>2
  <2> QED
    BY <1>4, <2>1, <2>2
<1>13. InPlace(e) /\ Counted'
  BY PlacesKept DEF CInv, Vendor, IInv, TypeOK
<1>14. \A i \in DOMAIN all : InPlace(all[i])
  BY <1>4, <1>13 DEF CInv, Vendor
<1>15. events' = all /\ from' = from
  BY <1>0 DEF all
<1>16. (\A i \in DOMAIN events : InPlace(events[i]))'
  BY <1>14, <1>15 DEF InPlace, Place
<1> QED
  BY <1>8, <1>9, <1>10, <1>11, <1>12, <1>13, <1>15, <1>16 DEF Vendor

LEMMA SpeakEffect ==
  ASSUME CInv, Say \/ Close
  PROVE  /\ line = "open" /\ body = "open"
         /\ UNCHANGED <<from, to, read, taken, upstreamDone, terminalSeen, translator, todo,
                        draft, body, client, heard>>
         /\ Grammar(said)' /\ Vendor'
         /\ Longer(said, said') /\ Longer(events, events') /\ CallsIn(said) <= CallsIn(said')
         /\ \A off : Laid(off, events, said) =>
              \E o : /\ Laid(o, events', said')
                    /\ \A i \in 0..Len(events) : o[i] = off[i]
<1>1. /\ line = "open" /\ body = "open"
      /\ UNCHANGED <<from, to, read, taken, upstreamDone, terminalSeen, translator, todo,
                     draft, body, client, heard>>
  BY DEF Say, Close, sse, reader
<1>2. /\ events \in Seq(Event) /\ said \in Seq(Piece) /\ Len(events) \in Nat
      /\ Len(said) \in Nat /\ places \in Nat
  BY LenProperties DEF CInv, IInv, TypeOK
<1>3. CASE UNCHANGED <<events, said, places>>
  <2>1. Grammar(said)' /\ Vendor'
    <3>1. Grammar(said)'
      BY <1>1, <1>3 DEF CInv, Grammar, FinishLast, Numbered, ArgumentsFollow, Within
    <3>2. Vendor'
      BY <1>1, <1>3 DEF CInv, Vendor, Counted, InPlace, Place
    <3> QED
      BY <3>1, <3>2
  <2>2. CallsIn(said) \in Nat
    BY <1>2, CallsType DEF Calls, CallsIn
  <2> QED
    BY <1>1, <1>2, <1>3, <2>1, <2>2 DEF Longer
<1>4. CASE \E e \in Sayable : Sends(e)
  <2>1. PICK e \in Sayable :
          Sends(e) /\ events' = Append(events, e) /\ said' = said \o e.pieces
    BY <1>4 DEF Sends
  <2>2. e \in Event /\ e.pieces \in Seq(Piece)
    BY <1>2, SayableType DEF Event
  <2>3. /\ Len(events') = Len(events) + 1 /\ \A i \in 1..Len(events) : events'[i] = events[i]
    BY <1>2, <2>1, <2>2, AppendProperties
  <2>4. /\ Len(said') = Len(said) + Len(e.pieces) /\ Len(e.pieces) \in Nat
        /\ \A i \in 1..Len(said) : said'[i] = said[i]
    BY <1>2, <2>1, <2>2, ConcatProperties, LenProperties
  <2>5. Grammar(said') /\ CallsIn(said) <= CallsIn(said') /\ said' \in Seq(Piece)
    BY <1>2, <2>1, GrammarKept DEF CInv, Vendor
  <2>6. Grammar(said)'
    BY <1>1, <2>5 DEF Grammar, FinishLast, Numbered, ArgumentsFollow, Within
  <2>7. Vendor'
    BY <1>1, <2>1, VendorAppend
  <2>8. Longer(said, said') /\ Longer(events, events')
    BY <1>2, <2>3, <2>4 DEF Longer
  <2>9. ASSUME NEW off, Laid(off, events, said)
        PROVE  \E o : Laid(o, events', said') /\ \A i \in 0..Len(events) : o[i] = off[i]
    <3>1. ASSUME e.mark = "done" PROVE Within(said', "finish")
      <4>1. CASE Finished
        <5>1. PICK i \in DOMAIN said : said[i].is = "finish"
          BY <4>1 DEF Finished
        <5>2. i \in 1..Len(said) /\ i \in 1..Len(said') /\ DOMAIN said' = 1..Len(said')
          BY <1>2, <2>4, <2>5, <5>1, LenProperties
        <5> QED
          BY <2>4, <5>1, <5>2 DEF Within
      <4>2. CASE e.pieces = <<Finish>>
        <5>1. Finish \in Piece /\ Finish.is = "finish"
          BY <1>2, CallsType DEF Finish, Piece
        <5>2. said' = Append(said, Finish)
          BY <1>2, <2>1, <4>2, <5>1, AppendParts
        <5> QED
          BY <1>2, <5>1, <5>2, WithinAppend
      <4>3. Ended => Finished
        BY <2>9, EndedFinished DEF CInv, IInv
      <4> QED
        BY <3>1, <4>1, <4>2, <4>3, SayableMarks
    <3> QED
      BY <1>2, <2>1, <2>2, <2>9, <3>1, LaidAppend
  <2> QED
    BY <1>1, <2>5, <2>6, <2>7, <2>8, <2>9
<1> QED
  BY <1>3, <1>4 DEF Say, Close

LEMMA BeginsLonger ==
  ASSUME NEW S, NEW h \in Seq(S), NEW s \in Seq(S), NEW t \in Seq(S), Begins(h, s), Longer(s, t)
  PROVE  Begins(h, t)
<1>1. Len(h) \in Nat /\ Len(s) \in Nat /\ Len(t) \in Nat
  BY LenProperties
<1> QED
  BY <1>1 DEF Begins, Longer

(* What the relay cannot translate later it cannot translate now: an       *)
(* exception, once it applies, applies for good.                           *)
LEMMA ExceptionsStay ==
  ASSUME CInv, Say \/ Close, ~Untranslatable'
  PROVE  ~Untranslatable
<1>1. /\ line = "open" /\ UNCHANGED <<from, to>>
      /\ Longer(said, said') /\ CallsIn(said) <= CallsIn(said')
  BY SpeakEffect
<1>2. said \in Seq(Piece) /\ said' \in Seq(Piece)
  BY SpeakStep DEF CInv, IInv, TypeOK
<1>3. /\ Len(said) \in Nat /\ DOMAIN said = 1..Len(said)
      /\ Len(said') \in Nat /\ DOMAIN said' = 1..Len(said')
  BY <1>2, LenProperties
<1>4. \A i \in DOMAIN said : i \in DOMAIN said' /\ said'[i] = said[i]
  BY <1>1, <1>3 DEF Longer
<1>5. (TextAfterCall => TextAfterCall') /\ (ArgumentsInterleaved => ArgumentsInterleaved')
  BY <1>4 DEF TextAfterCall, ArgumentsInterleaved
<1>6. Calls = CallsIn(said) /\ Calls' = CallsIn(said') /\ Calls \in Nat /\ Calls' \in Nat
  <2>1. Calls = CallsIn(said) /\ Calls' = CallsIn(said')
    BY DEF Calls, CallsIn
  <2>2. \A s \in Seq(Piece) : CallsIn(s) \in Nat
    <3>1. [is |-> "text", call |-> 0, n |-> 0] \in Piece
      BY DEF Piece
    <3> QED
      BY <3>1, CallsAppend
  <2> QED
    BY <1>2, <2>1, <2>2
<1>7. Calls > 1 => Calls' > 1
  BY <1>1, <1>6
<1>8. ~CutShort
  BY <1>1 DEF CutShort
<1>9. Displaced => Displaced'
  <2>1. events \in Seq(Event) /\ events' \in Seq(Event) /\ Longer(events, events')
    BY SpeakStep, SpeakEffect DEF CInv, IInv, TypeOK
  <2>2. \A i \in DOMAIN events : i \in DOMAIN events' /\ events'[i] = events[i]
    BY <2>1, LenProperties DEF Longer
  <2> QED
    BY <2>2 DEF Displaced
<1> QED
  BY <1>1, <1>5, <1>7, <1>8, <1>9 DEF Untranslatable

LEMMA SpeakOnCourse ==
  ASSUME CInv, Say \/ Close,
         NEW off, Laid(off, events, said), NEW w, OnCourse(off, w),
         NEW o, \A i \in 0..Len(events) : o[i] = off[i]
  PROVE  OnCourse(o, w)'
<1> DEFINE r == w[Len(draft)]
<1>1. /\ UNCHANGED <<from, to, read, taken, terminalSeen, translator, todo, draft, client, heard>>
      /\ Longer(said, said') /\ Longer(events, events')
  BY SpeakEffect
<1>2. /\ said \in Seq(Piece) /\ said' \in Seq(Piece) /\ taken \in 0..Len(events)
      /\ Len(events) \in Nat /\ Len(said) \in Nat /\ Len(draft) \in Nat
  BY SpeakStep, LenProperties DEF CInv, IInv, TypeOK
<1>3. \A q : Right(q) => Right(q)'
  BY <1>1, <1>2, BeginsLonger DEF Right, Reader
<1>4. \A q, f, next : CanRead(q, f, next) => CanRead(q, f, next)'
  BY <1>1, <1>3 DEF CanRead, Follows, Fits, Reads, After, Understood
<1>5. Way(w, draft)'
  BY <1>1, <1>2, <1>3, <1>4 DEF Way, OnCourse
<1>6. Agree(translator, w[Len(draft)])'
  BY <1>1 DEF OnCourse, Agree, ChatNames, Place
<1>7. EndTaken' = EndTaken
  <2>1. \A i \in 1..taken : events'[i] = events[i]
    BY <1>1, <1>2 DEF Longer
  <2> QED
    BY <1>1, <2>1 DEF EndTaken
<1>8. o[taken] = off[taken] /\ off[taken] \in 0..Len(said)
  BY <1>2 DEF Laid
<1>9. \E a, z \in {0, 1}, k \in Nat : Rest(w[Len(draft)], o[taken], a, k, z)'
  <2>1. PICK a \in {0, 1}, z \in {0, 1}, k \in Nat : Rest(r, off[taken], a, k, z)
    BY DEF OnCourse
  <2>2. Len(r.heard) \in Nat
    <3>1. r \in Reader
      BY <1>2 DEF OnCourse, Way, Right
    <3> QED
      BY <3>1, LenProperties DEF Reader
  <2>3. \A i \in 1..off[taken] : said'[i] = said[i]
    BY <1>1, <1>2, <1>8 DEF Longer
  <2>4. ASSUME NEW i \in 1..k PROVE Stands(todo[a + i], said[Len(r.heard) + i])'
    <3>1. Len(r.heard) + i \in 1..off[taken]
      BY <2>1, <2>2 DEF Rest
    <3>2. Stands(todo[a + i], said[Len(r.heard) + i])
      BY <2>1 DEF Rest
    <3> QED
      BY <1>1, <2>3, <3>1, <3>2 DEF Stands, Place
  <2>5. Rest(r, off[taken], a, k, z)'
    BY <1>1, <1>7, <2>1, <2>3, <2>4, <1>8 DEF Rest
  <2> QED
    BY <1>1, <1>8, <2>5
<1>10. (to = "responses" => taken = 0 /\ ~EndTaken /\ todo = <<>> /\ draft = <<>>)'
  BY <1>1, <1>7 DEF OnCourse
<1> QED
  BY <1>5, <1>6, <1>9, <1>10 DEF OnCourse

LEMMA SpeakUnderstood ==
  ASSUME CInv, Say \/ Close
  PROVE  CInv'
<1>1. /\ IInv' /\ Grammar(said)' /\ Vendor' /\ GeminiEnds'
  BY SpeakStep, SpeakEffect DEF CInv, GeminiEnds
<1>2. PICK off :
        /\ Laid(off, events, said)
        /\ ~Untranslatable =>
             /\ ~client.lost /\ Begins(heard, said)
             /\ body # "failed" => \E w : OnCourse(off, w)
  BY DEF CInv, Understands
<1>3. PICK o : Laid(o, events', said') /\ \A i \in 0..Len(events) : o[i] = off[i]
  BY <1>2, SpeakEffect
<1>4. ASSUME ~Untranslatable'
      PROVE  ~client'.lost /\ Begins(heard, said)' /\ \E w : OnCourse(o, w)'
  <2>1. ~Untranslatable
    BY <1>4, ExceptionsStay
  <2>2. client' = client /\ heard' = heard /\ body = "open" /\ Longer(said, said')
    BY SpeakEffect
  <2>3. Begins(heard, said')
    BY <1>1, <1>2, <2>1, <2>2, BeginsLonger DEF CInv, IInv, TypeOK
  <2>4. PICK w : OnCourse(off, w)
    BY <1>2, <2>1, <2>2
  <2>5. OnCourse(o, w)'
    BY <1>2, <1>3, <2>4, SpeakOnCourse
  <2> QED
    BY <1>2, <2>1, <2>2, <2>3, <2>5
<1> QED
  BY <1>1, <1>3, <1>4 DEF CInv, Understands

-----------------------------------------------------------------------------
(***************************************************************************)
(* The relay reads, fails, or passes a frame on.                           *)
(***************************************************************************)
LEMMA SameUpstream ==
  ASSUME UNCHANGED upstream
  PROVE  /\ Grammar(said) => Grammar(said)'
         /\ Vendor => Vendor'
         /\ Untranslatable' => Untranslatable
         /\ Untranslatable => Untranslatable'
         /\ \A q : Right(q) => Right(q)'
         /\ \A q, f, next : CanRead(q, f, next) => CanRead(q, f, next)'
         /\ \A t, r : Agree(t, r) => Agree(t, r)'
<1>1. /\ from' = from /\ to' = to /\ events' = events /\ said' = said /\ line' = line
      /\ places' = places
  BY DEF upstream
<1>2. Grammar(said) => Grammar(said)'
  BY <1>1 DEF Grammar, FinishLast, Numbered, ArgumentsFollow, Within
<1>3. Vendor => Vendor'
  BY <1>1 DEF Vendor, Counted, InPlace, Place
<1>4. Untranslatable' <=> Untranslatable
  BY <1>1 DEF Untranslatable, TextAfterCall, ArgumentsInterleaved, CutShort, Finished, Calls, Displaced
<1>5. \A q : Right(q) => Right(q)'
  BY <1>1 DEF Right
<1>6. \A q, f, next : CanRead(q, f, next) => CanRead(q, f, next)'
  BY <1>1, <1>5 DEF CanRead, Follows, Fits, Reads, After, Understood
<1>7. \A t, r : Agree(t, r) => Agree(t, r)'
  BY <1>1 DEF Agree, ChatNames, Place
<1> QED
  BY <1>2, <1>3, <1>4, <1>5, <1>6, <1>7

LEMMA FailsUnderstood ==
  ASSUME CInv, Fails
  PROVE  Grammar(said)' /\ Vendor' /\ GeminiEnds' /\ Understands'
<1>1. UNCHANGED upstream /\ client' = client /\ heard' = heard /\ body' = "failed"
  BY DEF Fails, reader
<1>2. events' = events /\ said' = said
  BY <1>1 DEF upstream
<1>3. Understands'
  BY <1>1, <1>2, SameUpstream DEF CInv, Understands
<1> QED
  BY <1>1, <1>3, SameUpstream DEF CInv, GeminiEnds

LEMMA StillRest ==
  ASSUME UNCHANGED <<upstream, taken, terminalSeen, translator, todo>>,
         NEW r, NEW upto, NEW a, NEW k, NEW z, Rest(r, upto, a, k, z)
  PROVE  Rest(r, upto, a, k, z)' /\ (EndTaken' <=> EndTaken)
<1>1. /\ taken' = taken /\ terminalSeen' = terminalSeen /\ translator' = translator
      /\ todo' = todo /\ from' = from /\ to' = to /\ events' = events /\ said' = said
  BY DEF upstream
<1>2. EndTaken' <=> EndTaken
  BY <1>1 DEF EndTaken
<1>3. \A i \in 1..k : Stands(todo[a + i], said[Len(r.heard) + i])'
  BY <1>1 DEF Rest, Stands, Place
<1> QED
  BY <1>1, <1>2, <1>3 DEF Rest

LEMMA StillOnCourse ==
  ASSUME CInv, UNCHANGED <<upstream, taken, terminalSeen, translator, todo, draft, reader>>,
         NEW off, NEW w, OnCourse(off, w)
  PROVE  OnCourse(off, w)'
<1>1. /\ taken' = taken /\ terminalSeen' = terminalSeen /\ translator' = translator
      /\ todo' = todo /\ draft' = draft /\ client' = client /\ heard' = heard
      /\ from' = from /\ to' = to /\ events' = events /\ said' = said
  BY DEF upstream, reader
<1>2. Way(w, draft)'
  BY <1>1, SameUpstream DEF OnCourse, Way
<1>3. Agree(translator, w[Len(draft)])'
  BY <1>1, SameUpstream DEF OnCourse
<1>4. PICK a \in {0, 1}, z \in {0, 1}, k \in Nat : Rest(w[Len(draft)], off[taken], a, k, z)
  BY DEF OnCourse
<1>5. Rest(w[Len(draft)], off[taken], a, k, z)' /\ (EndTaken' <=> EndTaken)
  BY <1>1, <1>4, StillRest
<1> QED
  BY <1>1, <1>2, <1>3, <1>4, <1>5 DEF OnCourse

LEMMA ReadsOnUnderstood ==
  ASSUME CInv, UNCHANGED <<upstream, taken, terminalSeen, translator, todo, draft, body, reader>>
  PROVE  Grammar(said)' /\ Vendor' /\ Understands'
<1>1. events' = events /\ said' = said /\ client' = client /\ heard' = heard /\ body' = body
  BY DEF upstream, reader
<1>2. PICK off :
        /\ Laid(off, events, said)
        /\ ~Untranslatable =>
             /\ ~client.lost /\ Begins(heard, said)
             /\ body # "failed" => \E w : OnCourse(off, w)
  BY DEF CInv, Understands
<1>3. (\E w : OnCourse(off, w)) => \E w : OnCourse(off, w)'
  BY StillOnCourse
<1>4. Understands'
  BY <1>1, <1>2, <1>3, SameUpstream DEF Understands
<1> QED
  BY <1>4, SameUpstream DEF CInv

LEMMA ReadUnderstood ==
  ASSUME CInv, ReadChunk \/ ReadFails \/ ReadEnds
  PROVE  CInv'
<1>1. IInv'
  BY ReadStep DEF CInv
<1>2. Fails \/ UNCHANGED <<upstream, taken, terminalSeen, translator, todo, draft, body, reader>>
  BY DEF ReadChunk, ReadFails, ReadEnds
<1>3. CASE Fails
  BY <1>1, <1>3, FailsUnderstood DEF CInv
<1>4. CASE UNCHANGED <<upstream, taken, terminalSeen, translator, todo, draft, body, reader>>
  <2>1. body = "open" /\ from' = from /\ terminalSeen' = terminalSeen /\ body' = body
    BY <1>4 DEF ReadChunk, ReadFails, ReadEnds, Idle, upstream
  <2>2. ~upstreamDone \/ Fails
    BY DEF ReadChunk, ReadFails, ReadEnds
  <2>3. CASE ~upstreamDone
    <3>1. GeminiEnds'
      BY <2>1, <2>3 DEF CInv, GeminiEnds
    <3> QED
      BY <1>1, <1>4, <3>1, ReadsOnUnderstood DEF CInv
  <2> QED
    BY <1>3, <2>2, <2>3
<1> QED
  BY <1>2, <1>3, <1>4

LEMMA DeliverUnderstood ==
  ASSUME CInv, Deliver
  PROVE  CInv'
<1> DEFINE f == Head(draft)
           N == Len(draft)
<1>1. IInv'
  BY DeliverStep DEF CInv
<1>2. /\ body = "open" /\ body' = "open" /\ draft # <<>> /\ draft \in Seq(Frame)
      /\ draft' = Tail(draft)
      /\ UNCHANGED <<upstream, read, taken, upstreamDone, terminalSeen, translator, todo>>
  BY DEF Deliver, sse, CInv, IInv, TypeOK
<1>3. /\ N \in Nat \ {0} /\ Len(draft') = N - 1 /\ f = draft[1]
      /\ \A i \in 1..(N - 1) : draft'[i] = draft[i + 1]
  BY <1>2, HeadTailProperties, EmptySeq
<1>4. from' = from /\ to' = to /\ events' = events /\ said' = said /\ terminalSeen' = terminalSeen
  BY <1>2 DEF upstream
<1>5. PICK off :
        /\ Laid(off, events, said)
        /\ ~Untranslatable =>
             /\ ~client.lost /\ Begins(heard, said)
             /\ body # "failed" => \E w : OnCourse(off, w)
  BY DEF CInv, Understands
<1>6. ASSUME ~Untranslatable'
      PROVE  ~client'.lost /\ Begins(heard, said)' /\ \E w : OnCourse(off, w)'
  <2>1. PICK w : OnCourse(off, w)
    BY <1>2, <1>5, <1>6, SameUpstream
  <2>0. PICK n \in Nat \ {0} : n = N
    BY <1>3
  <2> DEFINE v == [i \in 0..(n - 1) |-> w[i + 1]]
  <2>2. /\ w[0] = [client |-> client, heard |-> heard]
        /\ \A i \in 0..N : Right(w[i])
        /\ \A i \in 1..N : CanRead(w[i - 1], draft[i], w[i])
    BY <2>1 DEF OnCourse, Way
  <2>3. CanRead(w[0], f, w[1]) /\ Right(w[1])
    <3>1. 1 \in 1..N /\ 1 \in 0..N /\ 1 - 1 = 0
      BY <1>3
    <3>2. CanRead(w[1 - 1], draft[1], w[1])
      BY <2>2, <3>1
    <3> QED
      BY <1>3, <2>2, <3>1, <3>2
  <2>4. Follows(client, f)
    BY <2>2, <2>3 DEF CanRead
  <2>5. client' = After(client, f) /\ heard' = heard \o Understood(client, f)
    BY <2>4 DEF Deliver
  <2>6. w[1] = [client |-> client', heard |-> heard']
    BY <2>2, <2>3, <2>5 DEF CanRead, Reads
  <2>7. ~client'.lost /\ Begins(heard, said)'
    BY <1>4, <2>3, <2>6 DEF Right
  <2>8. Way(v, draft)'
    <3>1. DOMAIN v = 0..Len(draft')
      BY <1>3, <2>0
    <3>2. v[0] = [client |-> client', heard |-> heard']
      BY <1>3, <2>0, <2>6
    <3>3. ASSUME NEW i \in 0..Len(draft') PROVE Right(v[i])'
      <4>1. v[i] = w[i + 1] /\ i + 1 \in 0..N
        BY <1>3, <2>0
      <4>2. Right(v[i])
        BY <2>2, <4>1
      <4> HIDE DEF v
      <4> QED
        BY <1>2, <4>2, SameUpstream
    <3>4. ASSUME NEW i \in 1..Len(draft')
          PROVE  CanRead(v[i - 1], draft[i], v[i])'
      <4>1. /\ v[i - 1] = w[i] /\ v[i] = w[i + 1] /\ draft'[i] = draft[i + 1]
            /\ i + 1 \in 1..N /\ (i + 1) - 1 = i
        BY <1>3, <2>0
      <4>2. CanRead(w[(i + 1) - 1], draft[i + 1], w[i + 1])
        BY <2>2, <4>1
      <4>3. CanRead(v[i - 1], draft'[i], v[i])
        BY <4>1, <4>2
      <4> HIDE DEF v
      <4>4. PICK g : g = draft'[i]
        OBVIOUS
      <4>5. CanRead(v[i - 1], g, v[i])'
        BY <1>2, <4>3, <4>4, SameUpstream
      <4> QED
        BY <4>4, <4>5
    <3> HIDE DEF v
    <3> QED
      BY <3>1, <3>2, <3>3, <3>4 DEF Way
  <2>9. v[Len(draft')] = w[N]
    BY <1>3, <2>0
  <2> HIDE DEF v
  <2>10. PICK r : r = w[N]
    OBVIOUS
  <2>11. Agree(translator, r)'
    <3>1. Agree(translator, r)
      BY <2>1, <2>10 DEF OnCourse
    <3>2. PICK t : t = translator
      OBVIOUS
    <3>3. Agree(t, r)'
      BY <1>2, <3>1, <3>2, SameUpstream
    <3> QED
      BY <1>2, <3>2, <3>3
  <2>12. PICK a \in {0, 1}, z \in {0, 1}, k \in Nat : Rest(r, off[taken], a, k, z)
    BY <2>1, <2>10 DEF OnCourse
  <2>13. Rest(r, off[taken], a, k, z)'
    BY <1>2, <2>12, StillRest
  <2>14. ~(to = "responses")
    BY <1>2, <2>1 DEF OnCourse
  <2>15. OnCourse(off, v)'
    BY <1>4, <2>8, <2>9, <2>10, <2>11, <2>13, <2>14 DEF OnCourse
  <2> QED
    BY <2>7, <2>15
<1>7. Understands'
  BY <1>4, <1>5, <1>6 DEF Understands
<1> QED
  BY <1>1, <1>2, <1>4, <1>7, SameUpstream DEF CInv, GeminiEnds

-----------------------------------------------------------------------------
(***************************************************************************)
(* An event is taken, or the end of the stream.                            *)
(***************************************************************************)
LEMMA DecodeParts ==
  ASSUME TypeOK, NEW e \in Event
  PROVE  \E a, z \in {0, 1} :
           /\ a = 1 <=> NeedsStart(e)
           /\ z = 1 <=> e.mark = "done"
           /\ Len(decode(e)) = a + Len(e.pieces) + z
           /\ a = 1 => decode(e)[1] = Start
           /\ \A i \in 1..Len(e.pieces) : decode(e)[a + i] = Decoded(e, e.pieces[i])
           /\ z = 1 => decode(e)[a + Len(e.pieces) + 1] = Terminal
<1> DEFINE first == IF NeedsStart(e) THEN <<Start>> ELSE <<>>
           middle == [i \in DOMAIN e.pieces |-> Decoded(e, e.pieces[i])]
           last == IF e.mark = "done" THEN <<Terminal>> ELSE <<>>
           k == Len(e.pieces)
<1>1. Start \in Canonical /\ Terminal \in Canonical
  BY DEF Start, Terminal, Canonical
<1>2. e.pieces \in Seq(Piece)
  BY DEF Event
<1>3. k \in Nat /\ DOMAIN e.pieces = 1..k /\ \A i \in 1..k : e.pieces[i] \in Piece
  BY <1>2, LenProperties, ElementOfSeq
<1>4. \A p \in Piece : Decoded(e, p) \in Canonical
  BY DEF Decoded, Position, Reason, Piece, Event, Canonical
<1>5. middle \in Seq(Canonical) /\ Len(middle) = k
      /\ \A i \in 1..k : middle[i] = Decoded(e, e.pieces[i])
  <2>1. middle \in [1..k -> Canonical]
    BY <1>3, <1>4
  <2> QED
    BY <1>3, <2>1, SeqDef, LenProperties
<1>6. PICK a \in {0, 1} : (a = 1 <=> NeedsStart(e)) /\ first \in Seq(Canonical)
                         /\ Len(first) = a /\ (a = 1 => first[1] = Start)
  <2>1. CASE NeedsStart(e)
    <3>1. first = <<Start>>
      BY <2>1
    <3> HIDE DEF first
    <3>2. first \in Seq(Canonical) /\ Len(first) = 1 /\ first[1] = Start
      BY <1>1, <3>1
    <3> QED
      BY <2>1, <3>2
  <2>2. CASE ~NeedsStart(e)
    <3>1. first = <<>>
      BY <2>2
    <3> HIDE DEF first
    <3>2. first \in Seq(Canonical) /\ Len(first) = 0
      BY <3>1
    <3> QED
      BY <2>2, <3>2
  <2> QED
    BY <2>1, <2>2
<1>7. PICK z \in {0, 1} : (z = 1 <=> e.mark = "done") /\ last \in Seq(Canonical)
                         /\ Len(last) = z /\ (z = 1 => last[1] = Terminal)
  <2>1. CASE e.mark = "done"
    <3>1. last = <<Terminal>>
      BY <2>1
    <3> HIDE DEF last
    <3>2. last \in Seq(Canonical) /\ Len(last) = 1 /\ last[1] = Terminal
      BY <1>1, <3>1
    <3> QED
      BY <2>1, <3>2
  <2>2. CASE e.mark # "done"
    <3>1. last = <<>>
      BY <2>2
    <3> HIDE DEF last
    <3>2. last \in Seq(Canonical) /\ Len(last) = 0
      BY <3>1
    <3> QED
      BY <2>2, <3>2
  <2> QED
    BY <2>1, <2>2
<1>8. decode(e) = (first \o middle) \o last
  BY DEF decode
<1> HIDE DEF first, middle, last, k
<1>9. /\ first \o middle \in Seq(Canonical) /\ Len(first \o middle) = a + k
      /\ \A i \in 1..(a + k) : (first \o middle)[i] = IF i <= a THEN first[i] ELSE middle[i - a]
  BY <1>5, <1>6, ConcatProperties
<1> DEFINE inner == first \o middle
<1> HIDE DEF inner
<1>10. /\ Len(inner \o last) = a + k + z
       /\ \A i \in 1..(a + k + z) :
            (inner \o last)[i] = IF i <= a + k THEN inner[i] ELSE last[i - (a + k)]
  <2>1. inner \in Seq(Canonical) /\ Len(inner) = a + k
    BY <1>9 DEF inner
  <2> QED
    BY <1>7, <2>1, ConcatProperties
<1>11. /\ Len(decode(e)) = a + k + z
       /\ \A i \in 1..(a + k + z) :
            decode(e)[i] = IF i <= a THEN first[i]
                             ELSE IF i <= a + k THEN middle[i - a] ELSE last[i - (a + k)]
  <2>1. decode(e) = inner \o last /\ k \in Nat
    BY <1>3, <1>8 DEF inner, k
  <2>2. \A i \in 1..(a + k) : inner[i] = IF i <= a THEN first[i] ELSE middle[i - a]
    BY <1>9 DEF inner
  <2>3. ASSUME NEW i \in 1..(a + k + z)
        PROVE  decode(e)[i] = IF i <= a THEN first[i]
                                ELSE IF i <= a + k THEN middle[i - a] ELSE last[i - (a + k)]
    <3>1. CASE i <= a + k
      <4>1. i \in 1..(a + k)
        BY <2>1, <3>1
      <4> QED
        BY <1>10, <2>1, <2>2, <3>1, <4>1
    <3>2. CASE ~(i <= a + k)
      <4>1. ~(i <= a)
        BY <2>1, <3>2
      <4> QED
        BY <1>10, <2>1, <3>2, <4>1
    <3> QED
      BY <3>1, <3>2
  <2> QED
    BY <1>10, <2>1, <2>3
<1>12. a = 1 => decode(e)[1] = Start
  <2> HAVE a = 1
  <2>1. 1 \in 1..(a + k + z) /\ 1 <= a
    BY <1>3 DEF k
  <2> QED
    BY <1>6, <1>11, <2>1
<1>13. \A i \in 1..k : decode(e)[a + i] = Decoded(e, e.pieces[i])
  <2> TAKE i \in 1..k
  <2>1. a + i \in 1..(a + k + z) /\ ~(a + i <= a) /\ a + i <= a + k /\ (a + i) - a = i
    BY <1>3 DEF k
  <2> QED
    BY <1>5, <1>11, <2>1
<1>14. z = 1 => decode(e)[a + k + 1] = Terminal
  <2> HAVE z = 1
  <2>1. /\ a + k + 1 \in 1..(a + k + z) /\ ~(a + k + 1 <= a) /\ ~(a + k + 1 <= a + k)
        /\ (a + k + 1) - (a + k) = 1
    BY <1>3 DEF k
  <2> QED
    BY <1>7, <1>11, <2>1
<1> QED
  BY <1>6, <1>7, <1>11, <1>12, <1>13, <1>14 DEF k

LEMMA EndsWithEvents ==
  ASSUME CInv, body = "open", todo = <<>>, taken < Len(events),
         events[taken + 1].mark # "foreign", from = "gemini" => taken < read
  PROVE  ~EndTaken
<1>1. /\ taken \in Nat /\ read \in Nat /\ Len(events) \in Nat /\ DOMAIN events = 1..Len(events)
  BY LenProperties DEF CInv, IInv, TypeOK
<1>2. ASSUME NEW i \in 1..taken, events[i].mark = "done" PROVE FALSE
  <2>1. i \in DOMAIN events /\ taken + 1 \in DOMAIN events /\ i < taken + 1
    BY <1>1
  <2> QED
    BY <1>2, <2>1 DEF CInv, Vendor
<1>3. ~(from = "gemini" /\ terminalSeen)
  BY <1>1 DEF CInv, GeminiEnds
<1> QED
  BY <1>2, <1>3 DEF EndTaken

LEMMA LaidAt ==
  ASSUME NEW evs \in Seq(Event), NEW s \in Seq(Piece), NEW off, Laid(off, evs, s),
         NEW i \in Nat, i < Len(evs)
  PROVE  LET e == evs[i + 1] IN
         /\ e \in Event /\ e.pieces \in Seq(Piece)
         /\ Len(e.pieces) \in Nat /\ DOMAIN e.pieces = 1..Len(e.pieces)
         /\ off[i] \in 0..Len(s) /\ off[i + 1] \in 0..Len(s)
         /\ off[i + 1] = off[i] + Len(e.pieces)
         /\ \A j \in 1..Len(e.pieces) : s[off[i] + j] = e.pieces[j]
         /\ e.mark = "done" => \E j \in 1..off[i + 1] : s[j].is = "finish"
<1> DEFINE e == evs[i + 1]
<1>1. /\ Len(evs) \in Nat /\ DOMAIN evs = 1..Len(evs) /\ i + 1 \in 1..Len(evs)
      /\ (i + 1) - 1 = i
  BY LenProperties
<1>2. e \in Event
  BY <1>1, ElementOfSeq
<1>3. e.pieces \in Seq(Piece)
  BY <1>2 DEF Event
<1>4. Len(e.pieces) \in Nat /\ DOMAIN e.pieces = 1..Len(e.pieces)
  BY <1>3, LenProperties
<1>5. off[i] \in 0..Len(s) /\ off[i + 1] \in 0..Len(s)
  BY <1>1 DEF Laid
<1>6. /\ off[i + 1] = off[(i + 1) - 1] + Len(e.pieces)
      /\ \A j \in DOMAIN e.pieces : s[off[(i + 1) - 1] + j] = e.pieces[j]
      /\ e.mark = "done" => \E j \in 1..off[i + 1] : s[j].is = "finish"
  BY <1>1 DEF Laid
<1> HIDE DEF e
<1>7. /\ off[i + 1] = off[i] + Len(e.pieces)
      /\ \A j \in 1..Len(e.pieces) : s[off[i] + j] = e.pieces[j]
  BY <1>1, <1>4, <1>6
<1> QED
  BY <1>2, <1>3, <1>4, <1>5, <1>6, <1>7 DEF e

(* What an event stands for is what was said in it.                        *)
LEMMA DecodedStands ==
  ASSUME CInv, ~Untranslatable, NEW off, Laid(off, events, said),
         NEW r, Agree(translator, r), Right(r),
         taken < Len(events), Len(r.heard) = off[taken],
         NEW i \in 1..Len(events[taken + 1].pieces)
  PROVE  Stands(Decoded(events[taken + 1], events[taken + 1].pieces[i]), said[Len(r.heard) + i])
<1> DEFINE e == events[taken + 1]
           p == e.pieces[i]
           at == Len(r.heard) + i
<1>1. /\ taken \in Nat /\ taken + 1 \in 1..Len(events) /\ DOMAIN events = 1..Len(events)
      /\ said \in Seq(Piece) /\ Len(said) \in Nat /\ DOMAIN said = 1..Len(said)
      /\ events \in Seq(Event)
  BY LenProperties DEF CInv, IInv, TypeOK
<1>2. e \in Event /\ e.pieces \in Seq(Piece) /\ Len(e.pieces) \in Nat
      /\ DOMAIN e.pieces = 1..Len(e.pieces)
  BY <1>1, LaidAt
<1>3. p \in Piece
  BY <1>2, ElementOfSeq
<1>4. /\ off[taken + 1] = off[taken] + Len(e.pieces)
      /\ said[off[taken] + i] = p
      /\ off[taken] \in 0..Len(said) /\ off[taken + 1] \in 0..Len(said)
  <2>1. ASSUME NEW k \in Nat, k < Len(events)
        PROVE  /\ off[k + 1] = off[k] + Len(events[k + 1].pieces)
               /\ \A j \in 1..Len(events[k + 1].pieces) :
                     said[off[k] + j] = events[k + 1].pieces[j]
               /\ off[k] \in 0..Len(said) /\ off[k + 1] \in 0..Len(said)
    <3>1. events \in Seq(Event) /\ said \in Seq(Piece) /\ Laid(off, events, said)
      BY <1>1
    <3> HIDE DEF e, p
    <3> QED
      BY <2>1, <3>1, LaidAt
  <2> QED
    BY <1>1, <2>1
<1>5. said[at] = p /\ at \in DOMAIN said
  BY <1>1, <1>2, <1>4
<1>6. /\ Decoded(e, p).is = p.is /\ Decoded(e, p).n = Reason(p)
      /\ Decoded(e, p).at = IF p.is = "finish" THEN 1 ELSE e.at
  BY DEF Decoded, Position
<1>7. Reason(p) = p.n
  <2>1. CASE p.is = "finish" /\ from = "responses"
    <3>1. i = 1
      BY <1>1, <1>2, <2>1 DEF CInv, Vendor
    <3>2. at = Len(said) /\ p.n = IF Within(said, "call") THEN 1 ELSE 0
      BY <1>5, <2>1 DEF CInv, Grammar, FinishLast
    <3>3. Len(said) = Len(r.heard) + 1
      BY <3>1, <3>2
    <3>4. r.heard \in Seq(Piece) /\ Begins(r.heard, said)
      BY DEF Right, Reader
    <3>5. /\ Len(r.heard) \in Nat /\ DOMAIN r.heard = 1..Len(r.heard)
          /\ \A j \in 1..Len(r.heard) : said[j] = r.heard[j]
      BY <3>4, LenProperties DEF Begins
    <3>6. said[Len(said)].is = "finish"
      BY <1>5, <2>1, <3>2
    <3>7. Within(said, "call") <=> Within(r.heard, "call")
      <4>1. ASSUME NEW j \in DOMAIN said, said[j].is = "call" PROVE j \in 1..Len(r.heard)
        BY <1>1, <3>3, <3>5, <3>6, <4>1
      <4>2. ASSUME NEW j \in 1..Len(r.heard) PROVE j \in DOMAIN said /\ said[j] = r.heard[j]
        BY <1>1, <3>3, <3>5
      <4> QED
        BY <3>5, <4>1, <4>2 DEF Within
    <3>8. translator.sawTool <=> Within(r.heard, "call")
      BY DEF Agree
    <3> QED
      BY <2>1, <3>2, <3>7, <3>8 DEF Reason
  <2>2. CASE ~(p.is = "finish" /\ from = "responses")
    BY <2>2 DEF Reason
  <2> QED
    BY <2>1, <2>2
<1>8. p.is \in {"call", "arguments"} => e.at = Place(p)
  BY <1>1, <1>2 DEF CInv, Vendor, InPlace
<1>9. p.is = "text" /\ to \in {"chat", "gemini"} => e.at = 1
  BY <1>1, <1>2 DEF Untranslatable, Displaced
<1> HIDE DEF e, p
<1> QED
  BY <1>5, <1>6, <1>7, <1>8, <1>9 DEF Stands, e, p

LEMMA TakeUnderstood ==
  ASSUME CInv, TakeEvent
  PROVE  CInv'
<1> DEFINE e == events[taken + 1]
<1>1. IInv'
  BY TakeStep DEF CInv
<1>2. /\ taken \in Nat /\ read \in Nat /\ taken < read /\ taken < Len(events) /\ taken + 1 \in 1..Len(events)
      /\ Len(events) \in Nat /\ DOMAIN events = 1..Len(events)
      /\ body = "open" /\ todo = <<>> /\ draft = <<>> /\ taken' = taken + 1
      /\ events \in Seq(Event) /\ said \in Seq(Piece)
  BY LenProperties DEF CInv, IInv, TypeOK, TakeEvent, CanTake, Idle
<1>3. CASE Undecodable(e)
  BY <1>1, <1>3, FailsUnderstood DEF TakeEvent, CInv
<1>4. CASE ~Undecodable(e)
  <2>1. /\ todo' = decode(e) /\ to # "responses" /\ e.mark # "foreign"
        /\ terminalSeen' = (terminalSeen \/ IsTerminal(e))
        /\ UNCHANGED <<upstream, read, upstreamDone, translator, draft, body, reader>>
    BY <1>4 DEF TakeEvent, Undecodable
  <2>2. /\ from' = from /\ to' = to /\ events' = events /\ said' = said
        /\ client' = client /\ heard' = heard /\ body' = body /\ draft' = draft
        /\ translator' = translator
    BY <2>1 DEF upstream, reader
  <2>3. e \in Event
    BY <1>2, ElementOfSeq
  <2>4. ~EndTaken
    BY <1>2, <2>1, EndsWithEvents
  <2>5. EndTaken' <=> e.mark = "done"
    <3>1. from = "gemini" => ~terminalSeen'
      BY <1>2, <2>1, <2>4 DEF IsTerminal, EndTaken
    <3>2. (\E i \in 1..taken' : events'[i].mark = "done") <=> e.mark = "done"
      <4>1. \A i \in 1..taken : events[i].mark # "done"
        BY <2>4 DEF EndTaken
      <4>2. 1..taken' = (1..taken) \cup {taken + 1}
        BY <1>2
      <4> QED
        BY <2>2, <4>1, <4>2
    <3> QED
      BY <2>2, <3>1, <3>2 DEF EndTaken
  <2>6. PICK off :
          /\ Laid(off, events, said)
          /\ ~Untranslatable =>
               /\ ~client.lost /\ Begins(heard, said)
               /\ body # "failed" => \E w : OnCourse(off, w)
    BY DEF CInv, Understands
  <2>7. ASSUME ~Untranslatable' PROVE \E w : OnCourse(off, w)'
    <3>1. PICK w : OnCourse(off, w)
      BY <1>2, <2>1, <2>6, <2>7, SameUpstream
    <3>0. ~Untranslatable
      BY <2>1, <2>7, SameUpstream
    <3>2. PICK r : r = w[Len(draft)]
      OBVIOUS
    <3>3. PICK t : t = translator
      OBVIOUS
    <3>4. Right(r) /\ Agree(translator, r) /\ r.heard \in Seq(Piece) /\ Len(r.heard) \in Nat
      <4>1. Right(r)
        BY <1>2, <3>1, <3>2 DEF OnCourse, Way
      <4> QED
        BY <3>1, <3>2, <4>1, LenProperties DEF OnCourse, Right, Reader
    <3>5. PICK a0 \in {0, 1}, z0 \in {0, 1}, k0 \in Nat : Rest(r, off[taken], a0, k0, z0)
      BY <3>1, <3>2 DEF OnCourse
    <3>6. a0 = 0 /\ z0 = 0 /\ k0 = 0 /\ Len(r.heard) = off[taken]
          /\ ~r.client.done
          /\ IF taken = 0 THEN ~translator.started ELSE translator.started
      <4>1. Len(todo) = 0
        BY <1>2
      <4>2. a0 = 0 /\ z0 = 0 /\ k0 = 0
        BY <3>5, <4>1 DEF Rest
      <4> QED
        BY <2>4, <3>4, <3>5, <4>2 DEF Rest
    <3>7. PICK a \in {0, 1}, z \in {0, 1} :
            /\ a = 1 <=> NeedsStart(e)
            /\ z = 1 <=> e.mark = "done"
            /\ Len(decode(e)) = a + Len(e.pieces) + z
            /\ a = 1 => decode(e)[1] = Start
            /\ \A i \in 1..Len(e.pieces) : decode(e)[a + i] = Decoded(e, e.pieces[i])
            /\ z = 1 => decode(e)[a + Len(e.pieces) + 1] = Terminal
      BY <2>3, DecodeParts DEF CInv, IInv
    <3>8. PICK k \in Nat : k = Len(e.pieces)
      BY <1>2, <2>6, LaidAt
    <3>9. /\ off[taken + 1] = off[taken] + k
          /\ e.mark = "done" => \E j \in 1..off[taken + 1] : said[j].is = "finish"
      BY <1>2, <2>6, <3>8, LaidAt
    <3>10. \A i \in 1..k : Stands(todo[a + i], said[Len(r.heard) + i])'
      <4>1. ASSUME NEW i \in 1..k PROVE Stands(decode(e)[a + i], said[Len(r.heard) + i])
        <5>1. Stands(Decoded(e, e.pieces[i]), said[Len(r.heard) + i])
          BY <1>2, <2>6, <3>0, <3>4, <3>6, <3>8, DecodedStands
        <5> QED
          BY <3>7, <3>8, <5>1
      <4> QED
        BY <2>1, <2>2, <4>1 DEF Stands, Place
    <3>11. a = 1 => todo'[1].is = "start" /\ ~translator.started
      <4>1. NeedsStart(e) => ~translator.started
        <5>1. e.mark = "start" => taken = 0
          <6>1. e.mark = "start" => taken + 1 = 1
            BY <1>2 DEF CInv, Vendor
          <6> QED
            BY <1>2, <6>1
        <5> QED
          BY <3>6, <5>1 DEF NeedsStart
      <4> QED
        BY <2>1, <3>7, <4>1 DEF Start
    <3>12. translator.started \/ a = 1
      <4>1. CASE taken = 0
        <5>1. e = events[1] /\ events # <<>>
          BY <1>2, <4>1
        <5>2. e.mark # "done" /\ (from \in {"anthropic", "responses"} => e.mark = "start")
          BY <2>1, <5>1 DEF CInv, Vendor
        <5>3. from \in {"chat", "gemini", "anthropic", "responses"}
          BY DEF CInv, IInv, TypeOK, Format
        <5> QED
          BY <3>6, <3>7, <4>1, <5>2, <5>3 DEF NeedsStart, IsTerminal
      <4> QED
        BY <3>6, <4>1
    <3>13. z = 1 => IsEnd(todo[a + k + 1])' /\ EndTaken'
      BY <2>1, <2>5, <3>7, <3>8 DEF Terminal, IsEnd
    <3>14. Rest(r, off[taken], a, k, z)'
      <4>1. Len(todo') = a + k + z /\ Len(r.heard) + k = off[taken']
        BY <1>2, <2>1, <3>6, <3>7, <3>8, <3>9
      <4>2. z = 1 => \E j \in 1..off[taken'] : said'[j].is = "finish"
        BY <1>2, <2>2, <3>7, <3>9
      <4>3. ~(EndTaken' /\ z = 0) /\ ~r.client.done
        BY <2>5, <3>6, <3>7
      <4>4. taken' # 0 /\ (translator'.started \/ a = 1)
        BY <1>2, <2>2, <3>12
      <4>5. (a = 1 => todo'[1].is = "start" /\ ~translator'.started)
        BY <2>2, <3>11
      <4>6. (z = 1 => IsEnd(todo[a + k + 1]) /\ EndTaken)'
        BY <3>13
      <4> QED
        BY <3>10, <4>1, <4>2, <4>3, <4>4, <4>5, <4>6 DEF Rest
    <3>15. Way(w, draft)'
      BY <2>1, <2>2, <3>1, SameUpstream DEF OnCourse, Way
    <3>16. Agree(translator, r)'
      <4>1. Agree(t, r)'
        BY <2>1, <3>3, <3>4, SameUpstream
      <4> QED
        BY <2>2, <3>3, <4>1
    <3>17. r = w[Len(draft')]
      BY <2>2, <3>2
    <3> QED
      BY <2>1, <2>2, <3>14, <3>15, <3>16, <3>17 DEF OnCourse
  <2>8. Understands'
    BY <2>1, <2>2, <2>6, <2>7, SameUpstream DEF Understands
  <2>9. GeminiEnds'
    BY <1>2, <2>1, <2>2, <2>4 DEF GeminiEnds, IsTerminal, EndTaken
  <2> QED
    BY <1>1, <2>1, <2>8, <2>9, SameUpstream DEF CInv
<1> QED
  BY <1>3, <1>4

(* Nothing is left in translation, so that all that was taken is under-    *)
(* stood.                                                                  *)
LEMMA NothingInTranslation ==
  ASSUME NEW r, Len(r.heard) \in Nat, NEW upto, NEW a \in {0, 1}, NEW k \in Nat,
         NEW z \in {0, 1}, Rest(r, upto, a, k, z), todo = <<>>
  PROVE  a = 0 /\ k = 0 /\ z = 0 /\ Len(r.heard) = upto
<1>1. a + k + z = 0
  BY DEF Rest
<1>2. a = 0 /\ k = 0 /\ z = 0
  BY <1>1
<1> QED
  BY <1>2 DEF Rest

LEMMA EndUnderstood ==
  ASSUME CInv, EndOfStream
  PROVE  CInv'
<1>1. IInv'
  BY EndStep DEF CInv
<1>2. /\ taken \in Nat /\ taken = read /\ upstreamDone /\ Len(events) \in Nat
      /\ body = "open" /\ todo = <<>> /\ draft = <<>>
      /\ events \in Seq(Event) /\ said \in Seq(Piece)
      /\ line = "eof" /\ taken = Len(events)
  BY LenProperties DEF CInv, IInv, TypeOK, EndOfStream, Exhausted, Idle, Drained
<1>3. CASE from = "gemini" /\ ~terminalSeen /\ to = "responses"
  BY <1>1, <1>3, FailsUnderstood DEF EndOfStream, CInv
<1>4. CASE from = "gemini" /\ ~terminalSeen /\ to # "responses"
  <2>1. /\ todo' = <<Terminal>> /\ terminalSeen' = TRUE
        /\ UNCHANGED <<upstream, read, taken, upstreamDone, translator, draft, body, reader>>
    BY <1>4 DEF EndOfStream
  <2>2. /\ from' = from /\ to' = to /\ events' = events /\ said' = said
        /\ client' = client /\ heard' = heard /\ body' = body /\ draft' = draft
        /\ translator' = translator /\ taken' = taken
    BY <2>1 DEF upstream, reader
  <2>3. ~EndTaken
    <3>1. \A i \in 1..taken : events[i].mark # "done"
      BY <1>2, <1>4, LenProperties DEF CInv, Vendor
    <3> QED
      BY <1>4, <3>1 DEF EndTaken
  <2>4. EndTaken'
    BY <1>4, <2>1, <2>2 DEF EndTaken
  <2>5. PICK off :
          /\ Laid(off, events, said)
          /\ ~Untranslatable =>
               /\ ~client.lost /\ Begins(heard, said)
               /\ body # "failed" => \E w : OnCourse(off, w)
    BY DEF CInv, Understands
  <2>6. ASSUME ~Untranslatable' PROVE \E w : OnCourse(off, w)'
    <3>0. ~Untranslatable
      BY <2>1, <2>6, SameUpstream
    <3>1. PICK w : OnCourse(off, w)
      BY <1>2, <2>5, <3>0
    <3>2. PICK r : r = w[Len(draft)]
      OBVIOUS
    <3>3. PICK t : t = translator
      OBVIOUS
    <3>4. Agree(translator, r) /\ r.heard \in Seq(Piece) /\ Len(r.heard) \in Nat
      <4>1. Right(r)
        BY <1>2, <3>1, <3>2 DEF OnCourse, Way
      <4> QED
        BY <3>1, <3>2, <4>1, LenProperties DEF OnCourse, Right, Reader
    <3>5. PICK a0 \in {0, 1}, z0 \in {0, 1}, k0 \in Nat : Rest(r, off[taken], a0, k0, z0)
      BY <3>1, <3>2 DEF OnCourse
    <3>6. a0 = 0 /\ k0 = 0 /\ z0 = 0 /\ Len(r.heard) = off[taken]
      <4>1. PICK upto : upto = off[taken]
        OBVIOUS
      <4>2. Rest(r, upto, a0, k0, z0) /\ Len(r.heard) \in Nat /\ todo = <<>>
        BY <1>2, <3>4, <3>5, <4>1
      <4>3. a0 = 0 /\ k0 = 0 /\ z0 = 0 /\ Len(r.heard) = upto
        BY <4>2, NothingInTranslation
      <4> QED
        BY <4>1, <4>3
    <3>7. ~r.client.done /\ (IF taken = 0 THEN ~translator.started ELSE translator.started)
      BY <2>3, <3>5, <3>6 DEF Rest
    <3>8. to = "anthropic" => \E j \in 1..off[taken] : said[j].is = "finish"
      <4>1. off[taken] = Len(said)
        BY <1>2, <2>5 DEF Laid
      <4>2. to = "anthropic" => Finished
        BY <1>2, <1>4, <3>0 DEF Untranslatable, CutShort
      <4> QED
        BY <1>2, <4>1, <4>2, LenProperties DEF Finished
    <3>9. Rest(r, off[taken], 0, 0, 1)'
      <4>1. Len(todo') = 0 + 0 + 1 /\ IsEnd(todo[0 + 0 + 1])'
        BY <2>1 DEF Terminal, IsEnd
      <4>2. Len(r.heard) + 0 = off[taken']
        BY <2>2, <3>4, <3>6
      <4>3. \A i \in 1..0 : Stands(todo[0 + i], said[Len(r.heard) + i])'
        OBVIOUS
      <4> QED
        BY <2>2, <2>4, <3>7, <3>8, <4>1, <4>2, <4>3 DEF Rest
    <3>10. Way(w, draft)'
      BY <2>1, <2>2, <3>1, SameUpstream DEF OnCourse, Way
    <3>11. Agree(translator, r)'
      <4>1. Agree(t, r)'
        BY <2>1, <3>3, <3>4, SameUpstream
      <4> QED
        BY <2>2, <3>3, <4>1
    <3>12. r = w[Len(draft')]
      BY <2>2, <3>2
    <3> QED
      BY <1>4, <2>2, <3>9, <3>10, <3>11, <3>12 DEF OnCourse
  <2>7. Understands'
    BY <2>1, <2>2, <2>5, <2>6, SameUpstream DEF Understands
  <2>8. GeminiEnds'
    BY <1>2, <2>1, <2>2 DEF GeminiEnds
  <2> QED
    BY <1>1, <2>1, <2>7, <2>8, SameUpstream DEF CInv
<1>5. CASE ~(from = "gemini" /\ ~terminalSeen)
  <2>1. body' = "closed" /\ UNCHANGED <<upstream, sse, translator, todo, draft, reader>>
    BY <1>5 DEF EndOfStream
  <2>2. /\ from' = from /\ events' = events /\ said' = said /\ client' = client /\ heard' = heard
        /\ terminalSeen' = terminalSeen
        /\ UNCHANGED <<upstream, taken, terminalSeen, translator, todo, draft, reader>>
    BY <2>1 DEF upstream, sse, reader
  <2>3. GeminiEnds'
    BY <1>5, <2>1, <2>2 DEF GeminiEnds
  <2>4. PICK off :
          /\ Laid(off, events, said)
          /\ ~Untranslatable =>
               /\ ~client.lost /\ Begins(heard, said)
               /\ body # "failed" => \E w : OnCourse(off, w)
    BY DEF CInv, Understands
  <2>5. (\E w : OnCourse(off, w)) => \E w : OnCourse(off, w)'
    BY <2>2, StillOnCourse
  <2>6. Understands'
    BY <1>2, <2>1, <2>2, <2>4, <2>5, SameUpstream DEF Understands
  <2> QED
    BY <1>1, <2>1, <2>3, <2>6, SameUpstream DEF CInv
<1> QED
  BY <1>3, <1>4, <1>5

-----------------------------------------------------------------------------
(***************************************************************************)
(* A canonical event becomes frames.                                       *)
(***************************************************************************)
Encoded(c) ==
  IF to = "anthropic"
    THEN [Remembered(c) EXCEPT !.active = AnthropicBlocks(c).active,
                               !.blocks = AnthropicBlocks(c).blocks]
    ELSE Remembered(c)

(* The client r reads the frames fs, which are two at most.                *)
Steps(r, fs, next) ==
  \/ fs = <<>> /\ next = r
  \/ \E f \in Frame : fs = <<f>> /\ CanRead(r, f, next)
  \/ \E f, g \in Frame : \E q : fs = <<f, g>> /\ CanRead(r, f, q) /\ CanRead(q, g, next)

(* What becomes of the client r when c is encoded.                         *)
Passed(c, r, next) ==
  /\ Right(next)
  /\ Steps(r, Frames(c), next)
  /\ Agree(Encoded(c), next)
  /\ next.client.done <=> c.is = "terminal" /\ to # "gemini"
  /\ Len(next.heard) = Len(r.heard) + (IF c.is \in {"start", "terminal"} THEN 0 ELSE 1)

(* After the frames d the client will be next.                             *)
Leads(d, next) == \E v : Way(v, d) /\ v[Len(d)] = next

LEMMA WayAppend ==
  ASSUME NEW d \in Seq(Frame), NEW f \in Frame, NEW r, NEW next,
         Leads(d, r), CanRead(r, f, next)
  PROVE  Append(d, f) \in Seq(Frame) /\ Leads(Append(d, f), next)
<1>0. PICK w : Way(w, d) /\ w[Len(d)] = r
  BY DEF Leads
<1> DEFINE v == [i \in 0..(Len(d) + 1) |-> IF i <= Len(d) THEN w[i] ELSE next]
<1>1. /\ Len(d) \in Nat /\ Len(Append(d, f)) = Len(d) + 1
      /\ \A i \in 1..Len(d) : Append(d, f)[i] = d[i]
      /\ Append(d, f)[Len(d) + 1] = f /\ Append(d, f) \in Seq(Frame)
  BY AppendParts
<1>2. /\ DOMAIN v = 0..(Len(d) + 1)
      /\ \A i \in 0..Len(d) : v[i] = w[i]
      /\ v[Len(d) + 1] = next
  BY <1>1
<1> HIDE DEF v
<1>3. /\ w[0] = [client |-> client, heard |-> heard]
      /\ \A i \in 0..Len(d) : Right(w[i])
      /\ \A i \in 1..Len(d) : CanRead(w[i - 1], d[i], w[i])
  BY <1>0 DEF Way
<1>4. v[0] = [client |-> client, heard |-> heard]
  BY <1>1, <1>2, <1>3
<1>5. \A i \in 0..(Len(d) + 1) : Right(v[i])
  <2>1. Right(next)
    BY DEF CanRead
  <2> QED
    BY <1>1, <1>2, <1>3, <2>1
<1>6. ASSUME NEW i \in 1..(Len(d) + 1) PROVE CanRead(v[i - 1], Append(d, f)[i], v[i])
  <2>1. CASE i \in 1..Len(d)
    <3>1. v[i - 1] = w[i - 1] /\ v[i] = w[i] /\ Append(d, f)[i] = d[i]
      BY <1>1, <1>2, <2>1
    <3> QED
      BY <1>3, <2>1, <3>1
  <2>2. CASE i = Len(d) + 1
    <3>1. i - 1 = Len(d) /\ v[i - 1] = r /\ v[i] = next /\ Append(d, f)[i] = f
      BY <1>0, <1>1, <1>2, <2>2
    <3> QED
      BY <3>1
  <2> QED
    BY <1>1, <2>1, <2>2
<1>7. Way(v, Append(d, f))
  BY <1>1, <1>2, <1>4, <1>5, <1>6 DEF Way
<1> QED
  BY <1>1, <1>2, <1>7 DEF Leads

LEMMA WayExtends ==
  ASSUME NEW d \in Seq(Frame), NEW r, Leads(d, r), NEW fs, NEW next, Steps(r, fs, next)
  PROVE  Leads(d \o fs, next)
<1>1. CASE fs = <<>> /\ next = r
  <2>1. d \o <<>> = d
    BY ConcatEmptySeq
  <2> QED
    BY <1>1, <2>1
<1>2. ASSUME NEW f \in Frame, fs = <<f>>, CanRead(r, f, next)
      PROVE  Leads(d \o fs, next)
  <2>1. d \o fs = Append(d, f)
    BY <1>2, AppendParts
  <2>2. Leads(Append(d, f), next)
    BY <1>2, WayAppend
  <2> QED
    BY <2>1, <2>2
<1>3. ASSUME NEW f \in Frame, NEW g \in Frame, NEW q, fs = <<f, g>>,
             CanRead(r, f, q), CanRead(q, g, next)
      PROVE  Leads(d \o fs, next)
  <2>1. Append(d, f) \in Seq(Frame) /\ Leads(Append(d, f), q)
    BY <1>3, WayAppend
  <2>2. Leads(Append(Append(d, f), g), next)
    BY <1>3, <2>1, WayAppend
  <2>3. d \o fs = Append(Append(d, f), g)
    BY <1>3, AppendTwo
  <2> QED
    BY <2>2, <2>3
<1> QED
  BY <1>1, <1>2, <1>3 DEF Steps

LEMMA AfterFields ==
  ASSUME NEW c \in Client, NEW f \in Frame
  PROVE  /\ After(c, f).begun = TRUE
         /\ After(c, f).open = IF f.is \in {"block", "call"} /\ to = "anthropic" THEN f.at
                               ELSE IF f.is = "stop" THEN 0 ELSE c.open
         /\ After(c, f).names =
              c.names \cup (IF f.is \in {"block", "call"} THEN {<<f.at, f.n>>} ELSE {})
         /\ After(c, f).done <=> f.is = "terminal"
         /\ After(c, f).lost <=> c.lost
         /\ After(c, f) \in Client
<1>1. After(c, f) \in Client
  BY AfterType
<1>2. CASE f.is \in {"block", "call"} /\ to = "anthropic"
  BY <1>1, <1>2 DEF After, Client
<1>3. CASE f.is = "stop"
  BY <1>1, <1>3 DEF After, Client
<1>4. CASE ~(f.is \in {"block", "call"} /\ to = "anthropic") /\ f.is # "stop"
  BY <1>1, <1>4 DEF After, Client
<1> QED
  BY <1>2, <1>3, <1>4

LEMMA AfterPiece ==
  ASSUME to = "anthropic", NEW c \in Client, NEW f \in Frame,
         f.is \in {"text", "call", "arguments", "finish"}
  PROVE  LET b == After(c, f)
         IN  /\ b.begun = TRUE /\ ~b.done
             /\ b.open = IF f.is = "call" THEN f.at ELSE c.open
             /\ b.names = c.names \cup (IF f.is = "call" THEN {<<f.at, f.n>>} ELSE {})
<1>1. CASE f.is = "call"
  BY <1>1, AfterFields
<1>2. CASE f.is # "call"
  BY <1>2, AfterFields
<1> QED
  BY <1>1, <1>2

LEMMA EncodedFields ==
  ASSUME TypeOK, NEW c \in Canonical
  PROVE  /\ Encoded(c).started <=> translator.started \/ c.is = "start"
         /\ Encoded(c).sawTool <=> translator.sawTool \/ c.is = "call"
         /\ to = "anthropic" =>
              /\ Encoded(c).active = IF Opens(c) THEN Opened
                                     ELSE IF c.is = "finish" THEN 0 ELSE translator.active
              /\ Encoded(c).blocks = IF Opens(c) THEN Opened ELSE translator.blocks
<1>1. /\ Remembered(c) \in Translator
      /\ Remembered(c).started <=> translator.started \/ c.is = "start"
      /\ Remembered(c).sawTool <=> translator.sawTool \/ c.is = "call"
  <2>1. translator \in Translator
    BY DEF TypeOK
  <2> QED
    BY <2>1 DEF Remembered, Translator
<1>2. /\ AnthropicBlocks(c).active = IF Opens(c) THEN Opened
                                     ELSE IF c.is = "finish" THEN 0 ELSE translator.active
      /\ AnthropicBlocks(c).blocks = IF Opens(c) THEN Opened ELSE translator.blocks
  <2>1. Opens(c) => c.is # "finish"
    BY DEF Opens
  <2>2. CASE Opens(c)
    BY <2>1, <2>2 DEF AnthropicBlocks
  <2>3. CASE c.is = "finish"
    BY <2>1, <2>3 DEF AnthropicBlocks
  <2>4. CASE ~Opens(c) /\ c.is # "finish"
    BY <2>4 DEF AnthropicBlocks
  <2> QED
    BY <2>1, <2>2, <2>3, <2>4
<1>3. CASE to = "anthropic"
  <2>1. Encoded(c) = [Remembered(c) EXCEPT !.active = AnthropicBlocks(c).active,
                                           !.blocks = AnthropicBlocks(c).blocks]
    BY <1>3 DEF Encoded
  <2>2. /\ Encoded(c).started = Remembered(c).started
        /\ Encoded(c).sawTool = Remembered(c).sawTool
        /\ Encoded(c).active = AnthropicBlocks(c).active
        /\ Encoded(c).blocks = AnthropicBlocks(c).blocks
    BY <1>1, <2>1 DEF Translator
  <2> QED
    BY <1>1, <1>2, <2>2
<1>4. CASE to # "anthropic"
  BY <1>1, <1>4 DEF Encoded
<1> QED
  BY <1>3, <1>4

(* A frame that means nothing to the client but changes its parser, and    *)
(* one that carries the next piece of the answer.                          *)
LEMMA ReadsMark ==
  ASSUME NEW r, Right(r), NEW f \in Frame, Follows(r.client, f),
         f.is \notin {"text", "call", "arguments", "finish"}
  PROVE  \E next : /\ CanRead(r, f, next) /\ Right(next)
                   /\ next.heard = r.heard /\ next.client = After(r.client, f)
<1>1. r.client \in Client /\ r.heard \in Seq(Piece) /\ ~r.client.lost /\ Begins(r.heard, said)
  BY DEF Right, Reader
<1>2. Understood(r.client, f) = <<>>
  BY DEF Understood
<1>3. r.heard \o <<>> = r.heard
  BY <1>1, ConcatEmptySeq
<1>4. Reads(r, f) = [client |-> After(r.client, f), heard |-> r.heard]
  BY <1>2, <1>3 DEF Reads
<1>5. After(r.client, f) \in Client /\ ~After(r.client, f).lost
  BY <1>1, AfterFields
<1>6. Right(Reads(r, f))
  BY <1>1, <1>4, <1>5 DEF Right, Reader
<1> QED
  BY <1>4, <1>6 DEF CanRead

LEMMA ReadsPiece ==
  ASSUME said \in Seq(Piece), NEW r, Right(r), Len(r.heard) < Len(said),
         NEW f \in Frame, Follows(r.client, f),
         Understood(r.client, f) = <<said[Len(r.heard) + 1]>>
  PROVE  \E next : /\ CanRead(r, f, next) /\ Right(next)
                   /\ next.heard = Append(r.heard, said[Len(r.heard) + 1])
                   /\ next.client = After(r.client, f)
<1> DEFINE q == said[Len(r.heard) + 1]
<1>1. r.client \in Client /\ r.heard \in Seq(Piece) /\ ~r.client.lost /\ Begins(r.heard, said)
  BY DEF Right, Reader
<1>2. Len(said) \in Nat /\ Len(r.heard) \in Nat /\ Len(r.heard) + 1 \in 1..Len(said)
  BY <1>1, LenProperties
<1>3. q \in Piece
  BY <1>2, ElementOfSeq
<1>4. /\ Append(r.heard, q) \in Seq(Piece) /\ Len(Append(r.heard, q)) = Len(r.heard) + 1
      /\ \A i \in 1..Len(r.heard) : Append(r.heard, q)[i] = r.heard[i]
      /\ Append(r.heard, q)[Len(r.heard) + 1] = q
      /\ r.heard \o <<q>> = Append(r.heard, q)
  BY <1>1, <1>3, AppendParts
<1>5. Reads(r, f) = [client |-> After(r.client, f), heard |-> Append(r.heard, q)]
  BY <1>4 DEF Reads
<1>6. Begins(Append(r.heard, q), said)
  <2>1. \A i \in 1..Len(r.heard) : r.heard[i] = said[i]
    BY <1>1 DEF Begins
  <2> HIDE DEF q
  <2>2. ASSUME NEW i \in 1..(Len(r.heard) + 1) PROVE Append(r.heard, q)[i] = said[i]
    <3>1. CASE i \in 1..Len(r.heard)
      BY <1>4, <2>1, <3>1
    <3>2. CASE i = Len(r.heard) + 1
      BY <1>4, <3>2 DEF q
    <3> QED
      BY <1>2, <3>1, <3>2
  <2> QED
    BY <1>2, <1>4, <2>2 DEF Begins
<1> HIDE DEF q
<1>7. After(r.client, f) \in Client /\ ~After(r.client, f).lost
  BY <1>1, AfterFields
<1>8. Right(Reads(r, f))
  BY <1>4, <1>5, <1>6, <1>7 DEF Right, Reader
<1>9. PICK next : next = Reads(r, f)
  OBVIOUS
<1>10. next.heard = Append(r.heard, q) /\ next.client = After(r.client, f)
  BY <1>5, <1>9
<1>11. CanRead(r, f, next) /\ Right(next)
  BY <1>8, <1>9 DEF CanRead
<1> QED
  BY <1>10, <1>11 DEF q

(* What the next piece of the answer may be to those before it.            *)
LEMMA NextPiece ==
  ASSUME CInv, ~Untranslatable, NEW r, Right(r), Len(r.heard) < Len(said),
         NEW q, q = said[Len(r.heard) + 1]
  PROVE  /\ q \in Piece /\ ~Within(r.heard, "finish")
         /\ q.is \in {"text", "finish"} => q.call = 0
         /\ q.is = "call" =>
              /\ q.n = q.call
              /\ \A i \in DOMAIN r.heard : r.heard[i].is = "call" => r.heard[i].call < q.call
              /\ to = "chat" /\ from = "gemini" => ~Within(r.heard, "call")
         /\ q.is = "arguments" =>
              /\ \E i \in DOMAIN r.heard : r.heard[i].is = "call" /\ r.heard[i].call = q.call
              /\ \A i \in DOMAIN r.heard : r.heard[i].is = "call" =>
                   /\ r.heard[i].n = r.heard[i].call /\ r.heard[i].call # 0
                   /\ to = "chat" /\ from = "gemini" => r.heard[i].call = q.call
         /\ to = "anthropic" =>
              /\ q.is = "text" => ~Within(r.heard, "call")
              /\ q.is = "arguments" => Latest(q.call, r.heard) /\ q.call # 0
<1> DEFINE h == r.heard
           E == Len(h) + 1
<1>1. said \in Seq(Piece) /\ h \in Seq(Piece) /\ Begins(h, said)
  BY DEF CInv, IInv, TypeOK, Right, Reader
<1>2. /\ Len(said) \in Nat /\ Len(h) \in Nat /\ DOMAIN said = 1..Len(said)
      /\ DOMAIN h = 1..Len(h) /\ \A i \in 1..Len(h) : h[i] = said[i]
  BY <1>1, LenProperties DEF Begins
<1>3. E \in 1..Len(said) /\ \A i \in 1..Len(h) : i \in 1..Len(said) /\ i < E
  BY <1>2
<1>4. q = said[E] /\ q \in Piece
  BY <1>1, <1>3, ElementOfSeq
<1>5. /\ \A i \in 1..Len(said) : said[i].is = "finish" => i = Len(said) /\ said[i].call = 0
      /\ \A i \in 1..Len(said) : said[i].is = "text" => said[i].call = 0
  <2>1. FinishLast(said) /\ \A i \in DOMAIN said : said[i].is = "text" => said[i].call = 0
    BY DEF CInv, Grammar
  <2>2. DOMAIN said = 1..Len(said)
    BY <1>2
  <2>3. \A i \in DOMAIN said : said[i].is = "finish" => i = Len(said) /\ said[i].call = 0
    BY <2>1 DEF FinishLast
  <2> QED
    BY <2>1, <2>2, <2>3, Zenon
<1>6. /\ \A i \in 1..Len(said) : said[i].is = "call" =>
           said[i].n = said[i].call /\ said[i].call # 0
      /\ \A i, j \in 1..Len(said) :
           i < j /\ said[i].is = "call" /\ said[j].is = "call" => said[i].call < said[j].call
      /\ \A i \in 1..Len(said) : said[i].is = "arguments" =>
           \E j \in 1..Len(said) : j < i /\ said[j].is = "call" /\ said[j].call = said[i].call
  BY <1>2 DEF CInv, Grammar, Numbered, ArgumentsFollow
<1>7. /\ CallsIn(said) \in Nat /\ Calls = CallsIn(said)
      /\ \A i \in 1..Len(said) : said[i].call \in Nat
  <2>1. \A i \in 1..Len(said) : said[i] \in Piece
    BY <1>1, ElementOfSeq
  <2> QED
    BY <1>1, <2>1, CallsCounted DEF Calls, CallsIn, Piece
<1>8. to = "chat" /\ from = "gemini" =>
        \A i, j \in 1..Len(said) : said[i].is = "call" /\ said[j].is = "call" => i = j
  <2>1. to = "chat" /\ from = "gemini" => CallsIn(said) <= 1
    BY <1>7 DEF Untranslatable
  <2> QED
    BY <1>1, <1>2, <2>1, CallsCounted
<1>9. to = "anthropic" =>
        \A i, j \in 1..Len(said) :
          i < j /\ said[i].is = "call" =>
            /\ said[j].is # "text"
            /\ said[j].is = "arguments" => ~(said[j].call < said[i].call)
  BY <1>2 DEF Untranslatable, TextAfterCall, ArgumentsInterleaved
<1> HIDE DEF h, E
<1>10. ~Within(h, "finish")
  <2> SUFFICES ASSUME NEW i \in 1..Len(h), h[i].is = "finish" PROVE FALSE
    BY <1>2 DEF Within
  <2>1. i \in 1..Len(said) /\ said[i] = h[i] /\ i < E /\ E <= Len(said) /\ E \in Nat
    BY <1>2, <1>3
  <2>2. said[i].is = "finish"
    BY <2>1
  <2>3. i = Len(said)
    BY <1>5, <2>1, <2>2
  <2> QED
    BY <1>2, <2>1, <2>3
<1>11. q.is \in {"text", "finish"} => q.call = 0
  BY <1>3, <1>4, <1>5
<1>12. ASSUME NEW i \in 1..Len(h), h[i].is = "call"
       PROVE  h[i].n = h[i].call /\ h[i].call \in Nat /\ h[i].call # 0
  BY <1>2, <1>3, <1>6, <1>7, <1>12
<1>13. ASSUME q.is = "call"
       PROVE  /\ q.n = q.call
              /\ \A i \in 1..Len(h) : h[i].is = "call" => h[i].call < q.call
              /\ to = "chat" /\ from = "gemini" => ~Within(h, "call")
  <2>1. q.n = q.call
    BY <1>3, <1>4, <1>6, <1>13
  <2>2. \A i \in 1..Len(h) : h[i].is = "call" => h[i].call < q.call
    BY <1>2, <1>3, <1>4, <1>6, <1>13
  <2>3. ASSUME to = "chat", from = "gemini", NEW i \in 1..Len(h), h[i].is = "call"
        PROVE  FALSE
    BY <1>2, <1>3, <1>4, <1>8, <1>13, <2>3
  <2> QED
    BY <1>2, <2>1, <2>2, <2>3 DEF Within
<1>14. ASSUME q.is = "arguments"
       PROVE  /\ \E i \in 1..Len(h) : h[i].is = "call" /\ h[i].call = q.call
              /\ \A i \in 1..Len(h) : h[i].is = "call" =>
                   (to = "chat" /\ from = "gemini" => h[i].call = q.call)
              /\ to = "anthropic" => Latest(q.call, h) /\ q.call # 0
  <2>1. PICK j \in 1..Len(said) : j < E /\ said[j].is = "call" /\ said[j].call = q.call
    BY <1>3, <1>4, <1>6, <1>14
  <2>2. j \in 1..Len(h) /\ h[j] = said[j]
    BY <1>2, <2>1 DEF E
  <2>3. q.call \in Nat /\ q.call # 0
    BY <1>12, <2>1, <2>2
  <2>4. ASSUME to = "chat", from = "gemini", NEW i \in 1..Len(h), h[i].is = "call"
        PROVE  h[i].call = q.call
    <3>1. i \in 1..Len(said) /\ said[i] = h[i]
      BY <1>2, <1>3
    <3> QED
      BY <1>8, <2>1, <2>4, <3>1
  <2>5. ASSUME to = "anthropic", NEW i \in 1..Len(h), h[i].is = "call" PROVE h[i].call <= q.call
    <3>1. ~(q.call < h[i].call)
      BY <1>2, <1>3, <1>4, <1>9, <1>14, <2>5
    <3> QED
      BY <1>12, <2>3, <2>5, <3>1
  <2>6. to = "anthropic" => Latest(q.call, h)
    BY <1>2, <2>1, <2>2, <2>5 DEF Latest
  <2> QED
    BY <1>12, <2>1, <2>2, <2>3, <2>4, <2>6
<1>15. to = "anthropic" /\ q.is = "text" => ~Within(h, "call")
  BY <1>2, <1>3, <1>4, <1>9 DEF Within
<1> QED
  BY <1>2, <1>4, <1>10, <1>11, <1>12, <1>13, <1>14, <1>15 DEF h

(* A first event, and an end: neither is part of the answer.               *)
LEMMA StartPassed ==
  ASSUME CInv, to # "responses", NEW c \in Canonical, c.is = "start", ~translator.started,
         NEW r, Right(r), Agree(translator, r), ~r.client.done
  PROVE  \E next : Passed(c, r, next)
<1>1. /\ TypeOK /\ c \in Frame /\ r.client \in Client /\ r.heard \in Seq(Piece)
      /\ Len(r.heard) \in Nat /\ ~r.client.lost
  BY LenProperties DEF CInv, IInv, Right, Reader, Canonical, Frame
<1>2. /\ Encoded(c).started /\ (Encoded(c).sawTool <=> translator.sawTool)
      /\ to = "anthropic" =>
           Encoded(c).active = translator.active /\ Encoded(c).blocks = translator.blocks
  BY <1>1, EncodedFields DEF Opens
<1>3. CASE to = "gemini"
  <2>1. Frames(c) = <<>>
    BY <1>3 DEF Frames
  <2>2. Steps(r, Frames(c), r)
    BY <2>1 DEF Steps
  <2>3. Agree(Encoded(c), r)
    BY <1>2, <1>3 DEF Agree
  <2> QED
    BY <1>1, <1>3, <2>2, <2>3 DEF Passed
<1>4. CASE to # "gemini"
  <2>1. Frames(c) = <<c>>
    BY <1>4 DEF Frames, AnthropicFrames
  <2>2. Follows(r.client, c)
    BY <1>1, <1>4 DEF Follows, Fits, Agree
  <2>3. PICK next : /\ CanRead(r, c, next) /\ Right(next)
                    /\ next.heard = r.heard /\ next.client = After(r.client, c)
    BY <1>1, <2>2, ReadsMark
  <2>4. /\ next.client.begun = TRUE /\ next.client.open = r.client.open
        /\ next.client.names = r.client.names /\ ~next.client.done
    <3>1. c.is \notin {"block", "call", "stop"}
      OBVIOUS
    <3>2. LET b == After(r.client, c)
          IN  /\ b.begun = TRUE /\ (b.done <=> c.is = "terminal")
              /\ b.open = r.client.open /\ b.names = r.client.names \cup {}
      BY <1>1, <3>1, AfterFields
    <3> QED
      BY <2>3, <3>2
  <2>5. Steps(r, Frames(c), next)
    BY <1>1, <2>1, <2>3 DEF Steps
  <2>6. Agree(Encoded(c), next)
    BY <1>2, <2>3, <2>4 DEF Agree, Blocks
  <2> QED
    BY <1>1, <2>3, <2>4, <2>5, <2>6 DEF Passed
<1> QED
  BY <1>3, <1>4

LEMMA EndPassed ==
  ASSUME CInv, to # "responses", NEW c \in Canonical, c.is = "terminal",
         NEW r, Right(r), Agree(translator, r), ~r.client.done, r.client.begun,
         to = "anthropic" => Within(r.heard, "finish")
  PROVE  \E next : Passed(c, r, next)
<1>1. /\ TypeOK /\ c \in Frame /\ r.client \in Client /\ r.heard \in Seq(Piece)
      /\ Len(r.heard) \in Nat /\ ~r.client.lost
  BY LenProperties DEF CInv, IInv, Right, Reader, Canonical, Frame
<1>2. /\ Encoded(c).started <=> translator.started
      /\ Encoded(c).sawTool <=> translator.sawTool
      /\ to = "anthropic" =>
           Encoded(c).active = translator.active /\ Encoded(c).blocks = translator.blocks
  BY <1>1, EncodedFields DEF Opens
<1>3. CASE to = "gemini"
  <2>1. Frames(c) = <<>>
    BY <1>3 DEF Frames
  <2>2. Steps(r, Frames(c), r)
    BY <2>1 DEF Steps
  <2>3. Agree(Encoded(c), r)
    BY <1>2, <1>3 DEF Agree
  <2> QED
    BY <1>1, <1>3, <2>2, <2>3 DEF Passed
<1>4. CASE to # "gemini"
  <2>1. Frames(c) = <<c>>
    BY <1>4 DEF Frames, AnthropicFrames
  <2>2. r.client.open = 0
    BY DEF Agree, Blocks
  <2>3. Follows(r.client, c)
    BY <1>1, <2>2 DEF Follows, Fits
  <2>4. PICK next : /\ CanRead(r, c, next) /\ Right(next)
                    /\ next.heard = r.heard /\ next.client = After(r.client, c)
    BY <1>1, <2>3, ReadsMark
  <2>5. /\ next.client.begun = TRUE /\ next.client.open = r.client.open
        /\ next.client.names = r.client.names /\ next.client.done
    <3>1. c.is \notin {"block", "call", "stop"}
      OBVIOUS
    <3>2. LET b == After(r.client, c)
          IN  /\ b.begun = TRUE /\ (b.done <=> c.is = "terminal")
              /\ b.open = r.client.open /\ b.names = r.client.names \cup {}
      BY <1>1, <3>1, AfterFields
    <3> QED
      BY <2>4, <3>2
  <2>6. Steps(r, Frames(c), next)
    BY <1>1, <2>1, <2>4 DEF Steps
  <2>7. Agree(Encoded(c), next)
    BY <1>2, <2>4, <2>5 DEF Agree, Blocks
  <2> QED
    BY <1>1, <1>4, <2>4, <2>5, <2>6, <2>7 DEF Passed
<1> QED
  BY <1>3, <1>4

(* A piece for a client that has no blocks: Chat knows calls by position.  *)
LEMMA PlainPassed ==
  ASSUME CInv, ~Untranslatable, to \in {"chat", "gemini"}, NEW c \in Canonical,
         to = "gemini" => c.is \notin {"call", "arguments"},
         NEW r, Right(r), Agree(translator, r), ~r.client.done, r.client.begun,
         Len(r.heard) < Len(said), Stands(c, said[Len(r.heard) + 1])
  PROVE  \E next : Passed(c, r, next)
<1> DEFINE h == r.heard
<1>0. PICK q : q = said[Len(h) + 1]
  OBVIOUS
<1>1. /\ TypeOK /\ c \in Frame /\ r.client \in Client /\ h \in Seq(Piece)
      /\ said \in Seq(Piece)
      /\ Len(h) \in Nat /\ DOMAIN h = 1..Len(h) /\ ~r.client.lost
  BY LenProperties DEF CInv, IInv, TypeOK, Right, Reader, Canonical, Frame
<1>2. /\ q \in Piece /\ c.is = q.is /\ c.n = q.n
      /\ q.is \in {"call", "arguments"} => c.at = Place(q)
      /\ q.is \in {"text", "finish"} => c.at = 1
  BY <1>0, NextPiece DEF Stands
<1>3. /\ q.is \in {"text", "finish"} => q.call = 0
      /\ q.is = "call" =>
           /\ q.n = q.call
           /\ \A i \in DOMAIN h : h[i].is = "call" => h[i].call < q.call
           /\ to = "chat" /\ from = "gemini" => ~Within(h, "call")
      /\ q.is = "arguments" =>
           /\ \E i \in DOMAIN h : h[i].is = "call" /\ h[i].call = q.call
           /\ \A i \in DOMAIN h : h[i].is = "call" =>
                /\ h[i].n = h[i].call /\ h[i].call # 0
                /\ to = "chat" /\ from = "gemini" => h[i].call = q.call
  BY <1>0, NextPiece
<1>4. r.client.open = 0 /\ (to = "chat" => r.client.names = ChatNames(h))
  BY DEF Agree
<1> HIDE DEF h
<1>5. Follows(r.client, c) /\ Understood(r.client, c) = <<q>>
  <2>1. CASE q.is \in {"text", "finish"}
    <3>1. Follows(r.client, c)
      BY <1>1, <1>2, <1>4, <2>1 DEF Follows, Fits
    <3>2. q = [is |-> c.is, call |-> 0, n |-> c.n]
      BY <1>2, <1>3, <2>1 DEF Piece
    <3> QED
      BY <1>2, <2>1, <3>1, <3>2 DEF Understood
  <2>2. CASE q.is = "call"
    <3>1. Names(r.client, c.at) = {}
      <4>1. CASE from = "gemini"
        <5>1. r.client.names = {}
          BY <1>2, <1>3, <1>4, <2>2, <4>1 DEF Within, ChatNames
        <5> QED
          BY <5>1 DEF Names
      <4>2. CASE from # "gemini"
        <5>1. c.at = q.call /\ q.call \in Nat
          BY <1>2, <2>2, <4>2 DEF Place, Piece
        <5>2. ASSUME NEW x \in r.client.names, x[1] = c.at PROVE FALSE
          <6>1. PICK i \in DOMAIN h : h[i].is = "call" /\ x = <<Place(h[i]), h[i].n>>
            BY <1>2, <1>4, <2>2, <5>2 DEF ChatNames
          <6>2. h[i].call = q.call /\ h[i].call < q.call
            BY <1>3, <2>2, <4>2, <5>1, <5>2, <6>1 DEF Place
          <6> QED
            BY <5>1, <6>2
        <5> QED
          BY <5>2 DEF Names
      <4> QED
        BY <4>1, <4>2
    <3>2. Follows(r.client, c)
      BY <1>1, <1>2, <1>4, <2>2, <3>1 DEF Follows, Fits
    <3>3. q = [is |-> c.is, call |-> c.n, n |-> c.n]
      BY <1>2, <1>3, <2>2 DEF Piece
    <3> QED
      BY <1>2, <2>2, <3>2, <3>3 DEF Understood
  <2>3. CASE q.is = "arguments"
    <3>1. to = "chat"
      BY <1>2, <2>3
    <3>2. PICK i \in DOMAIN h : h[i].is = "call" /\ h[i].call = q.call
      BY <1>3, <2>3
    <3>3. h[i].n = q.call /\ q.call # 0 /\ Place(h[i]) = c.at
      BY <1>2, <1>3, <2>3, <3>2 DEF Place
    <3>4. <<c.at, q.call>> \in Names(r.client, c.at)
      <4>1. <<Place(h[i]), h[i].n>> \in ChatNames(h)
        BY <3>2 DEF ChatNames
      <4> QED
        BY <1>4, <3>1, <3>3, <4>1 DEF Names
    <3>5. ASSUME NEW x \in Names(r.client, c.at) PROVE x = <<c.at, q.call>>
      <4>1. x[1] = c.at
        BY DEF Names
      <4>2. PICK j \in DOMAIN h : h[j].is = "call" /\ x = <<Place(h[j]), h[j].n>>
        BY <1>4, <3>1 DEF ChatNames, Names
      <4>3. h[j].n = h[j].call
        BY <1>3, <2>3, <4>2
      <4>4. h[j].call = q.call
        <5>1. CASE from = "gemini"
          BY <1>3, <2>3, <3>1, <4>2, <5>1
        <5>2. CASE from # "gemini"
          BY <1>2, <2>3, <4>1, <4>2, <5>2 DEF Place
        <5> QED
          BY <5>1, <5>2
      <4> QED
        BY <4>1, <4>2, <4>3, <4>4
    <3>6. (CHOOSE x \in Names(r.client, c.at) : TRUE) = <<c.at, q.call>>
      BY <3>4, <3>5
    <3>7. Follows(r.client, c)
      <4>1. \E x \in Names(r.client, c.at) : x[2] # 0
        BY <3>3, <3>4
      <4> QED
        BY <1>1, <1>2, <2>3, <3>1, <4>1 DEF Follows, Fits
    <3>8. q = [is |-> c.is, call |-> q.call, n |-> c.n]
      BY <1>2 DEF Piece
    <3> DEFINE of == CHOOSE x \in Names(r.client, c.at) : TRUE
    <3>9. Understood(r.client, c) = <<[is |-> c.is, call |-> of[2], n |-> c.n]>>
      BY <1>2, <2>3 DEF Understood
    <3>10. of = <<c.at, q.call>>
      BY <3>6
    <3> HIDE DEF of
    <3>11. of[2] = q.call
      BY <3>10
    <3>12. Understood(r.client, c) = <<[is |-> c.is, call |-> q.call, n |-> c.n]>>
      BY <3>9, <3>11
    <3> QED
      BY <3>7, <3>8, <3>12
  <2>4. q.is \in {"text", "finish", "call", "arguments"}
    BY <1>2 DEF Piece
  <2> QED
    BY <2>1, <2>2, <2>3, <2>4
<1>6. PICK next : /\ CanRead(r, c, next) /\ Right(next)
                  /\ next.heard = Append(h, q) /\ next.client = After(r.client, c)
  BY <1>0, <1>1, <1>5, ReadsPiece DEF h
<1>7. /\ next.client.begun = TRUE /\ next.client.open = 0 /\ ~next.client.done
      /\ next.client.names = r.client.names \cup (IF q.is = "call" THEN {<<c.at, c.n>>} ELSE {})
  <2>1. c.is \notin {"block", "stop", "terminal"}
    BY <1>2 DEF Piece
  <2>2. LET b == After(r.client, c)
        IN  /\ b.begun = TRUE /\ ~b.done /\ b.open = r.client.open
            /\ b.names = r.client.names \cup (IF c.is = "call" THEN {<<c.at, c.n>>} ELSE {})
    <3>1. CASE c.is = "call"
      BY <1>1, <2>1, <3>1, AfterFields
    <3>2. CASE c.is # "call"
      BY <1>1, <2>1, <3>2, AfterFields
    <3> QED
      BY <3>1, <3>2
  <2> QED
    BY <1>2, <1>4, <1>6, <2>2
<1>8. Steps(r, Frames(c), next)
  <2>1. Frames(c) = <<c>>
    BY <1>2 DEF Frames, Piece
  <2> QED
    BY <1>1, <1>6, <2>1 DEF Steps
<1>9. Agree(Encoded(c), next)
  <2>1. /\ Encoded(c).started <=> translator.started
        /\ Encoded(c).sawTool <=> translator.sawTool \/ q.is = "call"
    <3>1. c.is # "start"
      BY <1>2 DEF Piece
    <3> QED
      BY <1>1, <1>2, <3>1, EncodedFields
  <2>2. Within(next.heard, "call") <=> Within(h, "call") \/ q.is = "call"
    BY <1>1, <1>2, <1>6, WithinAppend
  <2>3. ChatNames(next.heard) =
          ChatNames(h) \cup (IF q.is = "call" THEN {<<Place(q), q.n>>} ELSE {})
    BY <1>1, <1>2, <1>6, ChatNamesAppend
  <2>4. to = "chat" => next.client.names = ChatNames(next.heard)
    BY <1>2, <1>4, <1>7, <2>3
  <2>5. /\ translator.started \/ to = "gemini"
        /\ translator.sawTool <=> Within(h, "call")
    BY DEF Agree, h
  <2> QED
    BY <1>7, <2>1, <2>2, <2>4, <2>5 DEF Agree
<1>10. Len(next.heard) = Len(h) + 1
  BY <1>1, <1>2, <1>6, AppendParts
<1> QED
  BY <1>2, <1>6, <1>7, <1>8, <1>9, <1>10 DEF Passed, Piece, h

(* A piece for an Anthropic client, which has one open block at a time.    *)
BlockStart == [is |-> "block", at |-> Opened, n |-> 0]

LEMMA Pair ==
  ASSUME NEW S, NEW x \in S, NEW y \in S
  PROVE  <<x>> \o <<y>> = <<x, y>>
<1>1. <<>> \in Seq(S) /\ <<x>> \in Seq(S) /\ <<y>> \in Seq(S) /\ <<x, y>> \in Seq(S)
  OBVIOUS
<1>2. <<>> \o <<x>> = <<x>> /\ <<>> \o <<x, y>> = <<x, y>>
  BY <1>1, ConcatEmptySeq
<1>3. <<>> \o <<x, y>> = Append(Append(<<>>, x), y)
  BY <1>1, AppendTwo
<1>4. Append(<<>>, x) = <<>> \o <<x>> /\ Append(<<x>>, y) = <<x>> \o <<y>>
  BY <1>1, AppendParts
<1> QED
  BY <1>2, <1>3, <1>4

LEMMA AnthropicFramesAre ==
  ASSUME TypeOK, to = "anthropic", NEW c \in Canonical
  PROVE  /\ BlockStop \in Frame /\ BlockStart \in Frame
         /\ \A n \in Nat : [c EXCEPT !.at = n] \in Frame
         /\ \A n \in Nat : LET f == [c EXCEPT !.at = n]
                           IN  f.is = c.is /\ f.n = c.n /\ f.at = n
         /\ translator.active \in Nat /\ Opened \in Nat /\ Opened # 0
         /\ Opened > translator.blocks /\ translator.blocks \in Nat
         /\ c.is = "text" =>
              Frames(c) = IF translator.active = 0
                            THEN <<BlockStart, [c EXCEPT !.at = Opened]>>
                            ELSE <<[c EXCEPT !.at = translator.active]>>
         /\ c.is = "call" =>
              Frames(c) = IF translator.active = 0
                            THEN <<[c EXCEPT !.at = Opened]>>
                            ELSE <<BlockStop, [c EXCEPT !.at = Opened]>>
         /\ c.is = "arguments" => Frames(c) = <<[c EXCEPT !.at = translator.active]>>
         /\ c.is = "finish" =>
              Frames(c) = IF translator.active = 0 THEN <<c>> ELSE <<BlockStop, c>>
<1>1. translator.active \in Nat /\ translator.blocks \in Nat
  BY DEF TypeOK, Translator
<1>2. Opened \in Nat /\ Opened # 0 /\ Opened > translator.blocks
  BY <1>1 DEF Opened
<1>3. BlockStop \in Frame /\ BlockStart \in Frame
  BY <1>1, <1>2 DEF BlockStop, BlockStart, Frame
<1>4. \A n \in Nat : LET f == [c EXCEPT !.at = n]
                     IN  f.is = c.is /\ f.n = c.n /\ f.at = n /\ f \in Frame
  BY DEF Canonical, Frame
<1>5. Frames(c) = AnthropicFrames(c) /\ c \in Frame
  BY DEF Frames, Canonical, Frame
<1>6. ASSUME NEW f \in Frame
      PROVE  (IF translator.active = 0 THEN <<>> ELSE <<BlockStop>>) \o <<f>> =
               IF translator.active = 0 THEN <<f>> ELSE <<BlockStop, f>>
  <2>1. <<f>> \in Seq(Frame) /\ <<BlockStop>> \in Seq(Frame)
    BY <1>3
  <2>2. <<>> \o <<f>> = <<f>>
    BY <2>1, ConcatEmptySeq
  <2>3. <<BlockStop>> \o <<f>> = <<BlockStop, f>>
    BY <1>3, Pair
  <2> QED
    BY <2>2, <2>3
<1>7. ASSUME c.is = "text"
      PROVE  Frames(c) = IF translator.active = 0
                           THEN <<BlockStart, [c EXCEPT !.at = Opened]>>
                           ELSE <<[c EXCEPT !.at = translator.active]>>
  BY <1>5, <1>7 DEF AnthropicFrames, BlockStart
<1>8. ASSUME c.is = "call"
      PROVE  Frames(c) = IF translator.active = 0
                           THEN <<[c EXCEPT !.at = Opened]>>
                           ELSE <<BlockStop, [c EXCEPT !.at = Opened]>>
  <2>1. Frames(c) = (IF translator.active = 0 THEN <<>> ELSE <<BlockStop>>)
                      \o <<[c EXCEPT !.at = Opened]>>
    BY <1>5, <1>8 DEF AnthropicFrames
  <2> QED
    BY <1>2, <1>4, <1>6, <2>1
<1>9. c.is = "arguments" => Frames(c) = <<[c EXCEPT !.at = translator.active]>>
  BY <1>5 DEF AnthropicFrames
<1>10. ASSUME c.is = "finish"
       PROVE  Frames(c) = IF translator.active = 0 THEN <<c>> ELSE <<BlockStop, c>>
  <2>1. Frames(c) = (IF translator.active = 0 THEN <<>> ELSE <<BlockStop>>) \o <<c>>
    BY <1>5, <1>10 DEF AnthropicFrames
  <2> QED
    BY <1>5, <1>6, <2>1
<1> QED
  BY <1>1, <1>2, <1>3, <1>4, <1>7, <1>8, <1>9, <1>10

(* The block that is open is ended.                                        *)
LEMMA StopRead ==
  ASSUME CInv, to = "anthropic", translator.active # 0,
         NEW r, Right(r), Agree(translator, r), ~r.client.done, r.client.begun
  PROVE  \E next : /\ CanRead(r, BlockStop, next) /\ Right(next) /\ next.heard = r.heard
                   /\ next.client.begun /\ ~next.client.done /\ next.client.open = 0
                   /\ next.client.names = r.client.names
<1>1. TypeOK /\ r.client \in Client /\ ~r.client.lost
  BY DEF CInv, IInv, Right, Reader
<1>2. BlockStop \in Frame /\ BlockStop.is = "stop" /\ BlockStop.at = translator.active
  BY <1>1 DEF BlockStop, Frame, TypeOK, Translator
<1>3. r.client.open = translator.active
  BY DEF Agree
<1>4. Follows(r.client, BlockStop)
  BY <1>1, <1>2, <1>3 DEF Follows, Fits
<1>5. PICK next : /\ CanRead(r, BlockStop, next) /\ Right(next)
                  /\ next.heard = r.heard /\ next.client = After(r.client, BlockStop)
  BY <1>2, <1>4, ReadsMark
<1>6. LET b == After(r.client, BlockStop)
      IN  b.begun = TRUE /\ ~b.done /\ b.open = 0 /\ b.names = r.client.names \cup {}
  BY <1>1, <1>2, AfterFields
<1> QED
  BY <1>5, <1>6

(* The client r has the open block, or none, that the piece q of the kind  *)
(* of c needs; and it reads q in the frame f, which names the block n.     *)
Ready(c, r, n, q) ==
  /\ ~r.client.done /\ r.client.begun
  /\ c.is = "text" => r.client.open = n /\ <<n, 0>> \in r.client.names
  /\ c.is = "arguments" =>
       r.client.open = n /\ q.call # 0 /\ Names(r.client, n) = {<<n, q.call>>}
  /\ c.is = "call" => Names(r.client, n) = {} /\ r.client.open = 0
  /\ c.is = "finish" => r.client.open = 0 /\ n = 1

ReadsOn(c, r, f, n, q, next) ==
  /\ CanRead(r, f, next) /\ Right(next) /\ next.heard = Append(r.heard, q)
  /\ next.client.begun /\ ~next.client.done
  /\ next.client.open = IF c.is = "call" THEN n ELSE r.client.open
  /\ next.client.names = r.client.names \cup (IF c.is = "call" THEN {<<n, q.n>>} ELSE {})

LEMMA BlockPiece ==
  ASSUME CInv, ~Untranslatable, to = "anthropic", NEW c \in Canonical,
         NEW r, Right(r), Len(r.heard) < Len(said),
         NEW q, q = said[Len(r.heard) + 1], Stands(c, q),
         NEW n \in Nat, NEW f, f = [c EXCEPT !.at = n], Ready(c, r, n, q)
  PROVE  \E next : ReadsOn(c, r, f, n, q, next)
<1>0. /\ ~r.client.done /\ r.client.begun
      /\ c.is = "text" => r.client.open = n /\ <<n, 0>> \in r.client.names
      /\ c.is = "arguments" =>
           r.client.open = n /\ q.call # 0 /\ Names(r.client, n) = {<<n, q.call>>}
      /\ c.is = "call" => Names(r.client, n) = {} /\ r.client.open = 0
      /\ c.is = "finish" => r.client.open = 0 /\ n = 1
  BY DEF Ready
<1>1. /\ TypeOK /\ r.client \in Client /\ ~r.client.lost /\ said \in Seq(Piece)
  BY DEF CInv, IInv, TypeOK, Right, Reader
<1>2. f \in Frame /\ f.is = c.is /\ f.n = c.n /\ f.at = n
  BY DEF Canonical, Frame
<1>3. /\ q \in Piece /\ c.is = q.is /\ c.n = q.n
      /\ q.is \in {"text", "finish"} => q.call = 0
      /\ q.is = "call" => q.n = q.call
  BY NextPiece DEF Stands
<1>4. f.is \in {"text", "call", "arguments", "finish"}
  BY <1>2, <1>3 DEF Piece
<1>5. Follows(r.client, f) /\ Understood(r.client, f) = <<q>>
  <2>1. CASE f.is \in {"text", "finish"}
    <3>1. Follows(r.client, f)
      BY <1>0, <1>1, <1>2, <2>1 DEF Follows, Fits
    <3>2. q = [is |-> f.is, call |-> 0, n |-> f.n]
      BY <1>2, <1>3, <2>1 DEF Piece
    <3> QED
      BY <2>1, <3>1, <3>2 DEF Understood
  <2>2. CASE f.is = "call"
    <3>1. Follows(r.client, f)
      BY <1>0, <1>1, <1>2, <2>2 DEF Follows, Fits
    <3>2. q = [is |-> f.is, call |-> f.n, n |-> f.n]
      BY <1>2, <1>3, <2>2 DEF Piece
    <3> QED
      BY <2>2, <3>1, <3>2 DEF Understood
  <2>3. CASE f.is = "arguments"
    <3> DEFINE of == CHOOSE x \in Names(r.client, f.at) : TRUE
    <3>1. Names(r.client, f.at) = {<<n, q.call>>} /\ q.call # 0 /\ r.client.open = f.at
      BY <1>0, <1>2, <2>3
    <3>2. Follows(r.client, f)
      <4>1. \E x \in Names(r.client, f.at) : x[2] # 0
        <5>1. <<n, q.call>>[2] # 0
          BY <3>1
        <5> QED
          BY <3>1, <5>1
      <4> HIDE DEF of
      <4>2. Fits(r.client, f)
        BY <2>3, <3>1, <4>1 DEF Fits
      <4> QED
        BY <1>0, <1>1, <2>3, <4>2 DEF Follows
    <3>3. Understood(r.client, f) = <<[is |-> f.is, call |-> of[2], n |-> f.n]>>
      BY <2>3 DEF Understood
    <3>4. of = <<n, q.call>>
      BY <3>1
    <3> HIDE DEF of
    <3>5. of[2] = q.call
      BY <3>4
    <3>6. Understood(r.client, f) = <<[is |-> f.is, call |-> q.call, n |-> f.n]>>
      BY <3>3, <3>5
    <3>7. q = [is |-> f.is, call |-> q.call, n |-> f.n]
      BY <1>2, <1>3 DEF Piece
    <3> QED
      BY <3>2, <3>6, <3>7
  <2> QED
    BY <1>4, <2>1, <2>2, <2>3
<1>6. PICK next : /\ CanRead(r, f, next) /\ Right(next)
                  /\ next.heard = Append(r.heard, q) /\ next.client = After(r.client, f)
  BY <1>1, <1>2, <1>5, ReadsPiece
<1>7. LET b == After(r.client, f)
      IN  /\ b.begun = TRUE /\ ~b.done
          /\ b.open = IF c.is = "call" THEN n ELSE r.client.open
          /\ b.names = r.client.names \cup (IF c.is = "call" THEN {<<n, q.n>>} ELSE {})
  <2>1. LET b == After(r.client, f)
        IN  /\ b.begun = TRUE /\ ~b.done
            /\ b.open = IF f.is = "call" THEN f.at ELSE r.client.open
            /\ b.names = r.client.names \cup (IF f.is = "call" THEN {<<f.at, f.n>>} ELSE {})
    BY <1>1, <1>2, <1>4, AfterPiece
  <2>2. f.at = n /\ f.n = q.n /\ f.is = c.is
    BY <1>2, <1>3
  <2> QED
    BY <2>1, <2>2
<1> QED
  BY <1>6, <1>7 DEF ReadsOn

(* A block for text begins.                                                *)
LEMMA StartRead ==
  ASSUME CInv, to = "anthropic", translator.active = 0,
         NEW r, Right(r), Agree(translator, r), ~r.client.done, r.client.begun
  PROVE  \E next : /\ CanRead(r, BlockStart, next) /\ Right(next) /\ next.heard = r.heard
                   /\ next.client.begun /\ ~next.client.done /\ next.client.open = Opened
                   /\ next.client.names = r.client.names \cup {<<Opened, 0>>}
<1>1. TypeOK /\ r.client \in Client /\ ~r.client.lost
  BY DEF CInv, IInv, Right, Reader
<1>2. /\ translator.blocks \in Nat /\ Opened = translator.blocks + 1
      /\ BlockStart \in Frame /\ BlockStart.is = "block" /\ BlockStart.at = Opened
      /\ BlockStart.n = 0
  BY <1>1 DEF BlockStart, Opened, Frame, TypeOK, Translator
<1>3. r.client.open = 0 /\ \A x \in r.client.names : x[1] <= translator.blocks
  BY DEF Agree, Blocks
<1>4. Names(r.client, Opened) = {}
  BY <1>2, <1>3 DEF Names
<1>5. Follows(r.client, BlockStart)
  BY <1>1, <1>2, <1>3, <1>4 DEF Follows, Fits
<1>6. PICK next : /\ CanRead(r, BlockStart, next) /\ Right(next)
                  /\ next.heard = r.heard /\ next.client = After(r.client, BlockStart)
  BY <1>2, <1>5, ReadsMark
<1>7. LET b == After(r.client, BlockStart)
      IN  b.begun = TRUE /\ ~b.done /\ b.open = Opened /\ b.names = r.client.names \cup {<<Opened, 0>>}
  BY <1>1, <1>2, AfterFields
<1> QED
  BY <1>6, <1>7

(* The blocks that the translator and the client know of.                  *)
LEMMA BlocksKept ==
  ASSUME NEW h \in Seq(Piece), NEW q \in Piece, q.is # "call",
         NEW t, NEW names, Blocks(t, names, h),
         NEW u, u.blocks = t.blocks,
         (u.active = t.active /\ q.is # "finish") \/ u.active = 0
  PROVE  Blocks(u, names, Append(h, q))
<1>1. CASE u.active = 0
  BY <1>1 DEF Blocks
<1>2. CASE u.active # 0
  <2>1. u.active = t.active /\ q.is # "finish"
    BY <1>2
  <2>2. PICK m \in Nat : <<t.active, m>> \in names /\ Latest(m, h)
    BY <1>2, <2>1 DEF Blocks
  <2>3. Latest(m, Append(h, q))
    BY <2>2, LatestAppend
  <2>4. ~Within(h, "finish")
    BY <1>2, <2>1 DEF Blocks
  <2>5. ~Within(Append(h, q), "finish")
    BY <2>1, <2>4, WithinAppend
  <2> QED
    BY <2>1, <2>2, <2>3, <2>5 DEF Blocks
<1> QED
  BY <1>1, <1>2

LEMMA BlocksOpened ==
  ASSUME NEW h, NEW s, NEW t, NEW names \in SUBSET (Nat \X Nat), t.blocks \in Nat,
         Blocks(t, names, h), NEW u, u.active = t.blocks + 1, u.blocks = t.blocks + 1,
         NEW m \in Nat, Latest(m, s), ~Within(s, "finish")
  PROVE  Blocks(u, names \cup {<<t.blocks + 1, m>>}, s)
<1> DEFINE n == t.blocks + 1
           more == names \cup {<<n, m>>}
<1>1. /\ \A x \in names : x[1] \in Nat /\ x[1] <= t.blocks
      /\ \A x, y \in names : x[1] = y[1] => x = y
  BY DEF Blocks
<1>2. n \in Nat /\ n > t.blocks /\ <<n, m>>[1] = n
  OBVIOUS
<1> HIDE DEF n
<1>3. \A x \in more : x[1] <= n
  BY <1>1, <1>2
<1>4. \A x, y \in more : x[1] = y[1] => x = y
  BY <1>1, <1>2
<1>5. <<n, m>> \in more
  OBVIOUS
<1>6. u.active = n /\ u.blocks = n
  BY DEF n
<1> HIDE DEF more
<1>7. Blocks(u, more, s)
  BY <1>3, <1>4, <1>5, <1>6 DEF Blocks
<1> QED
  BY <1>7 DEF more, n

LEMMA BlockPassed ==
  ASSUME CInv, ~Untranslatable, to = "anthropic", NEW c \in Canonical,
         c.is = "arguments" => translator.active # 0,
         NEW r, Right(r), Agree(translator, r), ~r.client.done, r.client.begun,
         Len(r.heard) < Len(said), Stands(c, said[Len(r.heard) + 1])
  PROVE  \E next : Passed(c, r, next)
<1> DEFINE h == r.heard
           u == Encoded(c)
<1>0. PICK q : q = said[Len(h) + 1]
  OBVIOUS
<1>1. /\ TypeOK /\ r.client \in Client /\ h \in Seq(Piece) /\ Len(h) \in Nat
      /\ r.client.names \in SUBSET (Nat \X Nat)
      /\ translator.blocks \in Nat /\ translator.active \in Nat
  BY LenProperties DEF CInv, IInv, TypeOK, Right, Reader, Client, Translator
<1>2. /\ q \in Piece /\ c.is = q.is /\ c.n = q.n
      /\ c.is \in {"text", "call", "arguments", "finish"}
      /\ q.call \in Nat
  BY <1>0, NextPiece DEF Stands, Piece
<1>3. /\ ~Within(h, "finish")
      /\ q.is = "call" => /\ q.n = q.call
                          /\ \A i \in DOMAIN h : h[i].is = "call" => h[i].call < q.call
      /\ q.is = "text" => ~Within(h, "call")
      /\ q.is = "arguments" => Latest(q.call, h) /\ q.call # 0
  BY <1>0, NextPiece
<1>4. /\ r.client.open = translator.active /\ Blocks(translator, r.client.names, h)
      /\ translator.started /\ (translator.sawTool <=> Within(h, "call"))
  BY DEF Agree
<1>5. Stands(c, q)
  BY <1>0
<1>6. Append(h, q) \in Seq(Piece) /\ Len(Append(h, q)) = Len(h) + 1
  BY <1>1, <1>2, AppendParts
<1> HIDE DEF h, u
<1>7. /\ u.started <=> translator.started
      /\ u.sawTool <=> translator.sawTool \/ q.is = "call"
      /\ u.active = IF Opens(c) THEN Opened
                    ELSE IF c.is = "finish" THEN 0 ELSE translator.active
      /\ u.blocks = IF Opens(c) THEN Opened ELSE translator.blocks
  <2>1. c.is # "start"
    BY <1>2
  <2> QED
    BY <1>1, <1>2, <2>1, EncodedFields DEF u
<1>8. /\ Opened \in Nat /\ Opened = translator.blocks + 1
      /\ \A n \in Nat : [c EXCEPT !.at = n] \in Frame
      /\ BlockStop \in Frame /\ BlockStart \in Frame /\ c \in Frame
      /\ c.is = "text" =>
           Frames(c) = IF translator.active = 0
                         THEN <<BlockStart, [c EXCEPT !.at = Opened]>>
                         ELSE <<[c EXCEPT !.at = translator.active]>>
      /\ c.is = "call" =>
           Frames(c) = IF translator.active = 0
                         THEN <<[c EXCEPT !.at = Opened]>>
                         ELSE <<BlockStop, [c EXCEPT !.at = Opened]>>
      /\ c.is = "arguments" => Frames(c) = <<[c EXCEPT !.at = translator.active]>>
      /\ c.is = "finish" =>
           Frames(c) = IF translator.active = 0 THEN <<c>> ELSE <<BlockStop, c>>
  BY <1>1, AnthropicFramesAre DEF Opened, Canonical, Frame
<1>9. ASSUME NEW next, Right(next), Steps(r, Frames(c), next), next.heard = Append(h, q),
             next.client.begun, ~next.client.done, next.client.open = u.active,
             Blocks(u, next.client.names, Append(h, q))
      PROVE  Passed(c, r, next)
  <2>1. Within(next.heard, "call") <=> Within(h, "call") \/ q.is = "call"
    BY <1>1, <1>2, <1>9, WithinAppend
  <2>2. Agree(u, next)
    BY <1>4, <1>7, <1>9, <2>1 DEF Agree
  <2> QED
    BY <1>2, <1>6, <1>9, <2>2 DEF Passed, u, h
<1>10. CASE c.is = "text"
  <2>1. Latest(0, Append(h, q)) /\ ~Within(Append(h, q), "finish")
    <3>1. Latest(0, h)
      BY <1>2, <1>3, <1>10 DEF Latest
    <3> QED
      BY <1>1, <1>2, <1>3, <1>10, <3>1, LatestAppend, WithinAppend
  <2>2. CASE translator.active = 0
    <3>1. PICK p : /\ CanRead(r, BlockStart, p) /\ Right(p) /\ p.heard = h
                   /\ p.client.begun /\ ~p.client.done /\ p.client.open = Opened
                   /\ p.client.names = r.client.names \cup {<<Opened, 0>>}
      BY <2>2, StartRead DEF h
    <3>2. PICK f : f = [c EXCEPT !.at = Opened]
      OBVIOUS
    <3>3. PICK next : /\ CanRead(p, f, next) /\ Right(next) /\ next.heard = Append(h, q)
                      /\ next.client.begun /\ ~next.client.done
                      /\ next.client.open = Opened
                      /\ next.client.names = p.client.names
      <4>1. <<Opened, 0>> \in p.client.names
        BY <3>1
      <4>2. Len(p.heard) < Len(said) /\ q = said[Len(p.heard) + 1]
        BY <1>0, <3>1 DEF h
      <4>3. Ready(c, p, Opened, q)
        BY <1>10, <3>1, <4>1 DEF Ready
      <4>4. PICK next : ReadsOn(c, p, f, Opened, q, next)
        BY <1>5, <1>8, <3>1, <3>2, <4>2, <4>3, BlockPiece
      <4> QED
        BY <1>10, <3>1, <4>4 DEF ReadsOn
    <3>4. Steps(r, Frames(c), next)
      BY <1>8, <1>10, <2>2, <3>1, <3>2, <3>3 DEF Steps
    <3>5. u.active = Opened /\ u.blocks = Opened
      BY <1>7, <1>10, <2>2 DEF Opens
    <3>6. Blocks(u, next.client.names, Append(h, q))
      <4>1. u.active = translator.blocks + 1 /\ u.blocks = translator.blocks + 1
            /\ next.client.names = r.client.names \cup {<<translator.blocks + 1, 0>>}
        BY <1>8, <3>1, <3>3, <3>5
      <4>2. Blocks(u, r.client.names \cup {<<translator.blocks + 1, 0>>}, Append(h, q))
        BY <1>1, <1>4, <2>1, <4>1, BlocksOpened
      <4> QED
        BY <4>1, <4>2
    <3> QED
      BY <1>9, <3>3, <3>4, <3>5, <3>6
  <2>3. CASE translator.active # 0
    <3>1. <<translator.active, 0>> \in r.client.names
      <4>1. PICK m \in Nat : <<translator.active, m>> \in r.client.names /\ Latest(m, h)
        BY <1>4, <2>3 DEF Blocks
      <4>2. m = 0
        BY <1>2, <1>3, <1>10, <4>1 DEF Latest, Within
      <4> QED
        BY <4>1, <4>2
    <3>2. PICK f : f = [c EXCEPT !.at = translator.active]
      OBVIOUS
    <3>3. PICK next : /\ CanRead(r, f, next) /\ Right(next) /\ next.heard = Append(h, q)
                      /\ next.client.begun /\ ~next.client.done
                      /\ next.client.open = translator.active
                      /\ next.client.names = r.client.names
      <4>1. PICK n \in Nat : n = translator.active
        BY <1>1
      <4>2. r.client.open = n /\ <<n, 0>> \in r.client.names /\ f = [c EXCEPT !.at = n]
        BY <1>4, <3>1, <3>2, <4>1
      <4>3. Ready(c, r, n, q)
        BY <1>10, <4>2 DEF Ready
      <4>4. PICK next : ReadsOn(c, r, f, n, q, next)
        BY <1>0, <1>5, <4>2, <4>3, BlockPiece DEF h
      <4> QED
        BY <1>4, <1>10, <4>4 DEF ReadsOn, h
    <3>4. Steps(r, Frames(c), next)
      BY <1>1, <1>8, <1>10, <2>3, <3>2, <3>3 DEF Steps
    <3>5. u.active = translator.active /\ u.blocks = translator.blocks
      BY <1>7, <1>10, <2>3 DEF Opens
    <3>6. Blocks(u, next.client.names, Append(h, q))
      BY <1>1, <1>2, <1>4, <1>10, <3>3, <3>5, BlocksKept
    <3> QED
      BY <1>9, <3>3, <3>4, <3>5, <3>6
  <2> QED
    BY <2>2, <2>3
<1>11. CASE c.is = "call"
  <2>1. PICK p : /\ IF translator.active = 0 THEN p = r ELSE CanRead(r, BlockStop, p)
                 /\ Right(p) /\ p.heard = h /\ p.client.begun /\ ~p.client.done
                 /\ p.client.open = 0 /\ p.client.names = r.client.names
    <3>1. CASE translator.active = 0
      BY <1>4, <3>1 DEF h
    <3>2. CASE translator.active # 0
      BY <3>2, StopRead DEF h
    <3> QED
      BY <3>1, <3>2
  <2>2. PICK f : f = [c EXCEPT !.at = Opened]
    OBVIOUS
  <2>3. PICK next : /\ CanRead(p, f, next) /\ Right(next) /\ next.heard = Append(h, q)
                    /\ next.client.begun /\ ~next.client.done
                    /\ next.client.open = Opened
                    /\ next.client.names = r.client.names \cup {<<Opened, q.n>>}
    <3>1. Names(p.client, Opened) = {}
      <4>1. \A x \in p.client.names : x[1] <= translator.blocks
        BY <1>4, <2>1 DEF Blocks
      <4> QED
        BY <1>1, <1>8, <4>1 DEF Names
    <3>2. Len(p.heard) < Len(said) /\ q = said[Len(p.heard) + 1]
      BY <1>0, <2>1 DEF h
    <3>3. Ready(c, p, Opened, q)
      BY <1>11, <2>1, <3>1 DEF Ready
    <3>4. PICK next : ReadsOn(c, p, f, Opened, q, next)
      BY <1>5, <1>8, <2>1, <2>2, <3>2, <3>3, BlockPiece
    <3> QED
      BY <1>11, <2>1, <3>4 DEF ReadsOn
  <2>4. Steps(r, Frames(c), next)
    <3>1. CASE translator.active = 0
      BY <1>8, <1>11, <2>1, <2>2, <2>3, <3>1 DEF Steps
    <3>2. CASE translator.active # 0
      BY <1>8, <1>11, <2>1, <2>2, <2>3, <3>2 DEF Steps
    <3> QED
      BY <3>1, <3>2
  <2>5. u.active = Opened /\ u.blocks = Opened
    BY <1>7, <1>11 DEF Opens
  <2>6. Blocks(u, next.client.names, Append(h, q))
    <3>1. Latest(q.call, Append(h, q)) /\ ~Within(Append(h, q), "finish")
      BY <1>1, <1>2, <1>3, <1>11, LatestCall, WithinAppend
    <3>2. u.active = translator.blocks + 1 /\ u.blocks = translator.blocks + 1
          /\ next.client.names = r.client.names \cup {<<translator.blocks + 1, q.call>>}
      BY <1>2, <1>3, <1>8, <1>11, <2>3, <2>5
    <3>3. Blocks(u, r.client.names \cup {<<translator.blocks + 1, q.call>>}, Append(h, q))
      BY <1>1, <1>2, <1>4, <3>1, <3>2, BlocksOpened
    <3> QED
      BY <3>2, <3>3
  <2> QED
    BY <1>9, <2>3, <2>4, <2>5, <2>6
<1>12. CASE c.is = "arguments"
  <2>1. PICK n \in Nat : n = translator.active
    BY <1>1
  <2>2. n # 0 /\ r.client.open = n
    BY <1>4, <1>12, <2>1
  <2>3. Names(r.client, n) = {<<n, q.call>>}
    <3>1. PICK m \in Nat : <<n, m>> \in r.client.names /\ Latest(m, h)
      BY <1>4, <2>1, <2>2 DEF Blocks
    <3>2. m = q.call
      BY <1>1, <1>2, <1>3, <1>12, <3>1, LatestUnique
    <3>3. \A x \in r.client.names : x[1] = n => x = <<n, q.call>>
      <4>1. <<n, q.call>>[1] = n
        OBVIOUS
      <4> QED
        BY <1>4, <3>1, <3>2, <4>1 DEF Blocks
    <3> QED
      BY <3>1, <3>2, <3>3 DEF Names
  <2>4. PICK f : f = [c EXCEPT !.at = n]
    OBVIOUS
  <2>5. PICK next : /\ CanRead(r, f, next) /\ Right(next) /\ next.heard = Append(h, q)
                    /\ next.client.begun /\ ~next.client.done
                    /\ next.client.open = n
                    /\ next.client.names = r.client.names
    <3>1. Ready(c, r, n, q)
      BY <1>2, <1>3, <1>12, <2>2, <2>3 DEF Ready
    <3>2. PICK next : ReadsOn(c, r, f, n, q, next)
      BY <1>0, <1>5, <2>4, <3>1, BlockPiece DEF h
    <3> QED
      BY <1>12, <2>2, <3>2 DEF ReadsOn, h
  <2>6. Steps(r, Frames(c), next)
    BY <1>8, <1>12, <2>1, <2>4, <2>5 DEF Steps
  <2>7. u.active = translator.active /\ u.blocks = translator.blocks
    BY <1>7, <1>12 DEF Opens
  <2>8. Blocks(u, next.client.names, Append(h, q))
    BY <1>1, <1>2, <1>4, <1>12, <2>5, <2>7, BlocksKept
  <2> QED
    BY <1>9, <2>1, <2>5, <2>6, <2>7, <2>8
<1>13. CASE c.is = "finish"
  <2>1. PICK p : /\ IF translator.active = 0 THEN p = r ELSE CanRead(r, BlockStop, p)
                 /\ Right(p) /\ p.heard = h /\ p.client.begun /\ ~p.client.done
                 /\ p.client.open = 0 /\ p.client.names = r.client.names
    <3>1. CASE translator.active = 0
      BY <1>4, <3>1 DEF h
    <3>2. CASE translator.active # 0
      BY <3>2, StopRead DEF h
    <3> QED
      BY <3>1, <3>2
  <2>2. c.at \in Nat /\ c = [c EXCEPT !.at = c.at]
    BY DEF Canonical
  <2>3. PICK next : /\ CanRead(p, c, next) /\ Right(next) /\ next.heard = Append(h, q)
                    /\ next.client.begun /\ ~next.client.done
                    /\ next.client.open = 0
                    /\ next.client.names = r.client.names
    <3>1. Len(p.heard) < Len(said) /\ q = said[Len(p.heard) + 1]
      BY <1>0, <2>1 DEF h
    <3>2. Ready(c, p, c.at, q)
      <4>1. c.at = 1
        BY <1>2, <1>5, <1>13 DEF Stands
      <4> QED
        BY <1>13, <2>1, <4>1 DEF Ready
    <3>3. PICK next : ReadsOn(c, p, c, c.at, q, next)
      BY <1>5, <2>1, <2>2, <3>1, <3>2, BlockPiece
    <3> QED
      BY <1>13, <2>1, <3>3 DEF ReadsOn
  <2>4. Steps(r, Frames(c), next)
    <3>1. CASE translator.active = 0
      BY <1>8, <1>13, <2>1, <2>3, <3>1 DEF Steps
    <3>2. CASE translator.active # 0
      BY <1>8, <1>13, <2>1, <2>3, <3>2 DEF Steps
    <3> QED
      BY <3>1, <3>2
  <2>5. u.active = 0 /\ u.blocks = translator.blocks
    BY <1>7, <1>13 DEF Opens
  <2>6. Blocks(u, next.client.names, Append(h, q))
    BY <1>1, <1>2, <1>4, <1>13, <2>3, <2>5, BlocksKept
  <2> QED
    BY <1>9, <2>3, <2>4, <2>5, <2>6
<1> QED
  BY <1>2, <1>10, <1>11, <1>12, <1>13

(* Every canonical event that is not refused becomes frames the client can *)
(* read, and the translator's flags are right about the client again.      *)
LEMMA OnePassed ==
  ASSUME CInv, ~Untranslatable, to # "responses", NEW c \in Canonical, ~Unencodable(c),
         NEW r, Right(r), Agree(translator, r), ~r.client.done,
         \/ c.is = "start" /\ ~translator.started
         \/ /\ r.client.begun
            /\ \/ c.is = "terminal" /\ (to = "anthropic" => Within(r.heard, "finish"))
               \/ Len(r.heard) < Len(said) /\ Stands(c, said[Len(r.heard) + 1])
  PROVE  \E next : Passed(c, r, next)
<1>1. CASE c.is = "start" /\ ~translator.started
  BY <1>1, StartPassed
<1>2. CASE /\ r.client.begun /\ c.is = "terminal"
           /\ (to = "anthropic" => Within(r.heard, "finish"))
  BY <1>2, EndPassed
<1>3. CASE /\ r.client.begun
           /\ Len(r.heard) < Len(said) /\ Stands(c, said[Len(r.heard) + 1])
  <2>1. CASE to = "anthropic"
    <3>1. c.is = "arguments" => translator.active # 0
      BY <2>1 DEF Unencodable
    <3> QED
      BY <1>3, <2>1, <3>1, BlockPassed
  <2>2. CASE to # "anthropic"
    <3>1. to \in {"chat", "gemini"}
      BY <2>2 DEF CInv, IInv, TypeOK, Format
    <3>2. to = "gemini" => c.is \notin {"call", "arguments"}
      BY DEF Unencodable
    <3> QED
      BY <1>3, <3>1, <3>2, PlainPassed
  <2> QED
    BY <2>1, <2>2
<1> QED
  BY <1>1, <1>2, <1>3

LEMMA PassedHeard ==
  ASSUME NEW c, NEW r, NEW next, Passed(c, r, next), Len(r.heard) \in Nat
  PROVE  /\ c.is \in {"start", "terminal"} => Len(next.heard) = Len(r.heard)
         /\ c.is \notin {"start", "terminal"} => Len(next.heard) = Len(r.heard) + 1
<1>1. CASE c.is \in {"start", "terminal"}
  <2>1. Len(next.heard) = Len(r.heard) + 0
    BY <1>1 DEF Passed
  <2> QED
    BY <1>1, <2>1
<1>2. CASE c.is \notin {"start", "terminal"}
  BY <1>2 DEF Passed
<1> QED
  BY <1>1, <1>2

(* What is left of the event when c is passed: m pieces, and y ends.       *)
Moved(c, r, next, upto, m, y, z) ==
  /\ Passed(c, r, next)
  /\ Len(todo') = m + y /\ Len(next.heard) + m = upto
  /\ \A i \in 1..m : Stands(todo'[i], said[Len(next.heard) + i])
  /\ y = 1 => z = 1 /\ IsEnd(todo'[m + 1])
  /\ c.is = "terminal" <=> z = 1 /\ y = 0
  /\ c.is = "terminal" => todo' = <<>>
  /\ IF taken = 0 THEN c.is # "start" ELSE translator.started \/ c.is = "start"

LEMMA EncodeUnderstood ==
  ASSUME CInv, Encode
  PROVE  CInv'
<1>0. PICK c : c = Head(todo)
  OBVIOUS
<1>1. IInv'
  BY EncodeStep DEF CInv
<1>2. /\ body = "open" /\ todo # <<>> /\ todo \in Seq(Canonical) /\ draft \in Seq(Frame)
      /\ c \in Canonical /\ c = todo[1] /\ Len(todo) \in Nat \ {0}
      /\ Len(Tail(todo)) = Len(todo) - 1
      /\ \A i \in 1..(Len(todo) - 1) : Tail(todo)[i] = todo[i + 1]
      /\ taken \in Nat /\ said \in Seq(Piece) /\ Len(said) \in Nat /\ TypeOK
      /\ Len(todo) = 1 => Tail(todo) = <<>>
  <2>1. todo # <<>> /\ todo \in Seq(Canonical) /\ body = "open" /\ said \in Seq(Piece) /\ TypeOK
        /\ draft \in Seq(Frame) /\ taken \in Nat
    BY DEF Encode, CInv, IInv, TypeOK
  <2>2. /\ Head(todo) \in Canonical /\ Head(todo) = todo[1]
        /\ Len(Tail(todo)) = Len(todo) - 1
        /\ \A i \in 1..(Len(todo) - 1) : Tail(todo)[i] = todo[i + 1]
        /\ Tail(todo) \in Seq(Canonical)
    BY <2>1, HeadTailProperties
  <2>3. Len(todo) \in Nat \ {0} /\ Len(said) \in Nat
    BY <2>1, EmptySeq, LenProperties
  <2>4. Len(todo) = 1 => Tail(todo) = <<>>
    <3>1. \A seq \in Seq(Canonical) : seq # <<>> => Len(seq) \in Nat \ {0}
      BY EmptySeq
    <3>2. PICK rest : rest = Tail(todo)
      OBVIOUS
    <3>3. Len(todo) = 1 => Len(rest) = 0
      BY <2>2, <3>2
    <3>4. rest # <<>> => Len(rest) \in Nat \ {0}
      BY <2>2, <3>1, <3>2
    <3> QED
      BY <3>2, <3>3, <3>4
  <2> QED
    BY <1>0, <2>1, <2>2, <2>3, <2>4
<1>3. CASE Unencodable(c)
  BY <1>0, <1>1, <1>3, FailsUnderstood DEF Encode, CInv
<1>4. CASE ~Unencodable(c)
  <2>1. /\ draft' = draft \o Frames(c) /\ todo' = Tail(todo) /\ translator' = Encoded(c)
        /\ UNCHANGED <<upstream, sse, body, reader>>
    BY <1>0, <1>4 DEF Encode, Encoded
  <2>2. /\ from' = from /\ to' = to /\ events' = events /\ said' = said
        /\ client' = client /\ heard' = heard /\ body' = body
        /\ taken' = taken /\ terminalSeen' = terminalSeen /\ read' = read
        /\ upstreamDone' = upstreamDone /\ UNCHANGED upstream
    BY <2>1 DEF upstream, reader, sse
  <2>3. EndTaken' <=> EndTaken
    BY <2>2 DEF EndTaken
  <2>4. PICK off :
          /\ Laid(off, events, said)
          /\ ~Untranslatable =>
               /\ ~client.lost /\ Begins(heard, said)
               /\ body # "failed" => \E w : OnCourse(off, w)
    BY DEF CInv, Understands
  <2>5. ASSUME ~Untranslatable' PROVE \E v : OnCourse(off, v)'
    <3>0. ~Untranslatable
      BY <2>2, <2>5, SameUpstream
    <3>1. PICK w : OnCourse(off, w)
      BY <1>2, <2>4, <3>0
    <3>2. PICK r : r = w[Len(draft)]
      OBVIOUS
    <3>3. /\ Leads(draft, r) /\ Right(r) /\ Agree(translator, r) /\ to # "responses"
          /\ r.heard \in Seq(Piece) /\ Len(r.heard) \in Nat /\ Begins(r.heard, said)
      <4>1. Way(w, draft) /\ Agree(translator, r) /\ to # "responses"
        BY <1>2, <3>1, <3>2 DEF OnCourse
      <4>2. Right(r)
        <5>1. Len(draft) \in 0..Len(draft)
          BY <1>2, LenProperties
        <5> QED
          BY <3>2, <4>1, <5>1 DEF Way
      <4> QED
        BY <3>2, <4>1, <4>2, LenProperties DEF Leads, Right, Reader
    <3>4. PICK a \in {0, 1}, z \in {0, 1}, k \in Nat : Rest(r, off[taken], a, k, z)
      BY <3>1, <3>2 DEF OnCourse
    <3>5. /\ Len(todo) = a + k + z /\ Len(r.heard) + k = off[taken] /\ ~r.client.done
          /\ a = 1 => c.is = "start" /\ ~translator.started
          /\ \A i \in 1..k : Stands(todo[a + i], said[Len(r.heard) + i])
          /\ z = 1 => /\ IsEnd(todo[a + k + 1]) /\ EndTaken
                      /\ to = "anthropic" => \E j \in 1..off[taken] : said[j].is = "finish"
          /\ z = 0 => ~(to # "gemini" /\ EndTaken)
          /\ IF taken = 0 THEN ~translator.started /\ a = 0 ELSE translator.started \/ a = 1
      BY <1>2, <3>4 DEF Rest
    <3>6. off[taken] \in 0..Len(said) /\ off[0] = 0
      <4>1. taken \in 0..Len(events) /\ 0 \in 0..Len(events)
        BY LenProperties DEF CInv, IInv, TypeOK
      <4> QED
        BY <2>4, <4>1 DEF Laid
    <3>7. ASSUME a = 0, c.is # "start", k = 0 => z = 1 PROVE r.client.begun
      <4>1. CASE to = "anthropic"
        <5>1. taken # 0
          BY <3>3, <3>5, <3>6, <3>7, <4>1
        <5> QED
          BY <3>3, <3>5, <3>7, <5>1 DEF Agree
      <4>2. CASE to # "anthropic"
        <5>1. to \in {"chat", "gemini"}
          BY <1>2, <3>3, <4>2 DEF TypeOK, Format
        <5>2. to = "chat" => translator.started
          <6>1. to = "chat" => Remembered(c).started
            BY <1>4 DEF Unencodable
          <6>2. Remembered(c).started <=> translator.started \/ c.is = "start"
            BY <1>2 DEF Remembered, TypeOK, Translator
          <6> QED
            BY <3>7, <6>1, <6>2
        <5> QED
          BY <3>3, <5>1, <5>2 DEF Agree
      <4> QED
        BY <4>1, <4>2
    <3>8. PICK m \in Nat, y \in {0, 1} : \E next : Moved(c, r, next, off[taken], m, y, z)
      <4>1. CASE a = 1
        <5>1. c.is = "start" /\ ~translator.started /\ taken # 0
          BY <3>5, <4>1
        <5>2. PICK next : Passed(c, r, next)
          BY <1>2, <1>4, <3>0, <3>3, <3>5, <5>1, OnePassed
        <5>3. Len(next.heard) = Len(r.heard)
          BY <3>3, <5>1, <5>2, PassedHeard
        <5>4. Len(todo') = k + z
          BY <1>2, <2>1, <3>5, <4>1
        <5>5. ASSUME NEW i \in 1..k PROVE Stands(todo'[i], said[Len(next.heard) + i])
          <6>1. i \in 1..(Len(todo) - 1) /\ i + 1 = a + i
            BY <1>2, <3>5, <4>1
          <6> QED
            BY <1>2, <2>1, <3>5, <5>3, <6>1
        <5>6. z = 1 => IsEnd(todo'[k + 1])
          <6>1. z = 1 => k + 1 \in 1..(Len(todo) - 1) /\ (k + 1) + 1 = a + k + 1
            BY <1>2, <3>5, <4>1
          <6> QED
            BY <1>2, <2>1, <3>5, <6>1
        <5>7. Moved(c, r, next, off[taken], k, z, z)
          BY <3>5, <5>1, <5>2, <5>3, <5>4, <5>5, <5>6 DEF Moved
        <5> QED
          BY <5>7
      <4>2. CASE a = 0 /\ k # 0
        <5>1. Stands(c, said[Len(r.heard) + 1]) /\ Len(r.heard) < Len(said)
          <6>1. 1 \in 1..k /\ a + 1 = 1
            BY <4>2
          <6> QED
            BY <1>2, <3>3, <3>5, <3>6, <4>2, <6>1
        <5>2. c.is \in {"text", "call", "arguments", "finish"}
          <6>1. said[Len(r.heard) + 1] \in Piece
            <7>1. Len(r.heard) + 1 \in 1..Len(said)
              BY <1>2, <3>3, <5>1
            <7> QED
              BY <1>2, <7>1, ElementOfSeq
          <6> QED
            BY <5>1, <6>1 DEF Stands, Piece
        <5>3. PICK next : Passed(c, r, next)
          <6>1. r.client.begun
            BY <3>7, <4>2, <5>2
          <6> QED
            BY <1>2, <1>4, <3>0, <3>3, <3>5, <5>1, <6>1, OnePassed
        <5>4. Len(next.heard) = Len(r.heard) + 1
          BY <3>3, <5>2, <5>3, PassedHeard
        <5>5. k - 1 \in Nat /\ Len(todo') = (k - 1) + z /\ Len(next.heard) + (k - 1) = off[taken]
          BY <1>2, <2>1, <3>3, <3>5, <4>2, <5>4
        <5>6. ASSUME NEW i \in 1..(k - 1) PROVE Stands(todo'[i], said[Len(next.heard) + i])
          <6>1. /\ i \in 1..(Len(todo) - 1) /\ i + 1 \in 1..k /\ a + (i + 1) = i + 1
                /\ Len(r.heard) + (i + 1) = Len(next.heard) + i
            <7>1. Len(todo) = a + k + z /\ Len(r.heard) \in Nat /\ a = 0
              BY <3>3, <3>5, <4>2
            <7>2. i \in Nat /\ i >= 1 /\ i <= k - 1
              OBVIOUS
            <7>3. i \in 1..(Len(todo) - 1) /\ i + 1 \in 1..k /\ a + (i + 1) = i + 1
              BY <7>1, <7>2
            <7>4. Len(r.heard) + (i + 1) = Len(next.heard) + i
              <8>1. PICK n \in Nat : n = Len(r.heard)
                BY <7>1
              <8>2. Len(next.heard) = n + 1
                BY <5>4, <8>1
              <8>3. n + (i + 1) = (n + 1) + i
                BY <7>2
              <8> QED
                BY <8>1, <8>2, <8>3
            <7> QED
              BY <7>3, <7>4
          <6>2. Stands(todo[a + (i + 1)], said[Len(r.heard) + (i + 1)])
            BY <3>5, <6>1
          <6> QED
            BY <1>2, <2>1, <6>1, <6>2
        <5>7. z = 1 => IsEnd(todo'[(k - 1) + 1])
          <6>1. z = 1 => k \in 1..(Len(todo) - 1) /\ k + 1 = a + k + 1 /\ (k - 1) + 1 = k
            BY <1>2, <3>5, <4>2
          <6> QED
            BY <1>2, <2>1, <3>5, <6>1
        <5>8. Moved(c, r, next, off[taken], k - 1, z, z)
          BY <3>5, <4>2, <5>2, <5>3, <5>5, <5>6, <5>7 DEF Moved
        <5> QED
          BY <5>5, <5>8
      <4>3. CASE a = 0 /\ k = 0
        <5>1. z = 1 /\ Len(todo) = 1
          BY <1>2, <3>5, <4>3
        <5>2. c.is = "terminal"
          BY <1>2, <3>5, <4>3, <5>1 DEF IsEnd
        <5>3. to = "anthropic" => Within(r.heard, "finish")
          <6> SUFFICES ASSUME to = "anthropic" PROVE Within(r.heard, "finish")
            OBVIOUS
          <6>1. PICK j \in 1..off[taken] : said[j].is = "finish"
            BY <3>5, <5>1
          <6>2. j \in 1..Len(r.heard)
            BY <3>3, <3>5, <4>3
          <6>3. j \in DOMAIN r.heard /\ r.heard[j] = said[j]
            BY <3>3, <6>2, LenProperties DEF Begins
          <6> QED
            BY <6>1, <6>3 DEF Within
        <5>4. PICK next : Passed(c, r, next)
          <6>1. r.client.begun
            BY <3>7, <4>3, <5>1, <5>2
          <6> QED
            BY <1>2, <1>4, <3>0, <3>3, <3>5, <5>2, <5>3, <6>1, OnePassed
        <5>5. Len(next.heard) = Len(r.heard)
          BY <3>3, <5>2, <5>4, PassedHeard
        <5>6. todo' = <<>> /\ Len(todo') = 0 + 0 /\ Len(next.heard) + 0 = off[taken]
          BY <1>2, <2>1, <3>3, <3>5, <4>3, <5>1, <5>5
        <5>7. \A i \in 1..0 : Stands(todo'[i], said[Len(next.heard) + i])
          OBVIOUS
        <5>8. Moved(c, r, next, off[taken], 0, 0, z)
          BY <3>5, <4>3, <5>1, <5>2, <5>4, <5>6, <5>7 DEF Moved
        <5> QED
          BY <5>8
      <4> QED
        BY <4>1, <4>2, <4>3
    <3>9. PICK next : Moved(c, r, next, off[taken], m, y, z)
      BY <3>8
    <3>10. /\ Passed(c, r, next)
           /\ Len(todo') = m + y /\ Len(next.heard) + m = off[taken]
           /\ \A i \in 1..m : Stands(todo'[i], said[Len(next.heard) + i])
           /\ y = 1 => z = 1 /\ IsEnd(todo'[m + 1])
           /\ c.is = "terminal" <=> z = 1 /\ y = 0
           /\ c.is = "terminal" => todo' = <<>>
           /\ IF taken = 0 THEN c.is # "start" ELSE translator.started \/ c.is = "start"
      BY <3>9 DEF Moved
    <3>11. PICK u : u = translator'
      OBVIOUS
    <3>12. /\ Agree(u, next) /\ Steps(r, Frames(c), next)
           /\ u.started <=> translator.started \/ c.is = "start"
           /\ next.client.done <=> c.is = "terminal" /\ to # "gemini"
      <4>1. Encoded(c).started <=> translator.started \/ c.is = "start"
        BY <1>2, EncodedFields
      <4> QED
        BY <2>1, <3>10, <3>11, <4>1 DEF Passed
    <3>13. Agree(translator, next)'
      <4>1. Agree(u, next)'
        BY <2>2, <3>12, SameUpstream
      <4> QED
        BY <3>11, <4>1
    <3>14. PICK v : Way(v, draft \o Frames(c)) /\ v[Len(draft \o Frames(c))] = next
      <4>1. Leads(draft \o Frames(c), next)
        BY <1>2, <3>3, <3>12, WayExtends
      <4> QED
        BY <4>1 DEF Leads
    <3>15. Way(v, draft)' /\ v[Len(draft')] = next
      <4>1. PICK d : d = draft'
        OBVIOUS
      <4>2. Way(v, d) /\ v[Len(d)] = next
        BY <2>1, <3>14, <4>1
      <4>3. Way(v, d)'
        BY <2>2, <4>2, SameUpstream DEF Way
      <4> QED
        BY <4>1, <4>2, <4>3
    <3>16. Rest(next, off[taken], 0, m, y)'
      <4>1. /\ Len(todo') = 0 + m + y /\ Len(next.heard) + m = off[taken']
            /\ 0 # 1
        BY <2>2, <3>10
      <4>2. \A i \in 1..m : Stands(todo[0 + i], said[Len(next.heard) + i])'
        <5> TAKE i \in 1..m
        <5>1. PICK g : g = todo'[i]
          OBVIOUS
        <5>2. Stands(g, said[Len(next.heard) + i])
          BY <3>10, <5>1
        <5>3. Stands(g, said[Len(next.heard) + i])'
          BY <2>2, <5>2 DEF Stands, Place
        <5>4. 0 + i = i
          OBVIOUS
        <5> QED
          BY <5>1, <5>3, <5>4
      <4>3. y = 1 => /\ IsEnd(todo'[0 + m + 1]) /\ EndTaken'
                     /\ to' = "anthropic" => \E j \in 1..off[taken'] : said'[j].is = "finish"
        <5>1. 0 + m + 1 = m + 1
          OBVIOUS
        <5> QED
          BY <2>2, <2>3, <3>5, <3>10, <5>1
      <4>4. next.client.done <=> to' # "gemini" /\ EndTaken' /\ y = 0
        <5>1. CASE z = 0
          BY <2>2, <2>3, <3>5, <3>10, <3>12, <5>1
        <5>2. CASE z = 1
          BY <2>2, <2>3, <3>5, <3>10, <3>12, <5>2
        <5> QED
          BY <5>1, <5>2
      <4>5. next.client.done => todo' = <<>>
        BY <3>10, <3>12
      <4>6. IF taken' = 0 THEN ~translator'.started /\ 0 = 0 ELSE translator'.started \/ 0 = 1
        BY <2>2, <3>5, <3>10, <3>11, <3>12
      <4> QED
        BY <4>1, <4>2, <4>3, <4>4, <4>5, <4>6 DEF Rest
    <3> QED
      BY <2>2, <3>3, <3>13, <3>15, <3>16 DEF OnCourse
  <2>6. Understands'
    BY <2>2, <2>4, <2>5, SameUpstream DEF Understands
  <2>7. GeminiEnds'
    BY <2>2 DEF CInv, GeminiEnds
  <2> QED
    BY <1>1, <2>2, <2>6, <2>7, SameUpstream DEF CInv
<1> QED
  BY <1>3, <1>4

-----------------------------------------------------------------------------
(***************************************************************************)
(* The invariant and what follows from it.                                 *)
(***************************************************************************)
LEMMA NothingSaid == Grammar(<<>>)
<1>1. DOMAIN <<>> = {}
  OBVIOUS
<1> QED
  BY <1>1 DEF Grammar, FinishLast, Numbered, ArgumentsFollow

LEMMA InitUnderstood ==
  ASSUME Init
  PROVE  CInv
<1> DEFINE off == [x \in {0} |-> 0]
           r == [client |-> client, heard |-> heard]
           w == [x \in {0} |-> r]
<1>1. /\ IInv /\ TypeOK /\ events = <<>> /\ said = <<>> /\ heard = <<>> /\ todo = <<>> /\ draft = <<>>
      /\ taken = 0 /\ ~terminalSeen /\ body = "open"
      /\ ~translator.started /\ ~translator.sawTool /\ translator.active = 0
      /\ client.begun <=> to = "gemini"
      /\ client.open = 0 /\ client.names = {} /\ ~client.done /\ ~client.lost
      /\ client \in Client /\ heard \in Seq(Piece)
  BY InitInv DEF Init, IInv, TypeOK
<1>2. Len(<<>>) = 0 /\ DOMAIN <<>> = {} /\ 0..0 = {0}
  OBVIOUS
<1>3. Grammar(said) /\ Vendor
  BY <1>1, <1>2, NothingSaid DEF Vendor, Counted
<1>4. Laid(off, events, said)
  <2>1. off \in [0..Len(events) -> 0..Len(said)] /\ off[0] = 0
    BY <1>1, <1>2
  <2> HIDE DEF off
  <2> QED
    BY <1>1, <1>2, <2>1 DEF Laid
<1>5. Begins(heard, said)
  BY <1>1, <1>2 DEF Begins
<1>6. r.client = client /\ r.heard = heard /\ Right(r)
  BY <1>1, <1>5 DEF Right, Reader
<1>7. Way(w, draft) /\ w[Len(draft)] = r
  <2>1. DOMAIN w = 0..0 /\ w[0] = r
    BY <1>2
  <2> HIDE DEF w
  <2>2. \A i \in 0..0 : Right(w[i])
    BY <1>2, <1>6, <2>1
  <2> QED
    BY <1>1, <1>2, <2>1, <2>2 DEF Way
<1>8. off[taken] = 0
  BY <1>1
<1> HIDE DEF off, w, r
<1>9. Agree(translator, r)
  <2>1. ~Within(heard, "call") /\ ChatNames(heard) = {}
    BY <1>1, <1>2 DEF Within, ChatNames
  <2>2. Blocks(translator, {}, heard)
    BY <1>1 DEF Blocks
  <2> QED
    BY <1>1, <1>6, <2>1, <2>2 DEF Agree
<1>10. ~EndTaken
  BY <1>1 DEF EndTaken
<1>11. Rest(r, off[taken], 0, 0, 0)
  BY <1>1, <1>2, <1>6, <1>8, <1>10 DEF Rest
<1>12. OnCourse(off, w)
  BY <1>1, <1>7, <1>9, <1>10, <1>11 DEF OnCourse
<1>13. Understands
  BY <1>1, <1>4, <1>5, <1>12 DEF Understands
<1> QED
  BY <1>1, <1>3, <1>13 DEF CInv, GeminiEnds

LEMMA StutterUnderstood ==
  ASSUME CInv, UNCHANGED vars
  PROVE  CInv'
<1>1. IInv'
  BY DEF CInv, vars, IInv, TypeOK, Drained, NothingLeft, OnItsWay, EndIn, Marked, Ended,
         upstream, sse, reader
<1>2. GeminiEnds'
  BY DEF CInv, GeminiEnds, vars, upstream, sse
<1>3. Grammar(said)' /\ Vendor' /\ Understands'
  BY ReadsOnUnderstood DEF vars, sse
<1> QED
  BY <1>1, <1>2, <1>3 DEF CInv

LEMMA ClientInductive == Spec => []CInv
<1>1. Init => CInv
  BY InitUnderstood
<1>2. CInv /\ [Next]_vars => CInv'
  <2> SUFFICES ASSUME CInv, [Next]_vars PROVE CInv'
    OBVIOUS
  <2>1. CASE Say \/ Close
    BY <2>1, SpeakUnderstood
  <2>2. CASE ReadChunk \/ ReadFails \/ ReadEnds
    BY <2>2, ReadUnderstood
  <2>3. CASE TakeEvent
    BY <2>3, TakeUnderstood
  <2>4. CASE EndOfStream
    BY <2>4, EndUnderstood
  <2>5. CASE Encode
    BY <2>5, EncodeUnderstood
  <2>6. CASE Deliver
    BY <2>6, DeliverUnderstood
  <2>7. CASE UNCHANGED vars
    BY <2>7, StutterUnderstood
  <2> QED
    BY <2>1, <2>2, <2>3, <2>4, <2>5, <2>6, <2>7 DEF Next, Relay
<1> QED
  BY <1>1, <1>2, PTL DEF Spec

(* However long the stream and wherever its bytes are cut: the flags of    *)
(* StreamTranslator open, number and close blocks and name calls so that   *)
(* the client can follow every frame, in all but five kinds of stream.     *)
THEOREM FollowsHeld == Spec => []ClientFollows
<1>1. CInv => ClientFollows
  BY DEF CInv, Understands, ClientFollows
<1> QED
  BY <1>1, ClientInductive, PTL

(* And what the client understands is what was said so far, each fragment  *)
(* for its call and in its place, with the reason for which it stopped:    *)
(* decode, remember and encode lose, add and reorder nothing.              *)
THEOREM UnderstoodHeld == Spec => []UnderstoodAsSaid
<1>1. CInv => UnderstoodAsSaid
  <2> SUFFICES ASSUME CInv, ~Untranslatable PROVE heard = SubSeq(said, 1, Len(heard))
    BY DEF UnderstoodAsSaid
  <2>1. heard \in Seq(Piece) /\ said \in Seq(Piece) /\ Begins(heard, said)
    BY DEF CInv, IInv, TypeOK, Understands
  <2>2. Len(heard) \in Nat /\ Len(said) \in Nat /\ Len(heard) <= Len(said)
    BY <2>1, LenProperties DEF Begins
  <2> DEFINE part == SubSeq(said, 1, Len(heard))
  <2>3. part \in Seq(Piece) /\ Len(part) = Len(heard) /\ \A i \in 1..Len(heard) : part[i] = said[i]
    <3>1. 1 \in 1..(Len(said) + 1) /\ Len(heard) \in 0..Len(said)
      BY <2>2
    <3>2. /\ part \in Seq(Piece)
          /\ Len(part) = IF 1 <= Len(heard) THEN Len(heard) - 1 + 1 ELSE 0
          /\ \A i \in 1..(Len(heard) - 1 + 1) : part[i] = said[1 + i - 1]
      BY <2>1, <3>1, SubSeqProperties
    <3> HIDE DEF part
    <3> QED
      BY <2>2, <3>2
  <2> HIDE DEF part
  <2>4. part = heard
    BY <2>1, <2>3, SeqEqual DEF Begins
  <2> QED
    BY <2>4 DEF part
<1> QED
  BY <1>1, ClientInductive, PTL

(* A body that ends without an error has told its client all that was said *)
(* and, but for a Gemini client, that the answer is over exactly if the    *)
(* upstream said so: nothing is dropped when translate_sse ends.           *)
THEOREM EndMeansHeld == Spec => []EndMeansAll
<1>1. CInv => EndMeansAll
  <2> SUFFICES ASSUME CInv, body = "closed", ~Untranslatable
               PROVE  /\ heard = said
                      /\ to # "gemini" => (client.done <=> Ended \/ from = "gemini")
    BY DEF EndMeansAll
  <2>1. /\ taken = Len(events) /\ todo = <<>> /\ draft = <<>>
        /\ heard \in Seq(Piece) /\ said \in Seq(Piece) /\ Len(heard) \in Nat
        /\ DOMAIN events = 1..Len(events)
    BY LenProperties DEF CInv, IInv, TypeOK, NothingLeft
  <2>2. PICK off : Laid(off, events, said) /\ Begins(heard, said) /\ \E w : OnCourse(off, w)
    BY DEF CInv, Understands
  <2>3. PICK w : OnCourse(off, w)
    BY <2>2
  <2>4. w[Len(draft)].client = client /\ w[Len(draft)].heard = heard
    BY <2>1, <2>3 DEF OnCourse, Way
  <2>5. PICK r : r = w[Len(draft)]
    OBVIOUS
  <2>6. PICK a \in {0, 1}, z \in {0, 1}, k \in Nat : Rest(r, off[taken], a, k, z)
    BY <2>3, <2>5 DEF OnCourse
  <2>7. z = 0 /\ Len(heard) = off[taken]
    <3>1. r.heard = heard /\ Len(r.heard) \in Nat
      BY <2>1, <2>4, <2>5
    <3>2. z = 0 /\ Len(r.heard) = off[taken]
      BY <2>1, <2>6, <3>1, NothingInTranslation
    <3> QED
      BY <3>1, <3>2
  <2>8. heard = said
    <3>1. Len(heard) = Len(said)
      BY <2>1, <2>2, <2>7 DEF Laid
    <3> QED
      BY <2>1, <2>2, <3>1, SeqEqual DEF Begins
  <2>9. client.done <=> to # "gemini" /\ EndTaken
    BY <2>4, <2>5, <2>6, <2>7 DEF Rest
  <2>10. EndTaken <=> Ended \/ from = "gemini"
    BY <2>1 DEF EndTaken, Ended, CInv, GeminiEnds
  <2> QED
    BY <2>8, <2>9, <2>10
<1> QED
  BY <1>1, ClientInductive, PTL
=============================================================================
