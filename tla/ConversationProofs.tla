------------------------- MODULE ConversationProofs -------------------------
(***************************************************************************)
(* Theorems about StreamTranslate and Conversation.                         *)
(*                                                                          *)
(* Streams: what order of events the client of a translated stream can rely *)
(* on, and that it gets the whole text.                                     *)
(*                                                                          *)
(* Conversations: their streams are streams of StreamTranslate, and over    *)
(* any number of turns the backend finds the text of its answers again, the *)
(* calls of those it gave in one piece with their results, and the client's *)
(* options.  The conversions are loops that                                 *)
(* append, so they are flattened sequences (FlatMap).  What a flattened     *)
(* sequence is follows by an induction that needs no operator as a          *)
(* parameter (Counting); from then on the proofs use three laws only: the   *)
(* conversion of a concatenation is the concatenation of the conversions, a *)
(* list of which every element gives nothing gives nothing, and one of      *)
(* which every element gives one element keeps its places.                  *)
(***************************************************************************)
EXTENDS Conversation, FiniteSetTheorems, SequenceTheorems, WellFoundedInduction, TLAPS

Kinds == {"message_start", "content_block_start", "content_block_delta",
          "content_block_stop", "message_delta", "message_stop",
          "role", "content", "finish", "[DONE]"}

Sent == [event : Kinds, text : Texts \cup {NoText}, tok : Nat]

StreamTypeOK ==
    /\ dir \in Directions
    /\ loop \in {"idle", "open", "finished", "left"}
    /\ started \in BOOLEAN /\ blockStarted \in BOOLEAN /\ done \in BOOLEAN
    /\ pendingEvent \in AnthropicEvents \cup {NoEvent}
    /\ outputTok \in Nat /\ called \in Nat
    /\ out \in Seq(Sent)
    /\ spoken \in Seq(Texts)
    /\ stage \in Stages

\* What a translator remembers is what the backend has said last.
HeardInv ==
    /\ pendingEvent = due
    /\ outputTok = counted

\* Before the closing events an Anthropic client has message_start, the start
\* of the block and deltas, as far as the flags say.
BlockInv ==
    (dir = "toAnthropic" /\ loop # "finished") =>
        /\ ~started => Len(out) = 0 /\ ~blockStarted
        /\ started => Len(out) >= 1 /\ out[1].event = "message_start"
        /\ blockStarted <=> Len(out) >= 2
        /\ blockStarted => out[2].event = "content_block_start"
        /\ \A i \in 3 .. Len(out) : out[i].event = "content_block_delta"

\* The flag done stands for the [DONE] that an OpenAI client has received.
DoneInv ==
    dir = "toOpenAI" /\ done => Len(out) > 0 /\ out[Len(out)].event = "[DONE]"

\* While the backend's events come in order, the stage tells what an OpenAI
\* client has been sent: nothing, the role and content, or finish as well.
OrderInv ==
    (dir = "toOpenAI" /\ stage # "astray") =>
        /\ started <=> stage # "nothing"
        /\ stage # "nothing" => Len(out) >= 1
        /\ stage = "nothing" /\ loop # "finished" => Len(out) = 0
        /\ \A i \in 1 .. Len(out) : out[i].event = "finish" => stage \in {"ending", "ended"}

\* The k-th event with text carries the k-th piece, and there is one for
\* every piece.
TextInv ==
    /\ Cardinality(TextUpTo(out, Len(out))) = Len(spoken)
    /\ \A i \in TextUpTo(out, Len(out)) :
          out[i].text = spoken[Cardinality(TextUpTo(out, i))]
    /\ \A k \in 1 .. Len(spoken) :
          \E i \in TextUpTo(out, Len(out)) : Cardinality(TextUpTo(out, i)) = k

\* A stream that has been closed is in order.
ClosedInv == loop = "finished" => AnthropicEventsInOrder

StreamInv ==
    /\ StreamTypeOK /\ HeardInv /\ BlockInv /\ DoneInv /\ TextInv
    /\ ClosedInv /\ DoneOnceAndLast
    /\ OrderInv /\ OpenAIEventsInOrder

-----------------------------------------------------------------------------
(* The events of one line.                                                 *)

\* Short sequences put together.
LEMMA Joined ==
    ASSUME NEW S
    PROVE  /\ <<>> \o <<>> = <<>>
           /\ \A x \in S : <<x>> \o <<>> = <<x>> /\ <<>> \o <<x>> = <<x>>
           /\ \A x, y \in S : <<x>> \o <<y>> = <<x, y>> /\ <<x, y>> \o <<>> = <<x, y>>
           /\ \A x, y, z \in S : <<x, y>> \o <<z>> = <<x, y, z>>
<1>1. /\ <<>> \in Seq(S) /\ \A x \in S : <<x>> \in Seq(S)
      /\ \A x, y \in S : <<x, y>> \in Seq(S)
  OBVIOUS
<1>2. ASSUME NEW x \in S, NEW y \in S
      PROVE  <<x>> \o <<y>> = <<x, y>>
  <2> DEFINE s == <<x>> \o <<y>>
  <2>1. s \in Seq(S) /\ Len(s) = 2 /\ s[1] = x /\ s[2] = y
    BY <1>1, ConcatProperties
  <2> HIDE DEF s
  <2>2. s = <<x, y>>
    BY <2>1
  <2> QED
    BY <2>2 DEF s
<1>3. ASSUME NEW x \in S, NEW y \in S, NEW z \in S
      PROVE  <<x, y>> \o <<z>> = <<x, y, z>>
  <2> DEFINE s == <<x, y>> \o <<z>>
  <2>1. s \in Seq(S) /\ Len(s) = 3 /\ s[1] = x /\ s[2] = y /\ s[3] = z
    BY <1>1, ConcatProperties
  <2> HIDE DEF s
  <2>2. s = <<x, y, z>>
    BY <2>1
  <2> QED
    BY <2>2 DEF s
<1> QED
  BY <1>1, <1>2, <1>3, ConcatEmptySeq

LEMMA ChunkEventsAre ==
    ASSUME StreamTypeOK, NEW content, NEW text \in Texts \cup {NoText},
           content = "text" <=> text # NoText
    PROVE  LET start == Plain("message_start")
               block == Plain("content_block_start")
               delta == Event("content_block_delta", text, 0)
           IN  /\ {start, block, delta} \subseteq Sent
               /\ ChunkEvents(content, text) =
                    IF ~started
                    THEN IF content = "none" \/ blockStarted
                         THEN IF text = NoText THEN <<start>> ELSE <<start, delta>>
                         ELSE IF text = NoText THEN <<start, block>>
                                               ELSE <<start, block, delta>>
                    ELSE IF content = "none" \/ blockStarted
                         THEN IF text = NoText THEN <<>> ELSE <<delta>>
                         ELSE IF text = NoText THEN <<block>> ELSE <<block, delta>>
<1> DEFINE start == Plain("message_start")
           block == Plain("content_block_start")
           delta == Event("content_block_delta", text, 0)
<1>1. {start, block, delta} \subseteq Sent
  BY DEF Plain, Event, Sent, Kinds
<1> HIDE DEF start, block, delta
<1>2. ChunkEvents(content, text) =
        (IF started THEN <<>> ELSE <<start>>)
        \o (IF content = "none" \/ blockStarted THEN <<>> ELSE <<block>>)
        \o (IF text # NoText THEN <<delta>> ELSE <<>>)
  BY DEF ChunkEvents, start, block, delta
<1>3. ChunkEvents(content, text) =
        IF ~started
        THEN IF content = "none" \/ blockStarted
             THEN IF text = NoText THEN <<start>> ELSE <<start, delta>>
             ELSE IF text = NoText THEN <<start, block>>
                                   ELSE <<start, block, delta>>
        ELSE IF content = "none" \/ blockStarted
             THEN IF text = NoText THEN <<>> ELSE <<delta>>
             ELSE IF text = NoText THEN <<block>> ELSE <<block, delta>>
  <2>1. /\ <<>> \o <<>> = <<>>
        /\ <<start>> \o <<>> = <<start>> /\ <<>> \o <<block>> = <<block>>
        /\ <<block>> \o <<>> = <<block>> /\ <<>> \o <<delta>> = <<delta>>
        /\ <<start>> \o <<block>> = <<start, block>>
        /\ <<start>> \o <<delta>> = <<start, delta>>
        /\ <<block>> \o <<delta>> = <<block, delta>>
        /\ <<start, block>> \o <<>> = <<start, block>>
        /\ <<start, block>> \o <<delta>> = <<start, block, delta>>
    BY <1>1, Joined
  <2>2. CASE started
    BY <1>2, <2>1, <2>2
  <2>3. CASE ~started
    BY <1>2, <2>1, <2>3
  <2> QED
    BY <2>2, <2>3
<1> QED
  BY <1>1, <1>3 DEF start, block, delta

LEMMA EventChunksAre ==
    ASSUME NEW e \in AnthropicEvents \cup {NoEvent}, NEW text \in Texts \cup {NoText},
           NEW tok \in Nat, text # NoText => e = "content_block_delta"
    PROVE  EventChunks(e, text, tok) =
             IF e = "message_start" /\ ~started THEN <<Plain("role")>>
             ELSE IF text # NoText THEN <<Event("content", text, 0)>>
             ELSE IF e = "message_delta" THEN <<Event("finish", NoText, tok)>>
             ELSE IF e = "message_stop" THEN <<Plain("[DONE]")>>
             ELSE <<>>
BY DEF EventChunks

-----------------------------------------------------------------------------
(* The text.                                                               *)

IsText(e) == e.event \in {"content_block_delta", "content"}

LEMMA TextPlaces ==
    ASSUME NEW s, NEW n \in Nat
    PROVE  TextUpTo(s, n) \subseteq 1 .. n /\ IsFiniteSet(TextUpTo(s, n))
<1>1. IsFiniteSet(1 .. n)
  BY FS_Interval
<1>2. TextUpTo(s, n) \subseteq 1 .. n
  BY DEF TextUpTo
<1> QED
  BY <1>1, <1>2, FS_Subset

\* The events sent before stay where they are.
LEMMA OldPlaces ==
    ASSUME StreamTypeOK, NEW es \in Seq(Sent), out' = out \o es
    PROVE  /\ Len(out) \in Nat /\ Len(es) \in Nat
           /\ Len(out') = Len(out) + Len(es)
           /\ \A i \in 1 .. Len(out) : out'[i] = out[i]
           /\ \A i \in 1 .. Len(es) : out'[Len(out) + i] = es[i]
           /\ \A n \in 0 .. Len(out) : TextUpTo(out', n) = TextUpTo(out, n)
<1>1. /\ Len(out) \in Nat /\ Len(es) \in Nat
      /\ Len(out') = Len(out) + Len(es)
      /\ \A i \in 1 .. Len(out) + Len(es) :
            out'[i] = IF i <= Len(out) THEN out[i] ELSE es[i - Len(out)]
  <2>1. out \in Seq(Sent)
    BY DEF StreamTypeOK
  <2>2. /\ Len(out \o es) = Len(out) + Len(es)
        /\ \A i \in 1 .. Len(out) + Len(es) :
              (out \o es)[i] = IF i <= Len(out) THEN out[i] ELSE es[i - Len(out)]
    BY <2>1, ConcatProperties
  <2> QED
    BY <2>1, <2>2
<1>2. \A i \in 1 .. Len(out) : out'[i] = out[i]
  BY <1>1
<1>3. ASSUME NEW i \in 1 .. Len(es)
      PROVE  out'[Len(out) + i] = es[i]
  BY <1>1
<1>4. ASSUME NEW n \in 0 .. Len(out)
      PROVE  TextUpTo(out', n) = TextUpTo(out, n)
  BY <1>1, <1>2 DEF TextUpTo
<1> QED
  BY <1>1, <1>2, <1>3, <1>4

\* Events without text leave the text alone.
LEMMA NoTextAdded ==
    ASSUME StreamTypeOK, TextInv, NEW es \in Seq(Sent), out' = out \o es,
           \A i \in 1 .. Len(es) : ~IsText(es[i]), spoken' = spoken
    PROVE  TextInv'
<1>0. /\ Len(out) \in Nat /\ Len(es) \in Nat
      /\ Len(out') = Len(out) + Len(es)
      /\ \A i \in 1 .. Len(out) : out'[i] = out[i]
      /\ \A i \in 1 .. Len(es) : out'[Len(out) + i] = es[i]
      /\ \A n \in 0 .. Len(out) : TextUpTo(out', n) = TextUpTo(out, n)
  BY OldPlaces
<1>1. TextUpTo(out', Len(out)') = TextUpTo(out, Len(out))
  <2>1. ASSUME NEW i \in 1 .. Len(out'), i > Len(out)
        PROVE  ~IsText(out'[i])
    <3>1. i - Len(out) \in 1 .. Len(es) /\ Len(out) + (i - Len(out)) = i
      BY <1>0, <2>1
    <3>2. out'[Len(out) + (i - Len(out))] = es[i - Len(out)]
      BY <1>0, <3>1
    <3> QED
      BY <3>1, <3>2
  <2> QED
    BY <1>0, <2>1 DEF TextUpTo, IsText
<1>2. \A i \in TextUpTo(out, Len(out)) :
         i \in 1 .. Len(out) /\ out'[i] = out[i] /\ TextUpTo(out', i) = TextUpTo(out, i)
  BY <1>0, TextPlaces
<1> QED
  BY <1>1, <1>2 DEF TextInv

\* A piece of text after events without text is the next piece.
LEMMA TextAdded ==
    ASSUME StreamTypeOK, TextInv, NEW es \in Seq(Sent), out' = out \o es,
           NEW t \in Texts, Len(es) >= 1,
           \A i \in 1 .. Len(es) - 1 : ~IsText(es[i]),
           IsText(es[Len(es)]), es[Len(es)].text = t,
           spoken' = Append(spoken, t)
    PROVE  TextInv'
<1>0. /\ Len(out) \in Nat /\ Len(es) \in Nat
      /\ Len(out') = Len(out) + Len(es)
      /\ \A i \in 1 .. Len(out) : out'[i] = out[i]
      /\ \A i \in 1 .. Len(es) : out'[Len(out) + i] = es[i]
      /\ \A i \in 0 .. Len(out) : TextUpTo(out', i) = TextUpTo(out, i)
  BY OldPlaces
<1> SUFFICES ASSUME NEW n \in Nat, n = Len(out')
             PROVE  TextInv'
  BY <1>0
<1> DEFINE old == TextUpTo(out, Len(out))
<1>1. /\ Len(out) \in Nat /\ n > Len(out)
      /\ n = Len(out) + Len(es) /\ Len(es) \in Nat
  BY <1>0
<1>2. out'[n] = es[Len(es)]
  BY <1>0, <1>1
<1>3. TextUpTo(out', n) = old \cup {n}
  <2>1. ASSUME NEW i \in 1 .. n, i > Len(out), i # n
        PROVE  ~IsText(out'[i])
    <3>1. i - Len(out) \in 1 .. Len(es) - 1 /\ Len(out) + (i - Len(out)) = i
      BY <1>1, <2>1
    <3>2. out'[Len(out) + (i - Len(out))] = es[i - Len(out)]
      BY <1>0, <1>1, <3>1
    <3> QED
      BY <3>1, <3>2
  <2> QED
    BY <1>0, <1>1, <1>2, <2>1 DEF TextUpTo, IsText
<1>4. /\ old \subseteq 1 .. Len(out) /\ n \notin old
      /\ Cardinality(old) = Len(spoken)
      /\ Cardinality(old \cup {n}) = Len(spoken) + 1
  <2>1. old \subseteq 1 .. Len(out) /\ IsFiniteSet(old)
    BY <1>1, TextPlaces
  <2>2. n \notin old
    BY <1>1, <2>1
  <2>3. Cardinality(old \cup {n}) = Cardinality(old) + 1
    BY <2>1, <2>2, FS_AddElement
  <2> QED
    BY <2>1, <2>2, <2>3 DEF TextInv
<1>5. /\ Len(spoken) \in Nat /\ Len(spoken') = Len(spoken) + 1
      /\ \A k \in 1 .. Len(spoken) : spoken'[k] = spoken[k]
      /\ spoken'[Len(spoken) + 1] = t
  <2>1. spoken \in Seq(Texts)
    BY DEF StreamTypeOK
  <2> QED
    BY <2>1
<1>6. \A i \in old :
         /\ i \in 1 .. Len(out) /\ out'[i] = out[i] /\ TextUpTo(out', i) = TextUpTo(out, i)
         /\ Cardinality(TextUpTo(out, i)) \in 1 .. Len(spoken)
  <2> TAKE i \in old
  <2>1. i \in 1 .. Len(out) /\ out'[i] = out[i] /\ TextUpTo(out', i) = TextUpTo(out, i)
    BY <1>0, <1>1, <1>4
  <2>2. TextUpTo(out, i) \subseteq old /\ i \in TextUpTo(out, i)
    BY <1>1, <2>1 DEF TextUpTo
  <2>3. Cardinality(TextUpTo(out, i)) <= Len(spoken) /\ Cardinality(TextUpTo(out, i)) # 0
    BY <1>1, <1>4, <2>1, <2>2, TextPlaces, FS_Subset, FS_EmptySet
  <2>4. Cardinality(TextUpTo(out, i)) \in Nat
    BY <2>1, TextPlaces, FS_CardinalityType
  <2> QED
    BY <2>1, <2>3, <2>4, <1>5
<1>7. TextUpTo(out', Len(out)') = old \cup {n}
  BY <1>3
<1> HIDE DEF old
<1>8. \A i \in old \cup {n} : out'[i].text = spoken'[Cardinality(TextUpTo(out', i))]
  <2>1. out'[n].text = spoken'[Cardinality(TextUpTo(out', n))]
    BY <1>2, <1>3, <1>4, <1>5
  <2>2. ASSUME NEW i \in old
        PROVE  out'[i].text = spoken'[Cardinality(TextUpTo(out', i))]
    BY <1>5, <1>6 DEF TextInv, old
  <2> QED
    BY <2>1, <2>2
<1>9. ASSUME NEW k \in 1 .. Len(spoken) + 1
      PROVE  \E i \in old \cup {n} : Cardinality(TextUpTo(out', i)) = k
  <2>1. CASE k = Len(spoken) + 1
    BY <1>3, <1>4, <2>1
  <2>2. CASE k \in 1 .. Len(spoken)
    BY <1>6, <2>2 DEF TextInv, old
  <2> QED
    BY <1>5, <2>1, <2>2
<1> QED
  BY <1>4, <1>5, <1>7, <1>8, <1>9 DEF TextInv

-----------------------------------------------------------------------------
(* The invariant.                                                          *)

\* A fresh translator and an answer of which nothing has been sent.
LEMMA FreshInv ==
    ASSUME dir \in Directions, loop \in {"idle", "open"},
           started \in BOOLEAN, blockStarted \in BOOLEAN, done \in BOOLEAN,
           ~started, ~blockStarted, ~done,
           pendingEvent = NoEvent, due = NoEvent, outputTok = 0, counted = 0,
           called = 0, stage = "nothing",
           out \in Seq(Sent), Len(out) = 0, spoken \in Seq(Texts), Len(spoken) = 0
    PROVE  StreamInv
<1>1. StreamTypeOK /\ HeardInv /\ BlockInv /\ DoneInv
  BY DEF StreamTypeOK, HeardInv, BlockInv, DoneInv, Stages
<1>2. TextUpTo(out, Len(out)) = {}
  BY DEF TextUpTo
<1>3. TextInv
  <2>1. Cardinality({}) = 0
    BY FS_EmptySet
  <2>2. \A k \in 1 .. Len(spoken) : FALSE
    OBVIOUS
  <2> QED
    BY <1>2, <2>1, <2>2, Zenon DEF TextInv
<1>4. ClosedInv /\ DoneOnceAndLast
  BY DEF ClosedInv, DoneOnceAndLast
<1>5. OrderInv /\ OpenAIEventsInOrder
  BY DEF OrderInv, OpenAIEventsInOrder
<1> QED
  BY <1>1, <1>3, <1>4, <1>5 DEF StreamInv

LEMMA FreshInvNext ==
    (/\ dir \in Directions /\ loop \in {"idle", "open"}
     /\ started \in BOOLEAN /\ blockStarted \in BOOLEAN /\ done \in BOOLEAN
     /\ ~started /\ ~blockStarted /\ ~done
     /\ pendingEvent = NoEvent /\ due = NoEvent /\ outputTok = 0 /\ counted = 0
     /\ called = 0 /\ stage = "nothing"
     /\ out \in Seq(Sent) /\ Len(out) = 0 /\ spoken \in Seq(Texts) /\ Len(spoken) = 0)' => StreamInv'
BY FreshInv, PTL

\* A step that sends nothing and neither begins nor closes a stream.
LEMMA QuietStep ==
    ASSUME StreamInv, dir' = dir, loop' = loop \/ (loop = "open" /\ loop' = "left"),
           UNCHANGED <<started, blockStarted, outputTok, out, heardVars>>,
           done' = done \/ (dir = "toAnthropic" /\ done' = TRUE),
           pendingEvent' = due', due' \in AnthropicEvents \cup {NoEvent}
    PROVE  StreamInv'
<1> USE DEF heardVars
<1>1. StreamTypeOK' /\ HeardInv'
  BY DEF StreamInv, StreamTypeOK, HeardInv
<1>2. BlockInv'
  BY DEF StreamInv, BlockInv
<1>3. DoneInv' /\ TextInv'
  BY DEF StreamInv, DoneInv, TextInv
<1>4. ClosedInv' /\ DoneOnceAndLast'
  BY DEF StreamInv, StreamTypeOK, ClosedInv, AnthropicEventsInOrder, DoneOnceAndLast
<1>5. OrderInv' /\ OpenAIEventsInOrder'
  BY DEF StreamInv, OrderInv, OpenAIEventsInOrder
<1> QED
  BY <1>1, <1>2, <1>3, <1>4, <1>5 DEF StreamInv

LEMMA ChunkStep ==
    ASSUME StreamInv, NEW content \in {"none", "empty", "text"},
           NEW text \in Texts \cup {NoText}, NEW usage \in Tokens \cup {-1},
           NEW call \in {0, 1}, Chunk(content, text, usage, call)
    PROVE  StreamInv'
<1> DEFINE es == ChunkEvents(content, text)
           start == Plain("message_start")
           block == Plain("content_block_start")
           delta == Event("content_block_delta", text, 0)
<1>1. /\ loop = "open" /\ loop' = "open" /\ dir = "toAnthropic" /\ dir' = dir
      /\ content = "text" <=> text # NoText
      /\ out' = out \o es
      /\ started' = TRUE /\ blockStarted' = (blockStarted \/ content # "none")
      /\ done' = done /\ pendingEvent' = pendingEvent /\ due' = due
      /\ outputTok' = IF usage = -1 THEN outputTok ELSE usage
      /\ counted' = IF usage = -1 THEN counted ELSE usage
      /\ spoken' = IF text = NoText THEN spoken ELSE Append(spoken, text)
      /\ called' = called + call /\ stage' = stage
  BY DEF Chunk, Scan, es
<1>2. /\ {start, block, delta} \subseteq Sent
      /\ es = IF ~started
              THEN IF content = "none" \/ blockStarted
                   THEN IF text = NoText THEN <<start>> ELSE <<start, delta>>
                   ELSE IF text = NoText THEN <<start, block>>
                                         ELSE <<start, block, delta>>
              ELSE IF content = "none" \/ blockStarted
                   THEN IF text = NoText THEN <<>> ELSE <<delta>>
                   ELSE IF text = NoText THEN <<block>> ELSE <<block, delta>>
  BY <1>1, ChunkEventsAre DEF StreamInv
<1>3. /\ start.event = "message_start" /\ block.event = "content_block_start"
      /\ delta.event = "content_block_delta" /\ delta.text = text
  BY DEF Plain, Event
<1> HIDE DEF es, start, block, delta
<1>4. es \in Seq(Sent)
  BY <1>2
<1>5. /\ Len(out) \in Nat /\ Len(es) \in Nat
      /\ Len(out') = Len(out) + Len(es)
      /\ \A i \in 1 .. Len(out) : out'[i] = out[i]
      /\ \A i \in 1 .. Len(es) : out'[Len(out) + i] = es[i]
  BY <1>1, <1>4, OldPlaces DEF StreamInv
<1>6. StreamTypeOK' /\ HeardInv'
  <2>1. out' \in Seq(Sent)
    BY <1>1, <1>4 DEF StreamInv, StreamTypeOK
  <2>2. spoken' \in Seq(Texts)
    BY <1>1 DEF StreamInv, StreamTypeOK
  <2> QED
    BY <1>1, <2>1, <2>2, TokensAssumption DEF StreamInv, StreamTypeOK, HeardInv
<1>7. BlockInv'
  <2>0. /\ content \in {"none", "empty", "text"} /\ text # NoText <=> content = "text"
        /\ started \in BOOLEAN /\ blockStarted \in BOOLEAN
        /\ blockStarted' <=> (blockStarted \/ content # "none")
        /\ ~started => Len(out) = 0 /\ ~blockStarted
        /\ started => Len(out) >= 1 /\ out[1].event = "message_start"
        /\ blockStarted <=> Len(out) >= 2
        /\ blockStarted => out[2].event = "content_block_start"
        /\ \A i \in 3 .. Len(out) : out[i].event = "content_block_delta"
    BY <1>1 DEF StreamInv, StreamTypeOK, BlockInv
  <2>1. CASE ~started
    <3>1. /\ Len(es) >= 1 /\ es[1].event = "message_start"
          /\ content # "none" <=> Len(es) >= 2
          /\ content # "none" => es[2].event = "content_block_start"
          /\ \A i \in 3 .. Len(es) : es[i].event = "content_block_delta"
      BY <1>2, <1>3, <2>0, <2>1
    <3>2. Len(out') = Len(es) /\ \A i \in 1 .. Len(es) : out'[i] = es[i]
      BY <1>5, <2>0, <2>1
    <3> QED
      BY <1>1, <1>5, <2>0, <2>1, <3>1, <3>2 DEF BlockInv
  <2>2. CASE started /\ ~blockStarted
    <3>1. Len(out) = 1
      <4>1. Len(out) >= 1 /\ ~(Len(out) >= 2)
        BY <2>0, <2>2
      <4>2. Len(out) \in Nat
        BY <1>5
      <4>3. \A n \in Nat : n >= 1 /\ ~(n >= 2) => n = 1
        OBVIOUS
      <4> QED
        BY <4>1, <4>2, <4>3
    <3>2. /\ content # "none" <=> Len(es) >= 1
          /\ content # "none" => es[1].event = "content_block_start"
          /\ \A i \in 2 .. Len(es) : es[i].event = "content_block_delta"
      BY <1>2, <1>3, <2>0, <2>2
    <3>3. /\ Len(out') = Len(es) + 1 /\ out'[1] = out[1]
          /\ \A i \in 1 .. Len(es) : out'[1 + i] = es[i]
      BY <1>5, <3>1
    <3>4. ASSUME NEW i \in 3 .. Len(out')
          PROVE  out'[i].event = "content_block_delta"
      <4>1. i - 1 \in 2 .. Len(es) /\ i - 1 \in 1 .. Len(es) /\ 1 + (i - 1) = i
        BY <1>5, <3>3
      <4> QED
        BY <3>2, <3>3, <4>1
    <3>5. content # "none" => out'[2].event = "content_block_start"
      BY <1>5, <3>2, <3>3
    <3> QED
      BY <1>1, <1>5, <2>0, <2>2, <3>2, <3>3, <3>4, <3>5 DEF BlockInv
  <2>3. CASE started /\ blockStarted
    <3>1. \A i \in 1 .. Len(es) : es[i].event = "content_block_delta"
      BY <1>2, <1>3, <2>0, <2>3
    <3>2. ASSUME NEW i \in 3 .. Len(out')
          PROVE  out'[i].event = "content_block_delta"
      <4>1. CASE i <= Len(out)
        BY <1>5, <2>0, <4>1
      <4>2. CASE i > Len(out)
        <5>1. i - Len(out) \in 1 .. Len(es) /\ Len(out) + (i - Len(out)) = i
          BY <1>5, <4>2
        <5> QED
          BY <1>5, <3>1, <5>1
      <4> QED
        BY <1>5, <4>1, <4>2
    <3>3. out'[1] = out[1] /\ out'[2] = out[2] /\ Len(out') >= 2
      BY <1>5, <2>0, <2>3
    <3> QED
      BY <1>1, <2>0, <2>3, <3>2, <3>3 DEF BlockInv
  <2> QED
    BY <2>0, <2>1, <2>2, <2>3
<1>8. TextInv'
  <2>1. CASE text = NoText
    <3>1. \A i \in 1 .. Len(es) : ~IsText(es[i])
      BY <1>2, <1>3, <2>1 DEF IsText
    <3> QED
      BY <1>1, <1>4, <2>1, <3>1, NoTextAdded DEF StreamInv
  <2>2. CASE text # NoText
    <3>1. /\ Len(es) >= 1 /\ es[Len(es)] = delta
          /\ \A i \in 1 .. Len(es) - 1 : ~IsText(es[i])
      BY <1>2, <1>3, <2>2 DEF IsText
    <3>2. IsText(es[Len(es)]) /\ es[Len(es)].text = text
      BY <1>3, <3>1 DEF IsText
    <3> QED
      BY <1>1, <1>4, <2>2, <3>1, <3>2, TextAdded DEF StreamInv
  <2> QED
    BY <2>1, <2>2
<1>9. /\ DoneInv' /\ ClosedInv' /\ DoneOnceAndLast'
      /\ OrderInv' /\ OpenAIEventsInOrder'
  BY <1>1 DEF DoneInv, ClosedInv, DoneOnceAndLast, OrderInv, OpenAIEventsInOrder
<1> QED
  BY <1>6, <1>7, <1>8, <1>9 DEF StreamInv

\* An event more for an OpenAI client keeps the order: the role is the first
\* thing it is sent, and nothing but [DONE] comes after finish.
LEMMA OneMoreInOrder ==
    ASSUME StreamTypeOK, OpenAIEventsInOrder, dir = "toOpenAI", stage # "astray",
           NEW x \in Sent, Len(out') = Len(out) + 1, out'[Len(out) + 1] = x,
           \A i \in 1 .. Len(out) : out'[i] = out[i],
           Len(out) = 0 => /\ x.event = "role" <=> stage' # "nothing"
                           /\ x.event \notin {"content", "finish"},
           Len(out) > 0 => x.event # "role" /\ stage # "nothing" /\ stage' # "nothing",
           x.event # "[DONE]" => \A i \in 1 .. Len(out) : out[i].event # "finish"
    PROVE  OpenAIEventsInOrder'
<1> DEFINE n == Len(out)
<1>0. n \in Nat
  BY DEF StreamTypeOK
<1>1. \A i \in 1 .. n :
        /\ out[i].event = "role" <=> (i = 1 /\ stage # "nothing")
        /\ out[i].event = "content" => i > 1
        /\ out[i].event = "finish" =>
              i > 1 /\ \A k \in i + 1 .. n : out[k].event = "[DONE]"
  BY DEF OpenAIEventsInOrder
<1>2. Len(out)' = n + 1
  OBVIOUS
<1> HIDE DEF n
<1>3. ASSUME NEW i \in 1 .. n + 1
      PROVE  /\ out'[i].event = "role" <=> (i = 1 /\ stage' # "nothing")
             /\ out'[i].event = "content" => i > 1
             /\ out'[i].event = "finish" =>
                   i > 1 /\ \A k \in i + 1 .. n + 1 : out'[k].event = "[DONE]"
  <2>1. CASE i = n + 1
    <3>1. out'[i] = x /\ (i = 1 <=> n = 0) /\ (n # 0 => n > 0 /\ i > 1)
      BY <1>0, <2>1 DEF n
    <3>2. \A k \in i + 1 .. n + 1 : FALSE
      BY <1>0, <2>1
    <3> QED
      BY <3>1, <3>2 DEF n
  <2>2. CASE i \in 1 .. n
    <3>1. out'[i] = out[i] /\ n > 0
      BY <1>0, <2>2 DEF n
    <3>2. stage # "nothing" /\ stage' # "nothing"
      BY <3>1 DEF n
    <3>3. ASSUME out[i].event = "finish", NEW k \in i + 1 .. n + 1
          PROVE  out'[k].event = "[DONE]"
      <4>1. CASE k = n + 1
        BY <2>2, <3>3, <4>1 DEF n
      <4>2. CASE k \in i + 1 .. n
        <5>1. k \in 1 .. n
          BY <1>0, <2>2, <4>2
        <5> QED
          BY <1>1, <2>2, <3>3, <4>2, <5>1 DEF n
      <4> QED
        BY <1>0, <4>1, <4>2
    <3> QED
      BY <1>1, <2>2, <3>1, <3>2, <3>3
  <2> QED
    BY <1>0, <2>1, <2>2
<1> QED
  BY <1>2, <1>3 DEF OpenAIEventsInOrder

LEMMA DataStep ==
    ASSUME StreamInv, NEW text \in Texts \cup {NoText},
           NEW usage \in Tokens \cup {-1}, NEW call \in {0, 1},
           DataLine(text, usage, call)
    PROVE  StreamInv'
<1> DEFINE tok == IF pendingEvent = "message_delta" /\ usage # -1
                  THEN usage ELSE outputTok
           es == EventChunks(pendingEvent, text, tok)
           role == Plain("role")
           piece == Event("content", text, 0)
           end == Event("finish", NoText, tok)
           last == Plain("[DONE]")
<1>1. /\ loop = "open" /\ loop' = "open" /\ dir = "toOpenAI" /\ dir' = dir
      /\ ~done /\ done' = (done \/ pendingEvent = "message_stop")
      /\ text # NoText => due = "content_block_delta"
      /\ usage # -1 => due = "message_delta"
      /\ out' = out \o es
      /\ started' = (started \/ pendingEvent = "message_start")
      /\ blockStarted' = blockStarted
      /\ pendingEvent' = NoEvent /\ due' = NoEvent
      /\ outputTok' = tok
      /\ counted' = IF usage = -1 THEN counted ELSE usage
      /\ spoken' = IF text = NoText THEN spoken ELSE Append(spoken, text)
      /\ called' = called + call /\ stage' = StageAfter(due)
  BY DEF DataLine, Scan, tok, es
<1>2. /\ pendingEvent = due /\ outputTok = counted
      /\ pendingEvent \in AnthropicEvents \cup {NoEvent} /\ tok \in Nat
      /\ done \in BOOLEAN
  BY TokensAssumption DEF StreamInv, StreamTypeOK, HeardInv, tok
<1>3. /\ {role, piece, end, last} \subseteq Sent
      /\ role.event = "role" /\ last.event = "[DONE]"
      /\ piece.event = "content" /\ piece.text = text /\ end.event = "finish"
  BY <1>2 DEF Plain, Event, Sent, Kinds
<1>after. StageAfter(due) \in Stages
  BY DEF StreamInv, StreamTypeOK, StageAfter, Stages
<1>4. es = IF pendingEvent = "message_start" /\ ~started THEN <<role>>
           ELSE IF text # NoText THEN <<piece>>
           ELSE IF pendingEvent = "message_delta" THEN <<end>>
           ELSE IF pendingEvent = "message_stop" THEN <<last>>
           ELSE <<>>
  <2> HIDE DEF tok
  <2>1. text # NoText => pendingEvent = "content_block_delta"
    BY <1>1, <1>2
  <2> QED
    BY <1>2, <2>1, EventChunksAre DEF es, role, piece, end, last
<1>5. outputTok' = counted'
  BY <1>1, <1>2 DEF tok
<1> HIDE DEF tok, es, role, piece, end, last
<1>6. es \in Seq(Sent)
  BY <1>3, <1>4
<1>7. /\ Len(out) \in Nat /\ Len(es) \in Nat
      /\ Len(out') = Len(out) + Len(es)
      /\ \A i \in 1 .. Len(out) : out'[i] = out[i]
      /\ \A i \in 1 .. Len(es) : out'[Len(out) + i] = es[i]
  BY <1>1, <1>6, OldPlaces DEF StreamInv
<1>8. StreamTypeOK' /\ HeardInv'
  <2>1. out' \in Seq(Sent)
    BY <1>1, <1>6 DEF StreamInv, StreamTypeOK
  <2>2. spoken' \in Seq(Texts)
    BY <1>1 DEF StreamInv, StreamTypeOK
  <2> QED
    BY <1>1, <1>2, <1>5, <1>after, <2>1, <2>2 DEF StreamInv, StreamTypeOK, HeardInv
<1>9. TextInv'
  <2>1. CASE text = NoText
    <3>1. \A i \in 1 .. Len(es) : ~IsText(es[i])
      BY <1>3, <1>4, <2>1 DEF IsText
    <3> QED
      BY <1>1, <1>6, <2>1, <3>1, NoTextAdded DEF StreamInv
  <2>2. CASE text # NoText
    <3>1. es = <<piece>>
      BY <1>1, <1>2, <1>4, <2>2
    <3>2. Len(es) = 1 /\ es[1] = piece
      BY <3>1
    <3>3. /\ Len(es) >= 1 /\ IsText(es[Len(es)]) /\ es[Len(es)].text = text
          /\ \A i \in 1 .. Len(es) - 1 : ~IsText(es[i])
      BY <1>3, <3>2 DEF IsText
    <3>4. text \in Texts /\ spoken' = Append(spoken, text)
      BY <1>1, <2>2
    <3> QED
      BY <1>1, <1>6, <3>3, <3>4, TextAdded DEF StreamInv
  <2> QED
    BY <2>1, <2>2
<1>10. DoneInv' /\ DoneOnceAndLast'
  <2>1. \A i \in 1 .. Len(out) : out[i].event # "[DONE]"
    BY <1>1 DEF StreamInv, DoneOnceAndLast
  <2>2. CASE pendingEvent = "message_stop"
    <3>1. es = <<last>>
      BY <1>1, <1>2, <1>4, <2>2
    <3>2. Len(out') = Len(out) + 1 /\ out'[Len(out) + 1] = last
      BY <1>7, <3>1
    <3>3. ASSUME NEW i \in 1 .. Len(out'), out'[i].event = "[DONE]"
          PROVE  i = Len(out')
      BY <1>7, <2>1, <3>2, <3>3
    <3>4. Len(out') > 0 /\ out'[Len(out')].event = "[DONE]"
      BY <1>3, <1>7, <3>2
    <3>5. done'
      BY <1>1, <2>2
    <3> QED
      BY <1>1, <3>3, <3>4, <3>5 DEF DoneInv, DoneOnceAndLast
  <2>3. CASE pendingEvent # "message_stop"
    <3>1. \A i \in 1 .. Len(es) : es[i].event # "[DONE]"
      BY <1>3, <1>4, <2>3
    <3>2. ASSUME NEW i \in 1 .. Len(out')
          PROVE  out'[i].event # "[DONE]"
      <4>1. CASE i <= Len(out)
        BY <1>7, <2>1, <4>1
      <4>2. CASE i > Len(out)
        <5>1. i - Len(out) \in 1 .. Len(es) /\ Len(out) + (i - Len(out)) = i
          BY <1>7, <4>2
        <5>2. out'[Len(out) + (i - Len(out))] = es[i - Len(out)]
          BY <1>7, <5>1
        <5> QED
          BY <3>1, <5>1, <5>2
      <4> QED
        BY <1>7, <4>1, <4>2
    <3> QED
      BY <1>1, <2>3, <3>2 DEF DoneInv, DoneOnceAndLast
  <2> QED
    BY <2>2, <2>3
<1>11. BlockInv' /\ ClosedInv'
  BY <1>1 DEF BlockInv, ClosedInv
<1>12. CASE stage' = "astray"
  <2>1. OrderInv' /\ OpenAIEventsInOrder'
    BY <1>12 DEF OrderInv, OpenAIEventsInOrder
  <2> QED
    BY <1>8, <1>9, <1>10, <1>11, <2>1 DEF StreamInv
<1>13. CASE stage' # "astray"
  <2>0. /\ stage # "astray" /\ started \in BOOLEAN
        /\ started <=> stage # "nothing"
        /\ stage # "nothing" => Len(out) >= 1
        /\ stage = "nothing" => Len(out) = 0
        /\ \A i \in 1 .. Len(out) : out[i].event = "finish" => stage \in {"ending", "ended"}
    <3>1. stage # "astray"
      BY <1>1, <1>13 DEF StageAfter
    <3> QED
      BY <1>1, <3>1 DEF StreamInv, StreamTypeOK, OrderInv
  <2>1. ASSUME es = <<>>
        PROVE  OrderInv' /\ OpenAIEventsInOrder'
    <3>1. out' = out
      BY <1>1, <2>1, ConcatEmptySeq DEF StreamInv, StreamTypeOK
    <3>2. stage' = stage /\ started' = started
      BY <1>1, <1>2, <1>4, <1>13, <2>0, <2>1 DEF StageAfter, AnthropicEvents
    <3> QED
      BY <1>1, <3>1, <3>2 DEF StreamInv, OrderInv, OpenAIEventsInOrder
  <2>2. ASSUME NEW x \in {role, piece, end, last}, es = <<x>>
        PROVE  OrderInv' /\ OpenAIEventsInOrder'
    <3>1. Len(out') = Len(out) + 1 /\ out'[Len(out) + 1] = x
      BY <1>7, <2>2
    <3>2. /\ x = role => stage = "nothing" /\ stage' = "begun" /\ started'
          /\ x = piece => stage = "begun" /\ stage' = "begun" /\ started'
          /\ x = end => stage = "begun" /\ stage' = "ending" /\ started'
          /\ x = last => stage \in {"begun", "ending"} /\ stage' = "ended" /\ started'
      BY <1>1, <1>2, <1>3, <1>4, <1>13, <2>0, <2>2 DEF StageAfter
    <3>3. \A i \in 1 .. Len(out') : i = Len(out) + 1 \/ i \in 1 .. Len(out)
      BY <1>7, <3>1
    <3>4. OrderInv'
      BY <1>1, <1>3, <1>7, <2>0, <3>1, <3>2, <3>3 DEF OrderInv
    <3>5. OpenAIEventsInOrder'
      BY <1>1, <1>3, <1>7, <1>13, <2>0, <3>1, <3>2, OneMoreInOrder DEF StreamInv
    <3> QED
      BY <3>4, <3>5
  <2>3. es = <<>> \/ \E x \in {role, piece, end, last} : es = <<x>>
    BY <1>4
  <2>4. OrderInv' /\ OpenAIEventsInOrder'
    BY <2>1, <2>2, <2>3
  <2> QED
    BY <1>8, <1>9, <1>10, <1>11, <2>4 DEF StreamInv
<1> QED
  BY <1>12, <1>13

\* The closing events are the last ones.
LEMMA FinishStep ==
    ASSUME StreamInv, Finish
    PROVE  StreamInv'
<1> DEFINE stop == Plain("content_block_stop")
           total == Event("message_delta", NoText, outputTok)
           end == Plain("message_stop")
           last == Plain("[DONE]")
           es == IF dir = "toAnthropic"
                 THEN IF blockStarted THEN <<stop, total, end>> ELSE <<total, end>>
                 ELSE IF done THEN <<>> ELSE <<last>>
<1>1. /\ loop = "open" /\ loop' = "finished"
      /\ dir' = dir /\ dir \in Directions
      /\ started' = started /\ blockStarted' = blockStarted /\ done' = done
      /\ pendingEvent' = pendingEvent /\ due' = due
      /\ outputTok' = outputTok /\ counted' = counted /\ spoken' = spoken
      /\ called' = called /\ stage' = stage
      /\ started \in BOOLEAN /\ blockStarted \in BOOLEAN /\ done \in BOOLEAN
      /\ outputTok \in Nat
  BY DEF Finish, translator, backendVars, heardVars, StreamInv, StreamTypeOK
<1>2. /\ {stop, total, end, last} \subseteq Sent
      /\ stop.event = "content_block_stop" /\ total.event = "message_delta"
      /\ end.event = "message_stop" /\ last.event = "[DONE]"
  BY <1>1 DEF Plain, Event, Sent, Kinds
<1>3. out' = out \o es
  <2> HIDE DEF stop, total, end, last
  <2>1. <<stop>> \o <<total, end>> = <<stop, total, end>>
    <3> DEFINE s == <<stop>> \o <<total, end>>
    <3>1. s \in Seq(Sent) /\ Len(s) = 3 /\ s[1] = stop /\ s[2] = total /\ s[3] = end
      <4>1. <<stop>> \in Seq(Sent) /\ <<total, end>> \in Seq(Sent)
        BY <1>2
      <4> QED
        BY <4>1, ConcatProperties
    <3> HIDE DEF s
    <3>2. s = <<stop, total, end>>
      BY <3>1
    <3> QED
      BY <3>2 DEF s
  <2>2. <<>> \o <<total, end>> = <<total, end>>
    <3>1. <<total, end>> \in Seq(Sent)
      BY <1>2
    <3> QED
      BY <3>1, ConcatEmptySeq
  <2>3. AnthropicFinish = IF blockStarted THEN <<stop, total, end>> ELSE <<total, end>>
    BY <2>1, <2>2 DEF AnthropicFinish, stop, total, end
  <2>4. OpenAIFinish = IF done THEN <<>> ELSE <<last>>
    BY DEF OpenAIFinish, last
  <2>5. out' = out \o (IF dir = "toAnthropic" THEN AnthropicFinish ELSE OpenAIFinish)
    BY DEF Finish
  <2> QED
    BY <2>3, <2>4, <2>5
<1> HIDE DEF stop, total, end, last
<1>4. es \in Seq(Sent)
  BY <1>2
<1>shape. es = IF dir = "toAnthropic"
               THEN IF blockStarted THEN <<stop, total, end>> ELSE <<total, end>>
               ELSE IF done THEN <<>> ELSE <<last>>
  OBVIOUS
<1> HIDE DEF es
<1>5. /\ Len(out) \in Nat /\ Len(es) \in Nat
      /\ Len(out') = Len(out) + Len(es)
      /\ \A i \in 1 .. Len(out) : out'[i] = out[i]
      /\ \A i \in 1 .. Len(es) : out'[Len(out) + i] = es[i]
  BY <1>3, <1>4, OldPlaces DEF StreamInv
<1>6. StreamTypeOK' /\ HeardInv'
  <2>1. out' \in Seq(Sent)
    BY <1>3, <1>4 DEF StreamInv, StreamTypeOK
  <2> QED
    BY <1>1, <2>1 DEF StreamInv, StreamTypeOK, HeardInv
<1>7. TextInv'
  <2>1. \A i \in 1 .. Len(es) : ~IsText(es[i])
    BY <1>2, <1>shape DEF IsText
  <2> QED
    BY <1>1, <1>3, <1>4, <2>1, NoTextAdded DEF StreamInv
<1>8. BlockInv'
  BY <1>1 DEF BlockInv
<1>9. CASE dir = "toAnthropic"
  <2>1. /\ DoneInv' /\ DoneOnceAndLast'
        /\ OrderInv' /\ OpenAIEventsInOrder'
    BY <1>1, <1>9 DEF DoneInv, DoneOnceAndLast, OrderInv, OpenAIEventsInOrder
  <2>2. ASSUME started
        PROVE  AnthropicEventsInOrder'
    <3>0. /\ Len(out) >= 1 /\ out[1].event = "message_start"
          /\ blockStarted <=> Len(out) >= 2
          /\ blockStarted => out[2].event = "content_block_start"
          /\ \A i \in 3 .. Len(out) : out[i].event = "content_block_delta"
      BY <1>1, <1>9, <2>2 DEF StreamInv, BlockInv
    <3>1. CASE blockStarted
      <4>1. Len(es) = 3 /\ es[1] = stop /\ es[2] = total /\ es[3] = end
        BY <1>9, <1>shape, <3>1
      <4>2. /\ Len(out') = Len(out) + 3 /\ out'[1] = out[1] /\ out'[2] = out[2]
            /\ \A i \in 3 .. Len(out) : out'[i].event = "content_block_delta"
            /\ out'[Len(out) + 1] = stop /\ out'[Len(out) + 2] = total
            /\ out'[Len(out) + 3] = end
        BY <1>5, <3>0, <3>1, <4>1
      <4>3. loop' = "finished" /\ dir' = "toAnthropic" /\ started'
        BY <1>1, <1>9, <2>2
      <4>4. \A i \in 1 .. Len(out') :
              \/ i \in {1, 2, Len(out) + 1, Len(out) + 2, Len(out) + 3}
              \/ i \in 3 .. Len(out)
        BY <1>5, <4>2
      <4> QED
        BY <1>2, <1>5, <3>0, <3>1, <4>2, <4>3, <4>4 DEF AnthropicEventsInOrder
    <3>2. CASE ~blockStarted
      <4>1. Len(es) = 2 /\ es[1] = total /\ es[2] = end
        BY <1>9, <1>shape, <3>2
      <4>2. Len(out) = 1
        <5>1. \A n \in Nat : n >= 1 /\ ~(n >= 2) => n = 1
          OBVIOUS
        <5> QED
          BY <1>5, <3>0, <3>2, <5>1
      <4>3. /\ Len(out') = 3 /\ out'[1] = out[1]
            /\ out'[2] = total /\ out'[3] = end
        BY <1>5, <4>1, <4>2
      <4> QED
        BY <1>1, <1>2, <3>0, <4>3 DEF AnthropicEventsInOrder
    <3> QED
      BY <3>1, <3>2
  <2>3. ClosedInv'
    BY <1>1, <2>2 DEF ClosedInv, AnthropicEventsInOrder
  <2> QED
    BY <1>6, <1>7, <1>8, <2>1, <2>3 DEF StreamInv
<1>10. CASE dir = "toOpenAI"
  <2>1. ClosedInv'
    BY <1>1, <1>10 DEF ClosedInv, AnthropicEventsInOrder
  <2>2. CASE done
    <3>1. es = <<>>
      BY <1>10, <1>shape, <2>2
    <3>2. out' = out
      BY <1>3, <3>1, ConcatEmptySeq DEF StreamInv, StreamTypeOK
    <3>3. Len(out) > 0 /\ out[Len(out)].event = "[DONE]"
      BY <1>10, <2>2 DEF StreamInv, DoneInv
    <3>4. \A i \in 1 .. Len(out) : out[i].event = "[DONE]" => i = Len(out)
      BY <1>10 DEF StreamInv, DoneOnceAndLast
    <3>5. out # <<>>
      BY <3>3
    <3>6. DoneOnceAndLast'
      BY <1>1, <3>2, <3>3, <3>4, <3>5 DEF DoneOnceAndLast
    <3>7. DoneInv'
      BY <1>1, <3>2, <3>3 DEF DoneInv
    <3>8. OrderInv' /\ OpenAIEventsInOrder'
      BY <1>1, <3>2 DEF StreamInv, OrderInv, OpenAIEventsInOrder
    <3> QED
      BY <1>6, <1>7, <1>8, <2>1, <3>6, <3>7, <3>8 DEF StreamInv
  <2>3. CASE ~done
    <3>1. Len(es) = 1 /\ es[1] = last
      BY <1>10, <1>shape, <2>3
    <3>2. \A i \in 1 .. Len(out) : out[i].event # "[DONE]"
      BY <1>1, <1>10, <2>3 DEF StreamInv, DoneOnceAndLast
    <3>3. Len(out') = Len(out) + 1 /\ out'[Len(out) + 1] = last
      BY <1>5, <3>1
    <3>4. ASSUME NEW i \in 1 .. Len(out'), out'[i].event = "[DONE]"
          PROVE  i = Len(out')
      BY <1>5, <3>2, <3>3, <3>4
    <3>5. Len(out') > 0 /\ out'[Len(out')].event = "[DONE]"
      BY <1>2, <1>5, <3>3
    <3>6. out' # <<>>
      BY <3>5
    <3>7. DoneOnceAndLast'
      BY <1>1, <3>4, <3>5, <3>6 DEF DoneOnceAndLast
    <3>8. DoneInv'
      BY <1>1, <2>3 DEF DoneInv
    <3>9. OrderInv' /\ OpenAIEventsInOrder'
      <4>1. CASE stage = "astray"
        BY <1>1, <4>1 DEF OrderInv, OpenAIEventsInOrder
      <4>2. CASE stage # "astray"
        <5>1. /\ started <=> stage # "nothing"
              /\ stage # "nothing" => Len(out) >= 1
              /\ stage = "nothing" => Len(out) = 0
              /\ \A i \in 1 .. Len(out) :
                    out[i].event = "finish" => stage \in {"ending", "ended"}
          BY <1>1, <1>10, <4>2 DEF StreamInv, OrderInv
        <5>2. \A i \in 1 .. Len(out') : i = Len(out) + 1 \/ i \in 1 .. Len(out)
          BY <1>5, <3>3
        <5>3. OrderInv'
          BY <1>1, <1>2, <1>5, <3>3, <5>1, <5>2 DEF OrderInv
        <5>4. OpenAIEventsInOrder'
          BY <1>1, <1>2, <1>5, <1>10, <3>3, <4>2, <5>1, OneMoreInOrder DEF StreamInv
        <5> QED
          BY <5>3, <5>4
      <4> QED
        BY <4>1, <4>2
    <3> QED
      BY <1>6, <1>7, <1>8, <2>1, <3>7, <3>8, <3>9 DEF StreamInv
  <2> QED
    BY <1>1, <2>2, <2>3
<1> QED
  BY <1>1, <1>9, <1>10 DEF Directions

LEMMA StreamInvStep == StreamInv /\ [StreamNext]_streamVars => StreamInv'
<1> SUFFICES ASSUME StreamInv, [StreamNext]_streamVars
             PROVE  StreamInv'
  OBVIOUS
<1>0. pendingEvent = due /\ due \in AnthropicEvents \cup {NoEvent}
  BY DEF StreamInv, StreamTypeOK, HeardInv
<1>1. ASSUME NEW d \in Directions, Open(d)
      PROVE  StreamInv'
  <2>1. <<>> \in Seq(Sent) /\ <<>> \in Seq(Texts) /\ Len(<<>>) = 0
    OBVIOUS
  <2> QED
    BY <1>1, <2>1, FreshInvNext DEF Open, Fresh
<1>2. ASSUME NEW d \in Directions, Noise(d)
      PROVE  StreamInv'
  BY <1>0, <1>2, QuietStep DEF Noise, Scan
<1>3. ASSUME NEW u \in Tokens \cup {-1}, NEW c \in {"none", "empty"}, NEW k \in {0, 1},
             Chunk(c, NoText, u, k)
      PROVE  StreamInv'
  BY <1>3, ChunkStep
<1>4. ASSUME NEW u \in Tokens \cup {-1}, NEW t \in Texts, Chunk("text", t, u, 0)
      PROVE  StreamInv'
  BY <1>4, ChunkStep
<1>5. CASE ChunkDone
  BY <1>0, <1>5, QuietStep DEF ChunkDone, Scan
<1>6. ASSUME NEW e \in AnthropicEvents, EventLine(e)
      PROVE  StreamInv'
  BY <1>6, QuietStep DEF EventLine, Scan
<1>7. ASSUME NEW t \in Texts \cup {NoText}, NEW u \in Tokens \cup {-1}, NEW k \in {0, 1},
             DataLine(t, u, k)
      PROVE  StreamInv'
  BY <1>7, DataStep
<1>8. CASE BrokenData
  BY <1>8, QuietStep DEF BrokenData, Scan
<1>9. CASE Finish
  BY <1>9, FinishStep
<1>10. CASE Leave
  BY <1>0, <1>10, QuietStep DEF Leave, translator, backendVars
<1>11. CASE Close
  <2>1. <<>> \in Seq(Sent) /\ <<>> \in Seq(Texts) /\ Len(<<>>) = 0
    OBVIOUS
  <2>2. dir \in Directions
    BY DEF StreamInv, StreamTypeOK
  <2> QED
    BY <1>11, <2>1, <2>2, FreshInvNext DEF Close, Fresh
<1>12. CASE UNCHANGED streamVars
  BY <1>0, <1>12, QuietStep DEF streamVars, translator, backendVars
<1> QED
  BY <1>1, <1>2, <1>3, <1>4, <1>5, <1>6, <1>7, <1>8, <1>9, <1>10, <1>11, <1>12
     DEF StreamNext, StreamLine

LEMMA StreamInvAlways == StreamSpec => []StreamInv
<1>1. StreamInit => StreamInv
  <2>1. <<>> \in Seq(Sent) /\ <<>> \in Seq(Texts) /\ Len(<<>>) = 0
    OBVIOUS
  <2> QED
    BY <2>1, FreshInv DEF StreamInit
<1> QED
  BY <1>1, StreamInvStep, PTL DEF StreamSpec

LEMMA OrderFollows == StreamInv => StreamInOrder
<1> SUFFICES ASSUME StreamInv
             PROVE  StreamInOrder
  OBVIOUS
<1>1. DoneOnceAndLast /\ OpenAIEventsInOrder
  BY DEF StreamInv
<1>2. CASE loop = "finished"
  BY <1>1, <1>2 DEF StreamInv, ClosedInv, StreamInOrder
<1>3. ASSUME loop # "finished", dir = "toAnthropic", started
      PROVE  AnthropicEventsInOrder
  <2>1. /\ Len(out) \in Nat
        /\ Len(out) >= 1 /\ out[1].event = "message_start"
        /\ Len(out) >= 2 => out[2].event = "content_block_start"
        /\ \A i \in 3 .. Len(out) : out[i].event = "content_block_delta"
    BY <1>3 DEF StreamInv, StreamTypeOK, BlockInv
  <2> QED
    BY <1>3, <2>1 DEF AnthropicEventsInOrder
<1> QED
  BY <1>1, <1>2, <1>3 DEF StreamInOrder, AnthropicEventsInOrder

\* For answers of every length, with lines of every kind in every order, cut at
\* every line: an Anthropic client to which a chunk has come sees no event
\* twice, outside its block or after the closing ones, and has the closing
\* events unless it left; an OpenAI client has [DONE] once and last, and its
\* role, content and finish_reason in order and once if the intact events of
\* the backend came in the order of their format.
THEOREM EventsComeInOrder == StreamSpec => []StreamInOrder
BY OrderFollows, StreamInvAlways, PTL

LEMMA KeepingFollows == StreamInv => AnswerKept
<1> SUFFICES ASSUME StreamInv
             PROVE  AnswerKept
  OBVIOUS
<1> DEFINE texts == TextUpTo(out, Len(out))
           At(k) == CHOOSE i \in texts : Cardinality(TextUpTo(out, i)) = k
<1>1. spoken \in Seq(Texts) /\ Cardinality(texts) = Len(spoken)
  BY DEF StreamInv, StreamTypeOK, TextInv
<1>2. ASSUME NEW k \in 1 .. Len(spoken)
      PROVE  out[At(k)].text = spoken[k]
  <2>1. At(k) \in texts /\ Cardinality(TextUpTo(out, At(k))) = k
    BY DEF StreamInv, TextInv
  <2> HIDE DEF At
  <2> QED
    BY <2>1 DEF StreamInv, TextInv
<1>3. ReceivedText = [k \in 1 .. Len(spoken) |-> out[At(k)].text]
  BY <1>1 DEF ReceivedText
<1> HIDE DEF At, texts
<1>4. ReceivedText = [k \in 1 .. Len(spoken) |-> spoken[k]]
  BY <1>2, <1>3
<1>5. spoken = [k \in 1 .. Len(spoken) |-> spoken[k]]
  BY <1>1
<1> QED
  BY <1>4, <1>5 DEF AnswerKept, StreamInv, HeardInv

\* For the same answers: the text that the client puts together is the text
\* that the backend has sent, piece by piece, and the tokens recorded in the
\* history are those that the backend has counted.
THEOREM TextIsNeitherLostNorReordered == StreamSpec => []AnswerKept
BY KeepingFollows, StreamInvAlways, PTL

-----------------------------------------------------------------------------
(* Flattened sequences.                                                    *)

\* Induction over the naturals, for a set of numbers.
LEMMA Counting ==
    ASSUME NEW G \in SUBSET Nat, 0 \in G, \A n \in G : n + 1 \in G
    PROVE  \A n \in Nat : n \in G
<1> DEFINE R == {p \in Nat \X Nat : p[1] < p[2]}
           B == Nat \ G
<1>1. IsWellFoundedOn(R, Nat)
  BY NatLessThanWellFounded DEF OpToRel
<1>2. \A x, y \in Nat : <<y, x>> \in R <=> y < x
  OBVIOUS
<1> HIDE DEF R
<1>3. ASSUME B # {}
      PROVE  FALSE
  <2>1. PICK m \in B : \A n \in B : ~(<<n, m>> \in R)
    BY <1>1, <1>3, WFMin
  <2>2. m \in Nat /\ m # 0 /\ m \notin G
    BY <2>1
  <2>3. m - 1 \in Nat /\ m - 1 < m /\ (m - 1) + 1 = m
    BY <2>2
  <2>4. m - 1 \notin B
    BY <1>2, <2>1, <2>2, <2>3
  <2> QED
    BY <2>2, <2>3, <2>4
<1> QED
  BY <1>3

\* The function FlattenSeq defines by recursion.
Flattened(ss) ==
    CHOOSE f : f = [i \in 1..Len(ss) |-> IF i = 1 THEN ss[i] ELSE f[i-1] \o ss[i]]

LEMMA FlattenSeqIsLast ==
    ASSUME NEW ss, Len(ss) # 0
    PROVE  FlattenSeq(ss) = Flattened(ss)[Len(ss)]
BY DEF FlattenSeq, Flattened

LEMMA FlattenedExists ==
    ASSUME NEW S, NEW ss \in Seq(Seq(S))
    PROVE  Flattened(ss) = [i \in 1..Len(ss) |->
                              IF i = 1 THEN ss[i] ELSE Flattened(ss)[i-1] \o ss[i]]
<1> DEFINE Good(n) == \E f : f = [i \in 1..n |-> IF i = 1 THEN ss[i] ELSE f[i-1] \o ss[i]]
           G == {n \in Nat : Good(n)}
<1>1. 0 \in G
  <2>1. <<>> = [i \in 1..0 |-> IF i = 1 THEN ss[i] ELSE <<>>[i-1] \o ss[i]]
    OBVIOUS
  <2> QED
    BY <2>1
<1>2. ASSUME NEW n \in G
      PROVE  n + 1 \in G
  <2>1. PICK f : f = [i \in 1..n |-> IF i = 1 THEN ss[i] ELSE f[i-1] \o ss[i]]
    OBVIOUS
  <2> DEFINE g == [i \in 1..n+1 |-> IF i = 1 THEN ss[i] ELSE f[i-1] \o ss[i]]
  <2>2. n \in Nat
    OBVIOUS
  <2>3. \A i \in 1..n : g[i] = f[i]
    <3> TAKE i \in 1..n
    <3>1. i \in 1..n+1
      BY <2>2
    <3>2. g[i] = IF i = 1 THEN ss[i] ELSE f[i-1] \o ss[i]
      BY <3>1
    <3>3. f[i] = IF i = 1 THEN ss[i] ELSE f[i-1] \o ss[i]
      BY <2>1
    <3> QED
      BY <3>2, <3>3
  <2> HIDE DEF g
  <2>4. \A i \in 1..n+1 : i # 1 => i - 1 \in 1..n
    BY <2>2
  <2>5. \A i \in 1..n+1 : i # 1 => f[i-1] \o ss[i] = g[i-1] \o ss[i]
    BY <2>3, <2>4
  <2>6. g = [i \in 1..n+1 |-> IF i = 1 THEN ss[i] ELSE g[i-1] \o ss[i]]
    BY <2>5 DEF g
  <2>7. Good(n + 1)
    BY <2>6
  <2> HIDE DEF Good
  <2> QED
    BY <2>2, <2>7
<1> HIDE DEF Good
<1>3. \A n \in Nat : n \in G
  <2> HIDE DEF G
  <2>1. G \in SUBSET Nat
    BY DEF G
  <2> QED
    BY <1>1, <1>2, <2>1, Counting
<1>4. Len(ss) \in Nat
  OBVIOUS
<1>5. Good(Len(ss))
  BY <1>3, <1>4
<1> QED
  BY <1>5 DEF Flattened, Good

LEMMA FlattenedStep ==
    ASSUME NEW S, NEW ss \in Seq(Seq(S))
    PROVE  \A i \in 1..Len(ss) :
              Flattened(ss)[i] = IF i = 1 THEN ss[i] ELSE Flattened(ss)[i-1] \o ss[i]
<1> DEFINE f == Flattened(ss)
<1>1. f = [i \in 1..Len(ss) |-> IF i = 1 THEN ss[i] ELSE f[i-1] \o ss[i]]
  BY FlattenedExists
<1> HIDE DEF f
<1>2. \A i \in 1..Len(ss) : f[i] = IF i = 1 THEN ss[i] ELSE f[i-1] \o ss[i]
  BY <1>1
<1> QED
  BY <1>2 DEF f

LEMMA FlattenedType ==
    ASSUME NEW S, NEW ss \in Seq(Seq(S))
    PROVE  \A n \in 1..Len(ss) : Flattened(ss)[n] \in Seq(S)
<1> DEFINE G == {n \in Nat : n < Len(ss) => Flattened(ss)[n+1] \in Seq(S)}
<1>0. \A i \in 1..Len(ss) :
        Flattened(ss)[i] = IF i = 1 THEN ss[i] ELSE Flattened(ss)[i-1] \o ss[i]
  BY FlattenedStep
<1>1. 0 \in G
  BY <1>0
<1>2. ASSUME NEW n \in G
      PROVE  n + 1 \in G
  <2> SUFFICES ASSUME n + 1 < Len(ss)
               PROVE  Flattened(ss)[n+2] \in Seq(S)
    OBVIOUS
  <2>1. n \in Nat /\ n + 1 \in 1..Len(ss) /\ n + 2 \in 1..Len(ss) /\ n + 2 # 1
    OBVIOUS
  <2>2. Flattened(ss)[n+1] \in Seq(S) /\ ss[n+2] \in Seq(S)
    BY <2>1
  <2> DEFINE m == n + 2
  <2>3. m \in 1..Len(ss) /\ m # 1 /\ m - 1 = n + 1
    BY <2>1
  <2> HIDE DEF m
  <2>4. Flattened(ss)[m] = Flattened(ss)[m-1] \o ss[m]
    BY <1>0, <2>3
  <2>5. Flattened(ss)[n+2] = Flattened(ss)[n+1] \o ss[n+2]
    BY <2>3, <2>4 DEF m
  <2> QED
    BY <2>2, <2>5
<1>3. \A n \in Nat : n \in G
  <2> HIDE DEF G
  <2>1. G \in SUBSET Nat
    BY DEF G
  <2> QED
    BY <1>1, <1>2, <2>1, Counting
<1>4. ASSUME NEW n \in 1..Len(ss)
      PROVE  Flattened(ss)[n] \in Seq(S)
  <2>1. n - 1 \in Nat /\ n - 1 < Len(ss) /\ (n - 1) + 1 = n
    OBVIOUS
  <2> QED
    BY <1>3, <2>1
<1> QED
  BY <1>4

LEMMA FlattenedPrefix ==
    ASSUME NEW S, NEW ss \in Seq(Seq(S)), NEW s \in Seq(S)
    PROVE  \A n \in 1..Len(ss) : Flattened(Append(ss, s))[n] = Flattened(ss)[n]
<1> DEFINE tt == Append(ss, s)
           G == {n \in Nat : n < Len(ss) => Flattened(tt)[n+1] = Flattened(ss)[n+1]}
<1>1. tt \in Seq(Seq(S)) /\ Len(tt) = Len(ss) + 1 /\ \A i \in 1..Len(ss) : tt[i] = ss[i]
  OBVIOUS
<1> HIDE DEF tt
<1>2. \A i \in 1..Len(ss) : /\ Flattened(ss)[i] = IF i = 1 THEN ss[i] ELSE Flattened(ss)[i-1] \o ss[i]
                            /\ Flattened(tt)[i] = IF i = 1 THEN ss[i] ELSE Flattened(tt)[i-1] \o ss[i]
  <2>1. \A i \in 1..Len(ss) : Flattened(ss)[i] = IF i = 1 THEN ss[i] ELSE Flattened(ss)[i-1] \o ss[i]
    BY FlattenedStep
  <2>2. \A i \in 1..Len(tt) : Flattened(tt)[i] = IF i = 1 THEN tt[i] ELSE Flattened(tt)[i-1] \o tt[i]
    BY <1>1, FlattenedStep
  <2>3. \A i \in 1..Len(ss) : i \in 1..Len(tt)
    BY <1>1
  <2> QED
    BY <1>1, <2>1, <2>2, <2>3
<1>3. 0 \in G
  BY <1>2
<1>4. ASSUME NEW n \in G
      PROVE  n + 1 \in G
  <2> SUFFICES ASSUME n + 1 < Len(ss)
               PROVE  Flattened(tt)[n+2] = Flattened(ss)[n+2]
    OBVIOUS
  <2>1. n \in Nat /\ n + 2 \in 1..Len(ss) /\ n + 2 # 1 /\ (n + 2) - 1 = n + 1 /\ n < Len(ss)
    OBVIOUS
  <2>2. Flattened(tt)[n+1] = Flattened(ss)[n+1]
    BY <2>1
  <2> QED
    BY <1>2, <2>1, <2>2
<1>5. \A n \in Nat : n \in G
  <2> HIDE DEF G
  <2>1. G \in SUBSET Nat
    BY DEF G
  <2> QED
    BY <1>3, <1>4, <2>1, Counting
<1>6. ASSUME NEW n \in 1..Len(ss)
      PROVE  Flattened(tt)[n] = Flattened(ss)[n]
  <2>1. n - 1 \in Nat /\ n - 1 < Len(ss) /\ (n - 1) + 1 = n
    OBVIOUS
  <2> QED
    BY <1>5, <2>1
<1> QED
  BY <1>6 DEF tt

LEMMA FlattenEmpty == FlattenSeq(<<>>) = <<>>
BY DEF FlattenSeq

LEMMA FlattenType ==
    ASSUME NEW S, NEW ss \in Seq(Seq(S))
    PROVE  FlattenSeq(ss) \in Seq(S)
<1>1. CASE Len(ss) = 0
  <2>1. FlattenSeq(ss) = <<>>
    BY <1>1, FlattenEmpty
  <2> QED
    BY <2>1
<1>2. CASE Len(ss) # 0
  <2>1. Len(ss) \in 1..Len(ss)
    BY <1>2
  <2> QED
    BY <1>2, <2>1, FlattenSeqIsLast, FlattenedType
<1> QED
  BY <1>1, <1>2

LEMMA FlattenAppend ==
    ASSUME NEW S, NEW ss \in Seq(Seq(S)), NEW s \in Seq(S)
    PROVE  FlattenSeq(Append(ss, s)) = FlattenSeq(ss) \o s
<1> DEFINE tt == Append(ss, s)
           n == Len(ss)
<1>1. tt \in Seq(Seq(S)) /\ n \in Nat /\ Len(tt) = n + 1 /\ Len(tt) # 0 /\ tt[n+1] = s
      /\ n + 1 \in 1..Len(tt)
  OBVIOUS
<1>2. FlattenSeq(tt) = IF n + 1 = 1 THEN s ELSE Flattened(tt)[n] \o s
  <2> HIDE DEF tt, n
  <2>1. FlattenSeq(tt) = Flattened(tt)[n + 1]
    BY <1>1, FlattenSeqIsLast
  <2>2. Flattened(tt)[n + 1] = IF n + 1 = 1 THEN tt[n + 1] ELSE Flattened(tt)[(n + 1) - 1] \o tt[n + 1]
    BY <1>1, FlattenedStep
  <2>3. (n + 1) - 1 = n
    BY <1>1
  <2> QED
    BY <1>1, <2>1, <2>2, <2>3
<1>3. CASE n = 0
  <2>1. ss = <<>>
    BY <1>3
  <2>2. FlattenSeq(ss) = <<>>
    BY <2>1, FlattenEmpty
  <2>3. <<>> \o s = s
    OBVIOUS
  <2> QED
    BY <1>1, <1>2, <1>3, <2>2, <2>3
<1>4. CASE n # 0
  <2>1. n \in 1..Len(ss)
    BY <1>4
  <2>2. Flattened(tt)[n] = Flattened(ss)[n]
    BY <2>1, FlattenedPrefix
  <2>3. FlattenSeq(ss) = Flattened(ss)[n]
    BY <1>4, FlattenSeqIsLast
  <2>4. n + 1 # 1
    BY <1>1, <1>4
  <2> HIDE DEF tt, n
  <2>5. FlattenSeq(tt) = FlattenSeq(ss) \o s
    BY <1>2, <2>2, <2>3, <2>4
  <2> QED
    BY <2>5 DEF tt
<1> QED
  BY <1>3, <1>4

LEMMA FlattenConcat ==
    ASSUME NEW S, NEW ss \in Seq(Seq(S)), NEW tt \in Seq(Seq(S))
    PROVE  FlattenSeq(ss \o tt) = FlattenSeq(ss) \o FlattenSeq(tt)
<1> DEFINE Good(n) == \A uu \in Seq(Seq(S)) :
                         Len(uu) = n => FlattenSeq(ss \o uu) = FlattenSeq(ss) \o FlattenSeq(uu)
           G == {n \in Nat : Good(n)}
<1>1. FlattenSeq(ss) \in Seq(S)
  BY FlattenType
<1>2. 0 \in G
  <2> SUFFICES ASSUME NEW uu \in Seq(Seq(S)), Len(uu) = 0
               PROVE  FlattenSeq(ss \o uu) = FlattenSeq(ss) \o FlattenSeq(uu)
    OBVIOUS
  <2>1. uu = <<>>
    OBVIOUS
  <2>2. ss \o <<>> = ss
    OBVIOUS
  <2>3. FlattenSeq(ss) \o <<>> = FlattenSeq(ss)
    BY <1>1
  <2> QED
    BY <2>1, <2>2, <2>3, FlattenEmpty
<1>3. ASSUME NEW n \in G
      PROVE  n + 1 \in G
  <2> SUFFICES ASSUME NEW uu \in Seq(Seq(S)), Len(uu) = n + 1
               PROVE  FlattenSeq(ss \o uu) = FlattenSeq(ss) \o FlattenSeq(uu)
    OBVIOUS
  <2> DEFINE vv == SubSeq(uu, 1, n)
             u == uu[n + 1]
  <2>0. n \in Nat /\ Good(n)
    OBVIOUS
  <2>1. vv \in Seq(Seq(S)) /\ u \in Seq(S) /\ Len(vv) = n /\ uu = Append(vv, u)
    BY <2>0
  <2>2. FlattenSeq(ss \o vv) = FlattenSeq(ss) \o FlattenSeq(vv)
    BY <2>0, <2>1
  <2> HIDE DEF vv, u, Good, G
  <2>3. FlattenSeq(vv) \in Seq(S)
    BY <2>1, FlattenType
  <2>4. ss \o uu = Append(ss \o vv, u) /\ ss \o vv \in Seq(Seq(S))
    BY <2>1
  <2>5. FlattenSeq(ss \o uu) = FlattenSeq(ss \o vv) \o u
    BY <2>1, <2>4, FlattenAppend
  <2>6. FlattenSeq(uu) = FlattenSeq(vv) \o u
    BY <2>1, FlattenAppend
  <2>7. (FlattenSeq(ss) \o FlattenSeq(vv)) \o u = FlattenSeq(ss) \o (FlattenSeq(vv) \o u)
    BY <1>1, <2>1, <2>3
  <2> QED
    BY <2>2, <2>5, <2>6, <2>7
<1> HIDE DEF Good
<1>4. \A n \in Nat : n \in G
  <2> HIDE DEF G
  <2>1. G \in SUBSET Nat
    BY DEF G
  <2> QED
    BY <1>2, <1>3, <2>1, Counting
<1>5. Len(tt) \in Nat
  OBVIOUS
<1>6. Good(Len(tt))
  BY <1>4, <1>5
<1> QED
  BY <1>6 DEF Good

LEMMA FlattenEmpties ==
    ASSUME NEW n \in Nat
    PROVE  FlattenSeq([i \in 1..n |-> <<>>]) = <<>>
<1> DEFINE E(k) == [i \in 1..k |-> <<>>]
           G == {k \in Nat : FlattenSeq(E(k)) = <<>>}
<1>1. 0 \in G
  <2>1. E(0) = <<>>
    OBVIOUS
  <2> QED
    BY <2>1, FlattenEmpty
<1>2. ASSUME NEW k \in G
      PROVE  k + 1 \in G
  <2>0. k \in Nat /\ FlattenSeq(E(k)) = <<>>
    OBVIOUS
  <2>1. E(k) \in Seq(Seq({})) /\ <<>> \in Seq({}) /\ E(k + 1) = Append(E(k), <<>>)
    BY <2>0
  <2> HIDE DEF E
  <2>2. FlattenSeq(E(k + 1)) = FlattenSeq(E(k)) \o <<>>
    BY <2>1, FlattenAppend
  <2> QED
    BY <2>0, <2>2
<1>3. \A k \in Nat : k \in G
  <2> HIDE DEF G
  <2>1. G \in SUBSET Nat
    BY DEF G
  <2> QED
    BY <1>1, <1>2, <2>1, Counting
<1> QED
  BY <1>3

LEMMA FlattenSingles ==
    ASSUME NEW S, NEW s \in Seq(S)
    PROVE  FlattenSeq([i \in DOMAIN s |-> <<s[i]>>]) = s
<1> DEFINE E(k) == [i \in 1..k |-> <<s[i]>>]
           Good(k) == k <= Len(s) => FlattenSeq(E(k)) = SubSeq(s, 1, k)
           G == {k \in Nat : Good(k)}
<1>1. 0 \in G
  <2>1. E(0) = <<>> /\ SubSeq(s, 1, 0) = <<>>
    OBVIOUS
  <2> QED
    BY <2>1, FlattenEmpty
<1>2. ASSUME NEW k \in G
      PROVE  k + 1 \in G
  <2>1. k \in Nat /\ k + 1 \in Nat /\ Good(k)
    <3> HIDE DEF Good
    <3> QED
      OBVIOUS
  <2>2. ASSUME k + 1 <= Len(s)
        PROVE  FlattenSeq(E(k + 1)) = SubSeq(s, 1, k + 1)
    <3>1. k <= Len(s) /\ FlattenSeq(E(k)) = SubSeq(s, 1, k) /\ s[k + 1] \in S
      <4> HIDE DEF E
      <4> QED
        BY <2>1, <2>2
    <3>2. E(k) \in Seq(Seq(S)) /\ <<s[k + 1]>> \in Seq(S)
      BY <2>1, <3>1
    <3>3. E(k + 1) = Append(E(k), <<s[k + 1]>>)
      BY <2>1
    <3> HIDE DEF E
    <3>4. FlattenSeq(E(k + 1)) = SubSeq(s, 1, k) \o <<s[k + 1]>>
      BY <3>1, <3>2, <3>3, FlattenAppend
    <3>5. SubSeq(s, 1, k) \o <<s[k + 1]>> = SubSeq(s, 1, k + 1)
      BY <2>1, <2>2, <3>1
    <3> QED
      BY <3>4, <3>5
  <2>3. Good(k + 1)
    BY <2>2
  <2> HIDE DEF Good
  <2> QED
    BY <2>1, <2>3
<1>3. \A k \in Nat : k \in G
  <2> HIDE DEF G
  <2>1. G \in SUBSET Nat
    BY DEF G
  <2> QED
    BY <1>1, <1>2, <2>1, Counting
<1>4. Len(s) \in Nat /\ SubSeq(s, 1, Len(s)) = s /\ DOMAIN s = 1..Len(s)
  OBVIOUS
<1>5. Good(Len(s)) /\ Len(s) <= Len(s)
  <2> HIDE DEF Good
  <2> QED
    BY <1>3, <1>4
<1>6. FlattenSeq(E(Len(s))) = s
  <2> HIDE DEF E
  <2> QED
    BY <1>4, <1>5
<1> QED
  BY <1>4, <1>6

\* What a loop appends for each element of a sequence, F[x] for the element x.
Mapped(F, s) == [i \in DOMAIN s |-> F[s[i]]]
FlatMapped(F, s) == FlattenSeq(Mapped(F, s))

Maps(F, S, U) == F \in [S -> U]
FlatMaps(F, S, T) == Maps(F, S, Seq(T))

LEMMA MappedSeq ==
    ASSUME NEW S, NEW U, NEW F, Maps(F, S, U), NEW s \in Seq(S)
    PROVE  Mapped(F, s) \in Seq(U)
<1>1. \A i \in 1..Len(s) : s[i] \in S
  OBVIOUS
<1>2. \A i \in 1..Len(s) : F[s[i]] \in U
  BY <1>1 DEF Maps
<1>3. DOMAIN s = 1..Len(s) /\ Len(s) \in Nat
  OBVIOUS
<1> QED
  BY <1>2, <1>3 DEF Mapped

LEMMA MappedConcat ==
    ASSUME NEW S, NEW U, NEW F, Maps(F, S, U), NEW s \in Seq(S), NEW t \in Seq(S)
    PROVE  Mapped(F, s \o t) = Mapped(F, s) \o Mapped(F, t)
<1> DEFINE w == s \o t
           m == Mapped(F, w)
           p == Mapped(F, s)
           q == Mapped(F, t)
<1>1. /\ w \in Seq(S) /\ Len(w) = Len(s) + Len(t) /\ Len(s) \in Nat /\ Len(t) \in Nat
      /\ \A i \in 1..Len(s) : w[i] = s[i]
      /\ \A i \in 1..Len(t) : w[Len(s) + i] = t[i]
  OBVIOUS
<1> HIDE DEF w
<1>2. m \in Seq(U) /\ p \in Seq(U) /\ q \in Seq(U)
  BY <1>1, MappedSeq
<1>3. \A i \in 1..Len(w) : m[i] = F[w[i]]
  BY <1>1 DEF Mapped
<1>4. \A i \in 1..Len(s) : p[i] = F[s[i]]
  BY DEF Mapped
<1>5. \A i \in 1..Len(t) : q[i] = F[t[i]]
  BY DEF Mapped
<1>6. Len(m) = Len(w) /\ Len(p) = Len(s) /\ Len(q) = Len(t)
  BY <1>1 DEF Mapped
<1> HIDE DEF m, p, q
<1>7. p \o q \in Seq(U) /\ Len(p \o q) = Len(m)
  <2>1. p \o q \in Seq(U)
    BY <1>2
  <2>2. Len(p \o q) = Len(p) + Len(q)
    BY <1>2
  <2> QED
    BY <1>1, <1>6, <2>1, <2>2
<1>8. ASSUME NEW i \in 1..Len(m)
      PROVE  m[i] = (p \o q)[i]
  <2>1. CASE i \in 1..Len(s)
    <3>1. (p \o q)[i] = p[i]
      BY <1>2, <1>6, <2>1
    <3> QED
      BY <1>1, <1>3, <1>4, <1>6, <2>1, <3>1
  <2>2. CASE i \notin 1..Len(s)
    <3>1. PICK k \in 1..Len(t) : i = Len(s) + k
      <4>1. i - Len(s) \in 1..Len(t) /\ i = Len(s) + (i - Len(s))
        BY <1>1, <1>6, <2>2
      <4> QED
        BY <4>1
    <3>2. (p \o q)[i] = q[k]
      BY <1>1, <1>2, <1>6, <3>1
    <3> QED
      BY <1>1, <1>3, <1>5, <1>6, <3>1, <3>2
  <2> QED
    BY <2>1, <2>2
<1>9. m = p \o q
  BY <1>2, <1>7, <1>8, SeqEqual
<1> QED
  BY <1>9 DEF m, p, q, w

LEMMA FlatMappedSeq ==
    ASSUME NEW S, NEW T, NEW F, FlatMaps(F, S, T), NEW s \in Seq(S)
    PROVE  FlatMapped(F, s) \in Seq(T)
<1>1. Mapped(F, s) \in Seq(Seq(T))
  BY MappedSeq DEF FlatMaps
<1>2. FlattenSeq(Mapped(F, s)) \in Seq(T)
  BY <1>1, FlattenType
<1> QED
  BY <1>2 DEF FlatMapped

LEMMA FlatMappedConcat ==
    ASSUME NEW S, NEW T, NEW F, FlatMaps(F, S, T), NEW s \in Seq(S), NEW t \in Seq(S)
    PROVE  FlatMapped(F, s \o t) = FlatMapped(F, s) \o FlatMapped(F, t)
<1>1. Mapped(F, s) \in Seq(Seq(T)) /\ Mapped(F, t) \in Seq(Seq(T))
  BY MappedSeq DEF FlatMaps
<1>2. Mapped(F, s \o t) = Mapped(F, s) \o Mapped(F, t)
  BY MappedConcat DEF FlatMaps
<1>3. FlattenSeq(Mapped(F, s) \o Mapped(F, t))
         = FlattenSeq(Mapped(F, s)) \o FlattenSeq(Mapped(F, t))
  BY <1>1, FlattenConcat
<1> QED
  BY <1>2, <1>3 DEF FlatMapped

LEMMA FlatMappedOne ==
    ASSUME NEW S, NEW T, NEW F, FlatMaps(F, S, T), NEW x \in S
    PROVE  FlatMapped(F, <<x>>) = F[x]
<1>1. FlatMapped(F, <<x>>) = FlattenSeq(<<F[x]>>)
  BY DEF FlatMapped, Mapped
<1>2. <<F[x]>> = Append(<<>>, F[x]) /\ <<>> \in Seq(Seq(T)) /\ F[x] \in Seq(T)
  BY DEF FlatMaps, Maps
<1>3. FlattenSeq(<<F[x]>>) = FlattenSeq(<<>>) \o F[x]
  BY <1>2, FlattenAppend
<1>4. <<>> \o F[x] = F[x]
  BY <1>2
<1> QED
  BY <1>1, <1>3, <1>4, FlattenEmpty

LEMMA FlatMappedNone ==
    ASSUME NEW S, NEW F, NEW s \in Seq(S), \A i \in DOMAIN s : F[s[i]] = <<>>
    PROVE  FlatMapped(F, s) = <<>>
<1>1. FlatMapped(F, s) = FlattenSeq([i \in 1..Len(s) |-> <<>>]) /\ Len(s) \in Nat
  BY DEF FlatMapped, Mapped
<1> QED
  BY <1>1, FlattenEmpties

LEMMA FlatMappedAll ==
    ASSUME NEW T, NEW F, NEW s, NEW t \in Seq(T), DOMAIN t = DOMAIN s,
           \A i \in DOMAIN s : F[s[i]] = <<t[i]>>
    PROVE  FlatMapped(F, s) = t
<1>1. FlatMapped(F, s) = FlattenSeq([i \in DOMAIN t |-> <<t[i]>>])
  BY DEF FlatMapped, Mapped
<1> QED
  BY <1>1, FlattenSingles

\* A list that grows by one element, at its end or in front.
LEMMA FlatMappedGrow ==
    ASSUME NEW S, NEW T, NEW F, FlatMaps(F, S, T), NEW s \in Seq(S), NEW x \in S,
           NEW u, u = <<x>>
    PROVE  /\ u \in Seq(S) /\ s \o u \in Seq(S) /\ u \o s \in Seq(S)
           /\ FlatMapped(F, s \o u) = FlatMapped(F, s) \o F[x]
           /\ FlatMapped(F, u \o s) = F[x] \o FlatMapped(F, s)
<1>1. u \in Seq(S)
  OBVIOUS
<1>2. FlatMapped(F, u) = F[x]
  BY FlatMappedOne
<1>3. s \o u \in Seq(S) /\ u \o s \in Seq(S)
  BY <1>1
<1>4. ASSUME NEW a \in Seq(S), NEW b \in Seq(S)
      PROVE  FlatMapped(F, a \o b) = FlatMapped(F, a) \o FlatMapped(F, b)
  BY FlatMappedConcat
<1>5. /\ FlatMapped(F, s \o u) = FlatMapped(F, s) \o FlatMapped(F, u)
      /\ FlatMapped(F, u \o s) = FlatMapped(F, u) \o FlatMapped(F, s)
  BY <1>1, <1>4
<1> QED
  BY <1>1, <1>2, <1>3, <1>4, <1>5

-----------------------------------------------------------------------------
(* What the conversions return.                                            *)

Pieces == Texts \cup {"be brief", "hello", "next", "done", "<nil>"}
Text == Seq(Pieces)
Ids == Nat \X Nat
Arguments == {"{a}", "not json", "{}"}
Call == [id : Ids, arguments : Arguments]

Strings == [is : {"string"}, text : Text]
TextBlocksSet == [type : {"text"}, text : Text]
ToolUses == [type : {"tool_use"}, id : Ids, input : [object : Arguments]]
ToolResults == [type : {"tool_result"}, id : Ids, content : Strings]
Block == TextBlocksSet \cup ToolUses \cup ToolResults
Arrays == [is : {"array"}, blocks : Seq(Block)]
Content == {Null} \cup Strings \cup Arrays

Roles == {"system", "user", "assistant"}
PlainMessages == [role : Roles, content : Content]
CallMessages == [role : Roles, content : Content, tool_calls : Seq(Call)]
ToolMessages == [role : {"tool"}, tool_call_id : Ids, content : Strings]
Message == PlainMessages \cup CallMessages \cup ToolMessages

LEMMA ContentCases ==
    ASSUME NEW c \in Content
    PROVE  /\ c.is \in {"null", "string", "array"}
           /\ c.is = "null" => c = Null
           /\ c.is = "string" => c \in Strings /\ c.text \in Text
           /\ c.is = "array" => c \in Arrays /\ c.blocks \in Seq(Block)
BY DEF Content, Null, Strings, Arrays

LEMMA BlockCases ==
    ASSUME NEW b \in Block
    PROVE  /\ b.type \in {"text", "tool_use", "tool_result"}
           /\ b.type = "text" => b.text \in Text
           /\ b.type = "tool_use" => b.id \in Ids /\ b.input.object \in Arguments
           /\ b.type = "tool_result" => b.id \in Ids /\ b.content \in Strings
BY DEF Block, TextBlocksSet, ToolUses, ToolResults

LEMMA MessageCases ==
    ASSUME NEW m \in Message
    PROVE  /\ m.role \in Roles \cup {"tool"}
           /\ m.content \in Content
           /\ m.role = "tool" => m \in ToolMessages
           /\ m.role # "tool" => m \in PlainMessages \cup CallMessages
           /\ "tool_calls" \in DOMAIN m => m.tool_calls \in Seq(Call)
BY DEF Message, PlainMessages, CallMessages, ToolMessages, Roles, Content

TypeFilter(type) == [b \in Block |-> IF b.type = type THEN <<b>> ELSE <<>>]

LEMMA OfTypeIsFlatMapped ==
    ASSUME NEW type
    PROVE  /\ FlatMaps(TypeFilter(type), Block, {b \in Block : b.type = type})
           /\ \A s \in Seq(Block) : OfType(s, type) = FlatMapped(TypeFilter(type), s)
<1>1. FlatMaps(TypeFilter(type), Block, {b \in Block : b.type = type})
  <2> DEFINE S == {b \in Block : b.type = type}
  <2>1. \A b \in Block : b.type = type => b \in S
    OBVIOUS
  <2> HIDE DEF S
  <2>2. \A b \in Block : (IF b.type = type THEN <<b>> ELSE <<>>) \in Seq(S)
    BY <2>1
  <2>3. FlatMaps(TypeFilter(type), Block, S)
    BY <2>2 DEF TypeFilter, FlatMaps, Maps
  <2> QED
    BY <2>3 DEF S
<1>2. ASSUME NEW s \in Seq(Block)
      PROVE  OfType(s, type) = FlatMapped(TypeFilter(type), s)
  <2>1. \A i \in DOMAIN s : TypeFilter(type)[s[i]] = IF s[i].type = type THEN <<s[i]>> ELSE <<>>
    BY DEF TypeFilter
  <2> QED
    BY <2>1 DEF OfType, FlatMap, Map, FlatMapped, Mapped
<1> QED
  BY <1>1, <1>2

LEMMA OfTypeSeq ==
    ASSUME NEW blocks \in Seq(Block), NEW type
    PROVE  OfType(blocks, type) \in Seq({b \in Block : b.type = type})
BY OfTypeIsFlatMapped, FlatMappedSeq

LEMMA OfTypeConcat ==
    ASSUME NEW a \in Seq(Block), NEW b \in Seq(Block), NEW type
    PROVE  OfType(a \o b, type) = OfType(a, type) \o OfType(b, type)
<1> DEFINE S == {c \in Block : c.type = type}
<1>1. a \o b \in Seq(Block)
  OBVIOUS
<1>2. FlatMaps(TypeFilter(type), Block, S)
  BY OfTypeIsFlatMapped
<1> HIDE DEF S
<1>3. FlatMapped(TypeFilter(type), a \o b)
         = FlatMapped(TypeFilter(type), a) \o FlatMapped(TypeFilter(type), b)
  BY <1>2, FlatMappedConcat
<1> QED
  BY <1>1, <1>3, OfTypeIsFlatMapped

LEMMA OfTypeAll ==
    ASSUME NEW blocks \in Seq(Block), NEW type, \A i \in DOMAIN blocks : blocks[i].type = type
    PROVE  OfType(blocks, type) = blocks
<1>1. \A i \in DOMAIN blocks : TypeFilter(type)[blocks[i]] = <<blocks[i]>>
  BY DEF TypeFilter
<1>2. FlatMapped(TypeFilter(type), blocks) = blocks
  BY <1>1, FlatMappedAll
<1> QED
  BY <1>2, OfTypeIsFlatMapped

LEMMA OfTypeNone ==
    ASSUME NEW blocks \in Seq(Block), NEW type, \A i \in DOMAIN blocks : blocks[i].type # type
    PROVE  OfType(blocks, type) = <<>>
<1>1. \A i \in DOMAIN blocks : TypeFilter(type)[blocks[i]] = <<>>
  BY DEF TypeFilter
<1> QED
  BY <1>1, OfTypeIsFlatMapped, FlatMappedNone

TextsOf == [b \in Block |-> IF b.type = "text" THEN b.text ELSE <<>>]

LEMMA JoinedTextIsFlatMapped ==
    /\ FlatMaps(TextsOf, Block, Pieces)
    /\ \A s \in Seq(Block) : JoinedText(s) = FlatMapped(TextsOf, s)
<1>1. FlatMaps(TextsOf, Block, Pieces)
  <2>1. \A b \in Block : (IF b.type = "text" THEN b.text ELSE <<>>) \in Seq(Pieces)
    BY BlockCases DEF Text
  <2> QED
    BY <2>1 DEF TextsOf, FlatMaps, Maps
<1>2. ASSUME NEW s \in Seq(Block)
      PROVE  JoinedText(s) = FlatMapped(TextsOf, s)
  <2>1. \A i \in DOMAIN s : TextsOf[s[i]] = IF s[i].type = "text" THEN s[i].text ELSE <<>>
    BY DEF TextsOf
  <2> QED
    BY <2>1 DEF JoinedText, FlatMap, Map, FlatMapped, Mapped
<1> QED
  BY <1>1, <1>2

LEMMA JoinedTextSeq ==
    ASSUME NEW blocks \in Seq(Block)
    PROVE  JoinedText(blocks) \in Text
BY JoinedTextIsFlatMapped, FlatMappedSeq DEF Text

LEMMA JoinedTextConcat ==
    ASSUME NEW a \in Seq(Block), NEW b \in Seq(Block)
    PROVE  JoinedText(a \o b) = JoinedText(a) \o JoinedText(b)
<1>1. a \o b \in Seq(Block)
  OBVIOUS
<1>2. FlatMapped(TextsOf, a \o b) = FlatMapped(TextsOf, a) \o FlatMapped(TextsOf, b)
  BY JoinedTextIsFlatMapped, FlatMappedConcat
<1> QED
  BY <1>1, <1>2, JoinedTextIsFlatMapped

LEMMA JoinedTextNone ==
    ASSUME NEW blocks \in Seq(Block), \A i \in DOMAIN blocks : blocks[i].type # "text"
    PROVE  JoinedText(blocks) = <<>>
<1>1. \A i \in DOMAIN blocks : TextsOf[blocks[i]] = <<>>
  BY DEF TextsOf
<1> QED
  BY <1>1, JoinedTextIsFlatMapped, FlatMappedNone

\* One block of text.
LEMMA OneText ==
    ASSUME NEW t \in Text
    PROVE  /\ <<TextBlock(t)>> \in Seq(Block)
           /\ JoinedText(<<TextBlock(t)>>) = t
           /\ OfType(<<TextBlock(t)>>, "text") = <<TextBlock(t)>>
           /\ OfType(<<TextBlock(t)>>, "tool_use") = <<>>
           /\ OfType(<<TextBlock(t)>>, "tool_result") = <<>>
<1> DEFINE b == TextBlock(t)
           s == <<b>>
<1>1. b \in Block /\ b.type = "text" /\ b.text = t
  BY DEF TextBlock, Block, TextBlocksSet
<1>2. s \in Seq(Block) /\ DOMAIN s = {1} /\ s[1] = b
  BY <1>1
<1>3. JoinedText(s) = t
  <2>1. TextsOf[b] = t
    BY <1>1 DEF TextsOf
  <2> HIDE DEF b
  <2>2. FlatMapped(TextsOf, <<b>>) = TextsOf[b]
    BY <1>1, JoinedTextIsFlatMapped, FlatMappedOne
  <2> QED
    BY <1>2, <2>1, <2>2, JoinedTextIsFlatMapped
<1> HIDE DEF s
<1>4. OfType(s, "text") = s
  BY <1>1, <1>2, OfTypeAll
<1>5. OfType(s, "tool_use") = <<>> /\ OfType(s, "tool_result") = <<>>
  BY <1>1, <1>2, OfTypeNone
<1> QED
  BY <1>2, <1>3, <1>4, <1>5 DEF s

LEMMA CallParts ==
    ASSUME NEW calls \in Seq(Call)
    PROVE  \A i \in 1..Len(calls) : calls[i].id \in Ids /\ calls[i].arguments \in Arguments
<1>1. \A i \in 1..Len(calls) : calls[i] \in Call
  OBVIOUS
<1>2. \A c \in Call : c.id \in Ids /\ c.arguments \in Arguments
  BY DEF Call
<1> QED
  BY <1>1, <1>2

\* Calls in the Anthropic format.
LEMMA UsesOfCalls ==
    ASSUME NEW calls \in Seq(Call)
    PROVE  /\ ToolUseBlocks(calls) \in Seq(Block)
           /\ DOMAIN ToolUseBlocks(calls) = DOMAIN calls
           /\ Len(ToolUseBlocks(calls)) = Len(calls)
           /\ \A i \in DOMAIN calls :
                 /\ ToolUseBlocks(calls)[i].type = "tool_use"
                 /\ ToolUseBlocks(calls)[i].id = calls[i].id
                 /\ ToolUseBlocks(calls)[i].input = ParseArguments(calls[i].arguments)
           /\ JoinedText(ToolUseBlocks(calls)) = <<>>
           /\ OfType(ToolUseBlocks(calls), "text") = <<>>
           /\ OfType(ToolUseBlocks(calls), "tool_use") = ToolUseBlocks(calls)
           /\ OfType(ToolUseBlocks(calls), "tool_result") = <<>>
<1> DEFINE s == ToolUseBlocks(calls)
<1>0. DOMAIN calls = 1..Len(calls) /\ Len(calls) \in Nat
  OBVIOUS
<1>1. s = [i \in 1..Len(calls) |-> ToolUse(calls[i].id, ParseArguments(calls[i].arguments))]
  BY <1>0 DEF ToolUseBlocks, Map
<1>2. \A i \in 1..Len(calls) : calls[i].id \in Ids /\ calls[i].arguments \in Arguments
  BY CallParts
<1>3. \A i \in 1..Len(calls) :
         ToolUse(calls[i].id, ParseArguments(calls[i].arguments)) \in Block
  BY <1>2 DEF ToolUse, ParseArguments, Block, ToolUses, Arguments
<1> HIDE DEF s
<1>4. s \in Seq(Block) /\ DOMAIN s = DOMAIN calls /\ Len(s) = Len(calls)
  BY <1>0, <1>1, <1>3
<1>5. \A i \in DOMAIN calls : /\ s[i].type = "tool_use"
                              /\ s[i].id = calls[i].id
                              /\ s[i].input = ParseArguments(calls[i].arguments)
  BY <1>0, <1>1 DEF ToolUse
<1>6. JoinedText(s) = <<>>
  BY <1>4, <1>5, JoinedTextNone
<1>7. OfType(s, "text") = <<>> /\ OfType(s, "tool_result") = <<>>
  BY <1>4, <1>5, OfTypeNone
<1>8. OfType(s, "tool_use") = s
  BY <1>4, <1>5, OfTypeAll
<1> QED
  BY <1>4, <1>5, <1>6, <1>7, <1>8 DEF s

LEMMA NormalisedCalls ==
    ASSUME NEW calls \in Seq(Call)
    PROVE  /\ Normalised(calls) \in Seq(Call)
           /\ DOMAIN Normalised(calls) = DOMAIN calls
           /\ Len(Normalised(calls)) = Len(calls)
           /\ Normalised(calls) = <<>> <=> calls = <<>>
           /\ \A i \in DOMAIN calls : Normalised(calls)[i].id = calls[i].id
           /\ Normalised(Normalised(calls)) = Normalised(calls)
<1> DEFINE N(a) == MarshalInput(ParseArguments(a))
           s == Normalised(calls)
<1>0. DOMAIN calls = 1..Len(calls) /\ Len(calls) \in Nat
  OBVIOUS
<1>1. \A a \in Arguments : N(a) \in Arguments /\ N(N(a)) = N(a)
  BY DEF Arguments, MarshalInput, ParseArguments
<1>2. \A i \in 1..Len(calls) : calls[i].id \in Ids /\ calls[i].arguments \in Arguments
  BY CallParts
<1>3. s = [i \in 1..Len(calls) |-> ToolCall(calls[i].id, N(calls[i].arguments))]
  BY <1>0 DEF Normalised, Map
<1>3a. Normalised(s) = [i \in DOMAIN s |-> ToolCall(s[i].id, N(s[i].arguments))]
  BY DEF Normalised, Map
<1> HIDE DEF N, s
<1>4. \A i \in 1..Len(calls) : ToolCall(calls[i].id, N(calls[i].arguments)) \in Call
  BY <1>1, <1>2 DEF ToolCall, Call
<1>5. s \in Seq(Call) /\ DOMAIN s = 1..Len(calls) /\ Len(s) = Len(calls)
  BY <1>0, <1>3, <1>4
<1>6. \A i \in 1..Len(calls) : s[i].id = calls[i].id /\ s[i].arguments = N(calls[i].arguments)
  BY <1>3 DEF ToolCall
<1>7. Normalised(s) = s
  <2>1. \A i \in 1..Len(calls) : ToolCall(s[i].id, N(s[i].arguments)) = s[i]
    BY <1>1, <1>2, <1>3, <1>6
  <2> QED
    BY <1>3, <1>3a, <1>5, <2>1
<1> QED
  BY <1>0, <1>5, <1>6, <1>7 DEF s

\* The calls that come out of the blocks of calls.
LEMMA CallsOfUses ==
    ASSUME NEW blocks, NEW calls \in Seq(Call),
           OfType(blocks, "tool_use") = ToolUseBlocks(calls)
    PROVE  ToolCallsOf(blocks) = Normalised(calls)
<1>1. ToolCallsOf(blocks)
        = [i \in DOMAIN ToolUseBlocks(calls) |->
             ToolCall(ToolUseBlocks(calls)[i].id, MarshalInput(ToolUseBlocks(calls)[i].input))]
  BY DEF ToolCallsOf, Map
<1> QED
  BY <1>1, UsesOfCalls DEF Normalised, Map

\* The blocks of an answer: its text, if any, and its calls.
AnswerBlocks(text, calls) ==
    (IF text = <<>> THEN <<>> ELSE <<TextBlock(text)>>) \o ToolUseBlocks(calls)

LEMMA BlocksOfAnswer ==
    ASSUME NEW text \in Text, NEW calls \in Seq(Call)
    PROVE  /\ AnswerBlocks(text, calls) \in Seq(Block)
           /\ AnswerBlocks(text, calls) = <<>> <=> text = <<>> /\ calls = <<>>
           /\ JoinedText(AnswerBlocks(text, calls)) = text
           /\ OfType(AnswerBlocks(text, calls), "text") = <<>> <=> text = <<>>
           /\ OfType(AnswerBlocks(text, calls), "tool_use") = ToolUseBlocks(calls)
           /\ OfType(AnswerBlocks(text, calls), "tool_result") = <<>>
           /\ ToolCallsOf(AnswerBlocks(text, calls)) = Normalised(calls)
<1> DEFINE t == IF text = <<>> THEN <<>> ELSE <<TextBlock(text)>>
           u == ToolUseBlocks(calls)
<1>1. /\ t \in Seq(Block) /\ JoinedText(t) = text
      /\ OfType(t, "text") = t /\ OfType(t, "tool_use") = <<>> /\ OfType(t, "tool_result") = <<>>
      /\ t = <<>> <=> text = <<>>
  <2>1. CASE text = <<>>
    <3>1. <<>> \in Seq(Block) /\ DOMAIN <<>> = {}
      OBVIOUS
    <3>2. JoinedText(<<>>) = <<>>
      BY <3>1, JoinedTextNone
    <3>3. OfType(<<>>, "text") = <<>> /\ OfType(<<>>, "tool_use") = <<>>
          /\ OfType(<<>>, "tool_result") = <<>>
      BY <3>1, OfTypeNone
    <3> QED
      BY <2>1, <3>1, <3>2, <3>3
  <2>2. CASE text # <<>>
    BY <2>2, OneText
  <2> QED
    BY <2>1, <2>2
<1>2. /\ u \in Seq(Block) /\ JoinedText(u) = <<>> /\ Len(u) = Len(calls)
      /\ OfType(u, "text") = <<>> /\ OfType(u, "tool_use") = u /\ OfType(u, "tool_result") = <<>>
  BY UsesOfCalls
<1>3. AnswerBlocks(text, calls) = t \o u
  BY DEF AnswerBlocks
<1> HIDE DEF t, u
<1>4. t \o u \in Seq(Block)
  BY <1>1, <1>2
<1>5. t \o u = <<>> <=> text = <<>> /\ calls = <<>>
  BY <1>1, <1>2
<1>6. text \o <<>> = text /\ t \o <<>> = t /\ <<>> \o u = u /\ <<>> \o <<>> = <<>>
  BY <1>1, <1>2 DEF Text
<1>7. JoinedText(t \o u) = text
  <2>1. JoinedText(t \o u) = JoinedText(t) \o JoinedText(u)
    BY <1>1, <1>2, JoinedTextConcat
  <2> QED
    BY <1>1, <1>2, <1>6, <2>1
<1>8. ASSUME NEW type
      PROVE  OfType(t \o u, type) = OfType(t, type) \o OfType(u, type)
  BY <1>1, <1>2, OfTypeConcat
<1>9. /\ OfType(t \o u, "text") = t
      /\ OfType(t \o u, "tool_use") = u
      /\ OfType(t \o u, "tool_result") = <<>>
  BY <1>1, <1>2, <1>6, <1>8
<1>10. ToolCallsOf(t \o u) = Normalised(calls)
  BY <1>9, CallsOfUses DEF u
<1> QED
  BY <1>1, <1>3, <1>4, <1>5, <1>7, <1>9, <1>10 DEF u

\* The message a turn of the backend has become on its way to the client and
\* back, as the backend sees it.
IsTurn(m, text, calls) ==
    /\ m \in Message
    /\ m.role = "assistant"
    /\ TextOf(m) = text
    /\ CallsOf(m) = Normalised(calls)

LEMMA TypeOfMessage ==
    ASSUME NEW role \in Roles, NEW content \in Content, NEW calls \in Seq(Call)
    PROVE  /\ WithCalls(role, content, calls) \in Message
           /\ WithCalls(role, content, calls).role = role
           /\ WithCalls(role, content, calls).content = content
           /\ "tool_calls" \in DOMAIN WithCalls(role, content, calls) <=> calls # <<>>
           /\ calls # <<>> => WithCalls(role, content, calls).tool_calls = calls
<1>1. CASE calls = <<>>
  BY <1>1 DEF WithCalls, Message, PlainMessages
<1>2. CASE calls # <<>>
  BY <1>2 DEF WithCalls, Message, CallMessages
<1> QED
  BY <1>1, <1>2

LEMMA ContentTypes ==
    /\ Null \in Content /\ Null.is = "null"
    /\ \A t \in Text : /\ Str(t) \in Strings /\ Str(t) \in Content
                       /\ Str(t).is = "string" /\ Str(t).text = t
    /\ \A b \in Seq(Block) : /\ Arr(b) \in Content
                             /\ Arr(b).is = "array" /\ Arr(b).blocks = b
BY DEF Null, Str, Arr, Content, Strings, Arrays

\* A message of the OpenAI format with text, or without content, and calls.
LEMMA MessageIsTurn ==
    ASSUME NEW text \in Text, NEW calls \in Seq(Call), NEW content,
           \/ content = Str(text)
           \/ content = Null /\ text = <<>>
    PROVE  IsTurn(WithCalls("assistant", content, Normalised(calls)), text, calls)
<1> DEFINE m == WithCalls("assistant", content, Normalised(calls))
<1>1. content \in Content /\ content.is \in {"null", "string"} /\ AsString(content) = text
  BY ContentTypes DEF AsString
<1>2. Normalised(calls) \in Seq(Call)
  BY NormalisedCalls
<1>3. "assistant" \in Roles
  BY DEF Roles
<1>4. /\ m \in Message /\ m.role = "assistant" /\ m.content = content
      /\ "tool_calls" \in DOMAIN m <=> Normalised(calls) # <<>>
      /\ Normalised(calls) # <<>> => m.tool_calls = Normalised(calls)
  BY <1>1, <1>2, <1>3, TypeOfMessage
<1> HIDE DEF m
<1>5. TextOf(m) = text
  BY <1>1, <1>4 DEF TextOf
<1>6. CallsOf(m) = Normalised(calls)
  BY <1>1, <1>4 DEF CallsOf
<1> QED
  BY <1>4, <1>5, <1>6 DEF IsTurn, m

-----------------------------------------------------------------------------
(* Message lists.                                                          *)

LEMMA ResultParts ==
    ASSUME NEW blocks \in Seq(Block)
    PROVE  \A i \in DOMAIN OfType(blocks, "tool_result") :
              /\ OfType(blocks, "tool_result")[i].id \in Ids
              /\ OfType(blocks, "tool_result")[i].content \in Strings
<1> DEFINE S == {b \in Block : b.type = "tool_result"}
           r == OfType(blocks, "tool_result")
<1>1. r \in Seq(S)
  BY OfTypeSeq
<1>2. \A b \in S : b.id \in Ids /\ b.content \in Strings
  BY BlockCases
<1> HIDE DEF S, r
<1>3. \A i \in DOMAIN r : r[i] \in S
  BY <1>1
<1> QED
  BY <1>2, <1>3 DEF r

LEMMA ToolCallsSeq ==
    ASSUME NEW blocks \in Seq(Block)
    PROVE  ToolCallsOf(blocks) \in Seq(Call)
<1> DEFINE S == {b \in Block : b.type = "tool_use"}
           u == OfType(blocks, "tool_use")
<1>1. u \in Seq(S)
  BY OfTypeSeq
<1>2. \A b \in S : ToolCall(b.id, MarshalInput(b.input)) \in Call
  BY BlockCases DEF ToolCall, MarshalInput, Call
<1>3. ToolCallsOf(blocks) = [i \in DOMAIN u |-> ToolCall(u[i].id, MarshalInput(u[i].input))]
  BY DEF ToolCallsOf, Map
<1> HIDE DEF S, u
<1>4. DOMAIN u = 1..Len(u) /\ Len(u) \in Nat /\ \A i \in 1..Len(u) : u[i] \in S
  BY <1>1
<1>5. \A i \in 1..Len(u) : ToolCall(u[i].id, MarshalInput(u[i].input)) \in Call
  BY <1>2, <1>4
<1> QED
  BY <1>3, <1>4, <1>5

\* The message that carries a result in the OpenAI format.
ToolMessage(b) == [role |-> "tool", tool_call_id |-> b.id, content |-> Str(AsString(b.content))]
ResultMessages(blocks) == [i \in DOMAIN OfType(blocks, "tool_result") |->
                             ToolMessage(OfType(blocks, "tool_result")[i])]

\* The message that carries the texts and the calls of an Anthropic message.
SaidIn(role, blocks) ==
    IF OfType(blocks, "text") # <<>>
    THEN <<WithCalls(role, Str(JoinedText(blocks)), ToolCallsOf(blocks))>>
    ELSE IF ToolCallsOf(blocks) # <<>> THEN <<WithCalls(role, Null, ToolCallsOf(blocks))>>
    ELSE <<>>

LEMMA BlocksToOAI ==
    ASSUME NEW role \in Roles, NEW blocks \in Seq(Block)
    PROVE  /\ convertAnthropicBlocksToOAI(role, blocks)
                = SaidIn(role, blocks) \o ResultMessages(blocks)
           /\ SaidIn(role, blocks) \in Seq(Message)
           /\ ResultMessages(blocks) \in Seq(Message)
           /\ convertAnthropicBlocksToOAI(role, blocks) \in Seq(Message)
<1>1. convertAnthropicBlocksToOAI(role, blocks) = SaidIn(role, blocks) \o ResultMessages(blocks)
  BY DEF convertAnthropicBlocksToOAI, SaidIn, ResultMessages, ToolMessage, Map
<1>2. SaidIn(role, blocks) \in Seq(Message)
  <2>1. ToolCallsOf(blocks) \in Seq(Call) /\ JoinedText(blocks) \in Text
    BY ToolCallsSeq, JoinedTextSeq
  <2>2. Str(JoinedText(blocks)) \in Content /\ Null \in Content
    BY <2>1, ContentTypes
  <2>3. /\ WithCalls(role, Str(JoinedText(blocks)), ToolCallsOf(blocks)) \in Message
        /\ WithCalls(role, Null, ToolCallsOf(blocks)) \in Message
    BY <2>1, <2>2, TypeOfMessage
  <2> QED
    BY <2>3 DEF SaidIn
<1>3. ResultMessages(blocks) \in Seq(Message)
  <2> DEFINE r == OfType(blocks, "tool_result")
  <2>1. DOMAIN r = 1..Len(r) /\ Len(r) \in Nat
    BY OfTypeSeq
  <2>2. \A i \in DOMAIN r : r[i].id \in Ids /\ r[i].content \in Strings
    BY ResultParts
  <2>3. \A c \in Strings : Str(AsString(c)) \in Strings
    BY DEF Strings, Str, AsString
  <2>4. \A i \in DOMAIN r : ToolMessage(r[i]) \in Message
    BY <2>2, <2>3 DEF ToolMessage, Message, ToolMessages
  <2>5. ResultMessages(blocks) = [i \in DOMAIN r |-> ToolMessage(r[i])]
    BY DEF ResultMessages
  <2> HIDE DEF r
  <2> QED
    BY <2>1, <2>4, <2>5
<1> QED
  BY <1>1, <1>2, <1>3

ToOAI == [m \in Message |-> IF m.content.is = "array"
                            THEN convertAnthropicBlocksToOAI(m.role, m.content.blocks)
                            ELSE <<m>>]

LEMMA ToOAIIsFlatMapped ==
    /\ FlatMaps(ToOAI, Message, Message)
    /\ \A s \in Seq(Message) : convertAnthropicMessagesToOAI(s) = FlatMapped(ToOAI, s)
<1>1. FlatMaps(ToOAI, Message, Message)
  <2>1. ASSUME NEW m \in Message
        PROVE  (IF m.content.is = "array" THEN convertAnthropicBlocksToOAI(m.role, m.content.blocks)
                ELSE <<m>>) \in Seq(Message)
    <3>1. CASE m.content.is = "array"
      <4>1. m.content.blocks \in Seq(Block)
        BY <3>1, MessageCases, ContentCases
      <4>2. m.role \in Roles
        BY <3>1, MessageCases DEF ToolMessages, Strings
      <4>3. convertAnthropicBlocksToOAI(m.role, m.content.blocks) \in Seq(Message)
        BY <4>1, <4>2, BlocksToOAI
      <4> QED
        BY <3>1, <4>3
    <3>2. CASE m.content.is # "array"
      BY <3>2
    <3> QED
      BY <3>1, <3>2
  <2> QED
    BY <2>1 DEF ToOAI, FlatMaps, Maps
<1>2. ASSUME NEW s \in Seq(Message)
      PROVE  convertAnthropicMessagesToOAI(s) = FlatMapped(ToOAI, s)
  <2>1. \A i \in DOMAIN s :
           ToOAI[s[i]] = IF s[i].content.is = "array"
                         THEN convertAnthropicBlocksToOAI(s[i].role, s[i].content.blocks)
                         ELSE <<s[i]>>
    BY DEF ToOAI
  <2> QED
    BY <2>1 DEF convertAnthropicMessagesToOAI, FlatMap, Map, FlatMapped, Mapped
<1> QED
  BY <1>1, <1>2

ToAnthropic ==
    [m \in Message |-> IF m.role \in {"function", "tool"}
                       THEN [role |-> "user", content |-> convertToolResultToAnthropic(m)]
                       ELSE [role |-> m.role, content |-> convertOAIContentToAnthropic(m)]]

LEMMA ToAnthropicIsMapped ==
    /\ Maps(ToAnthropic, Message, Message)
    /\ \A s \in Seq(Message) : convertOAIMessagesToAnthropic(s) = Mapped(ToAnthropic, s)
<1>1. Maps(ToAnthropic, Message, Message)
  <2>1. ASSUME NEW m \in Message, m.role = "tool"
        PROVE  [role |-> "user", content |-> convertToolResultToAnthropic(m)] \in Message
    <3>1. m.tool_call_id \in Ids /\ m.content \in Strings
      BY <2>1, MessageCases DEF ToolMessages
    <3>2. Str(AsString(m.content)) \in Strings
      BY <3>1 DEF Strings, Str, AsString
    <3>3. ToolResult(m.tool_call_id, Str(AsString(m.content))) \in Block
      BY <3>1, <3>2 DEF ToolResult, Block, ToolResults
    <3>4. <<ToolResult(m.tool_call_id, Str(AsString(m.content)))>> \in Seq(Block)
      BY <3>3
    <3>5. convertToolResultToAnthropic(m) \in Content
      BY <3>4, ContentTypes DEF convertToolResultToAnthropic
    <3> QED
      BY <3>5 DEF Message, PlainMessages, Roles
  <2>2. ASSUME NEW m \in Message, m.role # "tool"
        PROVE  [role |-> m.role, content |-> convertOAIContentToAnthropic(m)] \in Message
    <3>1. m.role \in Roles /\ m.content \in Content
      BY <2>2, MessageCases
    <3>2. AsString(m.content) \in Text
      BY <3>1, ContentCases DEF AsString, Text
    <3>3. convertOAIContentToAnthropic(m) \in Content
      <4>1. CASE "tool_calls" \in DOMAIN m
        <5>1. m.tool_calls \in Seq(Call)
          BY <4>1, MessageCases
        <5>2. convertToolCallsToAnthropicBlocks(m) = AnswerBlocks(AsString(m.content), m.tool_calls)
          BY DEF convertToolCallsToAnthropicBlocks, TextBlocks, AnswerBlocks
        <5> QED
          BY <3>2, <4>1, <5>1, <5>2, BlocksOfAnswer, ContentTypes DEF convertOAIContentToAnthropic
      <4>2. CASE "tool_calls" \notin DOMAIN m
        <5>1. <<>> \in Text
          BY DEF Text
        <5> QED
          BY <3>1, <4>2, <5>1, OneText, ContentTypes DEF convertOAIContentToAnthropic
      <4> QED
        BY <4>1, <4>2
    <3> QED
      BY <3>1, <3>3 DEF Message, PlainMessages
  <2>3. \A m \in Message : m.role \in {"function", "tool"} <=> m.role = "tool"
    BY MessageCases DEF Roles
  <2> QED
    BY <2>1, <2>2, <2>3 DEF ToAnthropic, Maps
<1>2. ASSUME NEW s \in Seq(Message)
      PROVE  convertOAIMessagesToAnthropic(s) = Mapped(ToAnthropic, s)
  <2>1. \A i \in DOMAIN s :
           ToAnthropic[s[i]] = IF s[i].role \in {"function", "tool"}
                               THEN [role |-> "user", content |-> convertToolResultToAnthropic(s[i])]
                               ELSE [role |-> s[i].role, content |-> convertOAIContentToAnthropic(s[i])]
    BY DEF ToAnthropic
  <2> QED
    BY <2>1 DEF convertOAIMessagesToAnthropic, Map, Mapped
<1> QED
  BY <1>1, <1>2

TurnFilter == [m \in Message |-> IF m.role = "assistant" THEN <<m>> ELSE <<>>]

LEMMA TurnsIsFlatMapped ==
    /\ FlatMaps(TurnFilter, Message, Message)
    /\ \A s \in Seq(Message) : Turns(s) = FlatMapped(TurnFilter, s)
<1>1. FlatMaps(TurnFilter, Message, Message)
  <2>1. \A m \in Message : (IF m.role = "assistant" THEN <<m>> ELSE <<>>) \in Seq(Message)
    OBVIOUS
  <2> QED
    BY <2>1 DEF TurnFilter, FlatMaps, Maps
<1>2. ASSUME NEW s \in Seq(Message)
      PROVE  Turns(s) = FlatMapped(TurnFilter, s)
  <2>1. \A i \in DOMAIN s : TurnFilter[s[i]] = IF s[i].role = "assistant" THEN <<s[i]>> ELSE <<>>
    BY DEF TurnFilter
  <2> QED
    BY <2>1 DEF Turns, FlatMap, Map, FlatMapped, Mapped
<1> QED
  BY <1>1, <1>2

\* A message list that grows by messages of the client has no new turns, and by
\* a message of the backend it has one.
LEMMA TurnsOfUser ==
    ASSUME NEW s \in Seq(Message), NEW t \in Seq(Message),
           \A i \in DOMAIN t : t[i].role # "assistant"
    PROVE  Turns(s \o t) = Turns(s)
<1>1. s \o t \in Seq(Message)
  OBVIOUS
<1>2. FlatMapped(TurnFilter, s \o t) = FlatMapped(TurnFilter, s) \o FlatMapped(TurnFilter, t)
  BY TurnsIsFlatMapped, FlatMappedConcat
<1>3. \A i \in DOMAIN t : TurnFilter[t[i]] = <<>>
  BY DEF TurnFilter
<1>4. FlatMapped(TurnFilter, t) = <<>>
  BY <1>3, FlatMappedNone
<1>5. FlatMapped(TurnFilter, s) \in Seq(Message)
  BY TurnsIsFlatMapped, FlatMappedSeq
<1>6. FlatMapped(TurnFilter, s) \o <<>> = FlatMapped(TurnFilter, s)
  BY <1>5
<1> QED
  BY <1>1, <1>2, <1>4, <1>6, TurnsIsFlatMapped

LEMMA TurnsOfBackend ==
    ASSUME NEW s \in Seq(Message), NEW m \in Message, m.role = "assistant"
    PROVE  Turns(s) \in Seq(Message) /\ Turns(s \o <<m>>) = Append(Turns(s), m)
<1>1. s \o <<m>> \in Seq(Message)
  OBVIOUS
<1>0. FlatMaps(TurnFilter, Message, Message)
  BY TurnsIsFlatMapped
<1>2. FlatMapped(TurnFilter, s \o <<m>>) = FlatMapped(TurnFilter, s) \o TurnFilter[m]
  <3> DEFINE u == <<m>>
  <3>1. u = <<m>>
    OBVIOUS
  <3> HIDE DEF u
  <3>2. FlatMapped(TurnFilter, s \o u) = FlatMapped(TurnFilter, s) \o TurnFilter[m]
    BY <1>0, <3>1, FlatMappedGrow
  <3> QED
    BY <3>1, <3>2
<1>4. TurnFilter[m] = <<m>>
  BY DEF TurnFilter
<1>5. FlatMapped(TurnFilter, s) \in Seq(Message)
  BY TurnsIsFlatMapped, FlatMappedSeq
<1>6. FlatMapped(TurnFilter, s) \o <<m>> = Append(FlatMapped(TurnFilter, s), m)
  BY <1>5
<1> QED
  BY <1>1, <1>2, <1>4, <1>5, <1>6, TurnsIsFlatMapped

SystemTexts == [m \in Message |-> IF m.role = "system" THEN AsString(m.content) ELSE <<>>]

LEMMA ExtractSystemIsFlatMapped ==
    /\ FlatMaps(SystemTexts, Message, Pieces)
    /\ \A s \in Seq(Message) : ExtractSystem(s) = FlatMapped(SystemTexts, s)
<1>1. FlatMaps(SystemTexts, Message, Pieces)
  <2>1. \A m \in Message : AsString(m.content) \in Seq(Pieces)
    BY MessageCases, ContentCases DEF AsString, Text
  <2>2. \A m \in Message :
           (IF m.role = "system" THEN AsString(m.content) ELSE <<>>) \in Seq(Pieces)
    BY <2>1
  <2> QED
    BY <2>2 DEF SystemTexts, FlatMaps, Maps
<1>2. ASSUME NEW s \in Seq(Message)
      PROVE  ExtractSystem(s) = FlatMapped(SystemTexts, s)
  <2>1. \A i \in DOMAIN s :
           SystemTexts[s[i]] = IF s[i].role = "system" THEN AsString(s[i].content) ELSE <<>>
    BY DEF SystemTexts
  <2> QED
    BY <2>1 DEF ExtractSystem, FlatMap, Map, FlatMapped, Mapped
<1> QED
  BY <1>1, <1>2

NonSystem == [m \in Message |-> IF m.role # "system" THEN <<m>> ELSE <<>>]

LEMMA RemainingIsFlatMapped ==
    /\ FlatMaps(NonSystem, Message, Message)
    /\ \A s \in Seq(Message) : RemainingMessages(s) = FlatMapped(NonSystem, s)
<1>1. FlatMaps(NonSystem, Message, Message)
  <2>1. \A m \in Message : (IF m.role # "system" THEN <<m>> ELSE <<>>) \in Seq(Message)
    OBVIOUS
  <2> QED
    BY <2>1 DEF NonSystem, FlatMaps, Maps
<1>2. ASSUME NEW s \in Seq(Message)
      PROVE  RemainingMessages(s) = FlatMapped(NonSystem, s)
  <2>1. \A i \in DOMAIN s : NonSystem[s[i]] = IF s[i].role # "system" THEN <<s[i]>> ELSE <<>>
    BY DEF NonSystem
  <2> QED
    BY <2>1 DEF RemainingMessages, FlatMap, Map, FlatMapped, Mapped
<1> QED
  BY <1>1, <1>2

NoSystem(msgs) == \A i \in DOMAIN msgs : msgs[i].role # "system"

\* The system message in front of a list is split from the others.
LEMMA SystemInFront ==
    ASSUME NEW m \in Message, m.role = "system", NEW s \in Seq(Message), NoSystem(s)
    PROVE  /\ ExtractSystem(<<m>> \o s) = AsString(m.content)
           /\ RemainingMessages(<<m>> \o s) = s
<1>0. <<m>> \in Seq(Message) /\ <<m>> \o s \in Seq(Message)
  OBVIOUS
<1>1. ExtractSystem(<<m>> \o s) = AsString(m.content)
  <2>0. FlatMaps(SystemTexts, Message, Pieces)
    BY ExtractSystemIsFlatMapped
  <2>1. FlatMapped(SystemTexts, <<m>> \o s) = SystemTexts[m] \o FlatMapped(SystemTexts, s)
    <3> DEFINE u == <<m>>
    <3>1. u = <<m>>
      OBVIOUS
    <3> HIDE DEF u
    <3>2. FlatMapped(SystemTexts, u \o s) = SystemTexts[m] \o FlatMapped(SystemTexts, s)
      BY <2>0, <3>1, FlatMappedGrow
    <3> QED
      BY <3>1, <3>2
  <2>2. SystemTexts[m] = AsString(m.content) /\ \A i \in DOMAIN s : SystemTexts[s[i]] = <<>>
    BY DEF SystemTexts, NoSystem
  <2>3. FlatMapped(SystemTexts, s) = <<>>
    BY <2>2, FlatMappedNone
  <2>5. AsString(m.content) \in Seq(Pieces)
    BY MessageCases, ContentCases DEF AsString, Text
  <2>6. AsString(m.content) \o <<>> = AsString(m.content)
    BY <2>5
  <2> QED
    BY <1>0, <2>1, <2>2, <2>3, <2>6, ExtractSystemIsFlatMapped
<1>2. RemainingMessages(<<m>> \o s) = s
  <2>0. FlatMaps(NonSystem, Message, Message)
    BY RemainingIsFlatMapped
  <2>1. FlatMapped(NonSystem, <<m>> \o s) = NonSystem[m] \o FlatMapped(NonSystem, s)
    <3> DEFINE u == <<m>>
    <3>1. u = <<m>>
      OBVIOUS
    <3> HIDE DEF u
    <3>2. FlatMapped(NonSystem, u \o s) = NonSystem[m] \o FlatMapped(NonSystem, s)
      BY <2>0, <3>1, FlatMappedGrow
    <3> QED
      BY <3>1, <3>2
  <2>2. NonSystem[m] = <<>> /\ \A i \in DOMAIN s : NonSystem[s[i]] = <<s[i]>>
    BY DEF NonSystem, NoSystem
  <2>3. FlatMapped(NonSystem, s) = s
    BY <2>2, FlatMappedAll
  <2>5. <<>> \o s = s
    OBVIOUS
  <2> QED
    BY <1>0, <2>1, <2>2, <2>3, <2>5, RemainingIsFlatMapped
<1> QED
  BY <1>1, <1>2

LEMMA NothingInFront ==
    ASSUME NEW s \in Seq(Message), NoSystem(s)
    PROVE  ExtractSystem(s) = <<>>
<1>1. \A i \in DOMAIN s : SystemTexts[s[i]] = <<>>
  BY DEF SystemTexts, NoSystem
<1>2. FlatMapped(SystemTexts, s) = <<>>
  BY <1>1, FlatMappedNone
<1> QED
  BY <1>2, ExtractSystemIsFlatMapped

AnswersBy == [m \in Message |-> AnsweredBy(m)]

\* Messages that answer one call each answer the calls in order.
LEMMA AnswersInOrder ==
    ASSUME NEW s \in Seq(Message), NEW ids \in Seq(Ids), DOMAIN ids = DOMAIN s,
           \A i \in DOMAIN s : AnsweredBy(s[i]) = <<ids[i]>>
    PROVE  FlatMap(AnsweredBy, s) = ids
<1>1. \A i \in DOMAIN s : AnswersBy[s[i]] = AnsweredBy(s[i])
  BY DEF AnswersBy
<1>2. FlatMap(AnsweredBy, s) = FlatMapped(AnswersBy, s)
  BY <1>1 DEF FlatMap, Map, FlatMapped, Mapped
<1>3. FlatMapped(AnswersBy, s) = ids
  BY <1>1, FlatMappedAll
<1> QED
  BY <1>2, <1>3

LEMMA AnswersNothing ==
    ASSUME NEW s \in Seq(Message), \A i \in DOMAIN s : AnsweredBy(s[i]) = <<>>
    PROVE  FlatMap(AnsweredBy, s) = <<>>
<1>1. \A i \in DOMAIN s : AnswersBy[s[i]] = AnsweredBy(s[i])
  BY DEF AnswersBy
<1>2. FlatMap(AnsweredBy, s) = FlatMapped(AnswersBy, s)
  BY <1>1 DEF FlatMap, Map, FlatMapped, Mapped
<1>3. FlatMapped(AnswersBy, s) = <<>>
  BY <1>1, FlatMappedNone
<1> QED
  BY <1>2, <1>3

-----------------------------------------------------------------------------
(* The client's message list as the backend is sent it.                    *)

Forward(c, msgs) ==
    IF c = "anthropic" THEN convertAnthropicMessagesToOAI(msgs)
    ELSE convertOAIMessagesToAnthropic(msgs)
ForwardMap(c) == [m \in Message |-> IF c = "anthropic" THEN ToOAI[m] ELSE <<ToAnthropic[m]>>]

LEMMA ForwardIsFlatMapped ==
    ASSUME NEW c
    PROVE  /\ FlatMaps(ForwardMap(c), Message, Message)
           /\ \A s \in Seq(Message) : Forward(c, s) = FlatMapped(ForwardMap(c), s)
<1>1. FlatMaps(ForwardMap(c), Message, Message)
  <2>1. \A m \in Message : ToOAI[m] \in Seq(Message)
    BY ToOAIIsFlatMapped DEF FlatMaps, Maps
  <2>2. \A m \in Message : ToAnthropic[m] \in Message
    BY ToAnthropicIsMapped DEF Maps
  <2>3. \A m \in Message : (IF c = "anthropic" THEN ToOAI[m] ELSE <<ToAnthropic[m]>>) \in Seq(Message)
    BY <2>1, <2>2
  <2> QED
    BY <2>3 DEF ForwardMap, FlatMaps, Maps
<1>2. ASSUME NEW s \in Seq(Message)
      PROVE  Forward(c, s) = FlatMapped(ForwardMap(c), s)
  <2>1. CASE c = "anthropic"
    <3>1. \A i \in DOMAIN s : ForwardMap(c)[s[i]] = ToOAI[s[i]]
      BY <2>1 DEF ForwardMap
    <3>2. Mapped(ForwardMap(c), s) = Mapped(ToOAI, s)
      BY <3>1 DEF Mapped
    <3> QED
      BY <2>1, <3>2, ToOAIIsFlatMapped DEF Forward, FlatMapped
  <2>2. CASE c # "anthropic"
    <3> DEFINE t == Mapped(ToAnthropic, s)
    <3>1. t \in Seq(Message)
      BY ToAnthropicIsMapped, MappedSeq
    <3>2. DOMAIN t = DOMAIN s /\ \A i \in DOMAIN s : ForwardMap(c)[s[i]] = <<t[i]>>
      BY <2>2 DEF ForwardMap, Mapped
    <3> HIDE DEF t
    <3>3. FlatMapped(ForwardMap(c), s) = t
      BY <3>1, <3>2, FlatMappedAll
    <3> QED
      BY <2>2, <3>3, ToAnthropicIsMapped DEF Forward, t
  <2> QED
    BY <2>1, <2>2
<1> QED
  BY <1>1, <1>2

LEMMA ForwardConcat ==
    ASSUME NEW c, NEW s \in Seq(Message), NEW t \in Seq(Message)
    PROVE  /\ Forward(c, s) \in Seq(Message)
           /\ Forward(c, s \o t) = Forward(c, s) \o Forward(c, t)
<1>1. s \o t \in Seq(Message)
  OBVIOUS
<1>2. FlatMaps(ForwardMap(c), Message, Message)
  BY ForwardIsFlatMapped
<1>3. FlatMapped(ForwardMap(c), s) \in Seq(Message)
  BY <1>2, FlatMappedSeq
<1>4. FlatMapped(ForwardMap(c), s \o t)
        = FlatMapped(ForwardMap(c), s) \o FlatMapped(ForwardMap(c), t)
  BY <1>2, FlatMappedConcat
<1> QED
  BY <1>1, <1>3, <1>4, ForwardIsFlatMapped

LEMMA ForwardOne ==
    ASSUME NEW c, NEW m \in Message
    PROVE  Forward(c, <<m>>) = ForwardMap(c)[m]
<1>1. <<m>> \in Seq(Message)
  OBVIOUS
<1>2. FlatMapped(ForwardMap(c), <<m>>) = ForwardMap(c)[m]
  BY ForwardIsFlatMapped, FlatMappedOne
<1> QED
  BY <1>1, <1>2, ForwardIsFlatMapped

\* The system message a backend of the OpenAI format is sent first.
Preamble(c, system) ==
    IF c = "anthropic" /\ flattenSystem(system) # <<>>
    THEN <<[role |-> "system", content |-> Str(flattenSystem(system))]>> ELSE <<>>
Told(c, system, msgs) == Preamble(c, system) \o Forward(c, msgs)

LEMMA SystemIsText ==
    ASSUME NEW s \in Systems
    PROVE  /\ s \in Content
           /\ flattenSystem(s) \in Text
           /\ s.is = "string" => AsString(s) = s.text
<1>1. <<>> \in Text /\ <<"be brief">> \in Text
  BY DEF Text, Pieces
<1>2. CASE s = Str(<<>>)
  BY <1>1, <1>2, ContentTypes DEF flattenSystem, AsString
<1>3. CASE s = Str(<<"be brief">>)
  BY <1>1, <1>3, ContentTypes DEF flattenSystem, AsString
<1>4. CASE s = Arr(<<TextBlock(<<"be brief">>)>>)
  <2>1. JoinedText(<<TextBlock(<<"be brief">>)>>) = <<"be brief">>
        /\ <<TextBlock(<<"be brief">>)>> \in Seq(Block)
    BY <1>1, OneText
  <2>2. s \in Content /\ s.is = "array" /\ s.blocks = <<TextBlock(<<"be brief">>)>>
    BY <1>4, <2>1, ContentTypes
  <2>3. flattenSystem(s) = JoinedText(s.blocks)
    BY <2>2 DEF flattenSystem
  <2> QED
    BY <1>1, <2>1, <2>2, <2>3
<1> QED
  BY <1>2, <1>3, <1>4 DEF Systems

LEMMA PreambleIs ==
    ASSUME NEW c, NEW s \in Systems
    PROVE  /\ Preamble(c, s) \in Seq(Message)
           /\ \A i \in DOMAIN Preamble(c, s) : Preamble(c, s)[i].role = "system"
<1> DEFINE m == [role |-> "system", content |-> Str(flattenSystem(s))]
<1>1. m \in Message
  BY SystemIsText, ContentTypes DEF Message, PlainMessages, Roles
<1>2. m.role = "system"
  OBVIOUS
<1>3. Preamble(c, s) = <<>> \/ Preamble(c, s) = <<m>>
  BY DEF Preamble
<1> HIDE DEF m
<1>4. CASE Preamble(c, s) = <<>>
  BY <1>4
<1>5. CASE Preamble(c, s) = <<m>>
  <2>1. <<m>> \in Seq(Message) /\ DOMAIN <<m>> = {1} /\ <<m>>[1] = m
    BY <1>1
  <2> QED
    BY <1>2, <1>5, <2>1
<1> QED
  BY <1>3, <1>4, <1>5

\* What the backend is sent grows as the client's list does.
LEMMA ToldGrows ==
    ASSUME NEW c, NEW s \in Systems, NEW a \in Seq(Message), NEW b \in Seq(Message)
    PROVE  /\ Told(c, s, a) \in Seq(Message)
           /\ Told(c, s, a \o b) = Told(c, s, a) \o Forward(c, b)
<1>1. Preamble(c, s) \in Seq(Message)
  BY PreambleIs
<1>2. Forward(c, a) \in Seq(Message) /\ Forward(c, b) \in Seq(Message)
  BY ForwardConcat
<1>3. Forward(c, a \o b) = Forward(c, a) \o Forward(c, b)
  BY ForwardConcat
<1>4. ASSUME NEW p \in Seq(Message), NEW q \in Seq(Message), NEW r \in Seq(Message)
      PROVE  p \o (q \o r) = (p \o q) \o r
  OBVIOUS
<1>5. Preamble(c, s) \o (Forward(c, a) \o Forward(c, b))
        = (Preamble(c, s) \o Forward(c, a)) \o Forward(c, b)
  BY <1>1, <1>2, <1>4
<1>6. Preamble(c, s) \o Forward(c, a) \in Seq(Message)
  BY <1>1, <1>2
<1> QED
  BY <1>3, <1>5, <1>6 DEF Told

-----------------------------------------------------------------------------
(* An answer, on its way to the client and back.                           *)

CallIds(calls) == [i \in DOMAIN calls |-> calls[i].id]

\* The ids of the calls in a message of the client's list.
IdsIn(c, m) ==
    IF c = "anthropic" THEN CallIds(OfType(m.content.blocks, "tool_use"))
    ELSE IF "tool_calls" \in DOMAIN m THEN CallIds(m.tool_calls) ELSE <<>>

\* The message m of a client's list goes to the backend as the one turn it was,
\* and the client answers the turn's calls.
ComesBack(c, m, text, calls) ==
    /\ m \in Message
    /\ m.role = "assistant"
    /\ \E r : ForwardMap(c)[m] = <<r>> /\ IsTurn(r, text, calls)
    /\ IdsIn(c, m) = CallIds(Normalised(calls))

LEMMA CallIdsAre ==
    ASSUME NEW calls \in Seq(Call)
    PROVE  /\ CallIds(calls) \in Seq(Ids)
           /\ CallIds(Normalised(calls)) = CallIds(calls)
           /\ CallIds(ToolUseBlocks(calls)) = CallIds(calls)
           /\ calls = <<>> => CallIds(calls) = <<>>
<1>1. DOMAIN calls = 1..Len(calls) /\ Len(calls) \in Nat
  OBVIOUS
<1>2. \A i \in 1..Len(calls) : calls[i].id \in Ids
  BY CallParts
<1>3. CallIds(calls) \in Seq(Ids)
  BY <1>1, <1>2 DEF CallIds
<1>4. CallIds(Normalised(calls)) = CallIds(calls)
  BY NormalisedCalls DEF CallIds
<1>5. CallIds(ToolUseBlocks(calls)) = CallIds(calls)
  BY UsesOfCalls DEF CallIds
<1>6. calls = <<>> => CallIds(calls) = <<>>
  BY DEF CallIds
<1> QED
  BY <1>3, <1>4, <1>5, <1>6

LEMMA NoUses == ToolUseBlocks(<<>>) = <<>>
BY DEF ToolUseBlocks, Map

\* The blocks of an answer become one message of the OpenAI format.
LEMMA BlocksComeBack ==
    ASSUME NEW text \in Text, NEW calls \in Seq(Call), NEW blocks,
           blocks = IF AnswerBlocks(text, calls) = <<>> THEN <<TextBlock(<<>>)>>
                    ELSE AnswerBlocks(text, calls)
    PROVE  ComesBack("anthropic", [role |-> "assistant", content |-> Arr(blocks)], text, calls)
<1> DEFINE m == [role |-> "assistant", content |-> Arr(blocks)]
           N == Normalised(calls)
<1>0. <<>> \in Text /\ <<>> \in Seq(Call)
  BY DEF Text
<1>1. /\ blocks \in Seq(Block)
      /\ JoinedText(blocks) = text
      /\ OfType(blocks, "tool_use") = ToolUseBlocks(calls)
      /\ OfType(blocks, "tool_result") = <<>>
      /\ OfType(blocks, "text") = <<>> => text = <<>> /\ calls # <<>>
  <2>1. CASE AnswerBlocks(text, calls) = <<>>
    <3>1. text = <<>> /\ calls = <<>> /\ blocks = <<TextBlock(<<>>)>>
      BY <2>1, BlocksOfAnswer
    <3>2. OfType(blocks, "tool_use") = ToolUseBlocks(calls)
      <4>1. ToolUseBlocks(calls) = <<>>
        BY <3>1, NoUses
      <4> QED
        BY <1>0, <3>1, <4>1, OneText
    <3>3. OfType(blocks, "text") # <<>>
      <4>1. OfType(<<TextBlock(<<>>)>>, "text") = <<TextBlock(<<>>)>>
        BY <1>0, OneText
      <4>2. <<TextBlock(<<>>)>> # <<>>
        OBVIOUS
      <4> QED
        BY <3>1, <4>1, <4>2
    <3> QED
      BY <1>0, <3>1, <3>2, <3>3, OneText
  <2>2. CASE AnswerBlocks(text, calls) # <<>>
    BY <2>2, BlocksOfAnswer
  <2> QED
    BY <2>1, <2>2
<1>2. ToolCallsOf(blocks) = N
  BY <1>1, CallsOfUses
<1>3. "assistant" \in Roles
  BY DEF Roles
<1>4. /\ Arr(blocks) \in Content /\ Arr(blocks).is = "array" /\ Arr(blocks).blocks = blocks
  BY <1>1, ContentTypes
<1>5. m \in Message /\ m.role = "assistant" /\ m.content = Arr(blocks)
  BY <1>3, <1>4 DEF Message, PlainMessages
<1>6. PICK content : /\ content = Str(text) \/ (content = Null /\ text = <<>>)
                     /\ SaidIn("assistant", blocks) = <<WithCalls("assistant", content, N)>>
  <2>1. CASE OfType(blocks, "text") # <<>>
    BY <1>1, <1>2, <2>1 DEF SaidIn
  <2>2. CASE OfType(blocks, "text") = <<>>
    <3>1. text = <<>> /\ N # <<>>
      BY <1>1, <2>2, NormalisedCalls
    <3>2. SaidIn("assistant", blocks) = <<WithCalls("assistant", Null, N)>>
      BY <1>2, <2>2, <3>1 DEF SaidIn
    <3> QED
      BY <3>1, <3>2
  <2> QED
    BY <2>1, <2>2
<1> DEFINE r == WithCalls("assistant", content, N)
<1>7. IsTurn(r, text, calls)
  BY <1>6, MessageIsTurn
<1> HIDE DEF m, N, r
<1>8. ForwardMap("anthropic")[m] = <<r>>
  <2>1. ToOAI[m] = convertAnthropicBlocksToOAI("assistant", blocks)
    BY <1>4, <1>5 DEF ToOAI
  <2>2. ResultMessages(blocks) = <<>>
    BY <1>1 DEF ResultMessages
  <2>3. convertAnthropicBlocksToOAI("assistant", blocks) = <<r>> \o <<>>
    BY <1>1, <1>3, <1>6, <2>2, BlocksToOAI DEF r
  <2>4. r \in Message
    BY <1>7 DEF IsTurn
  <2>5. <<r>> \o <<>> = <<r>>
    BY <2>4
  <2> QED
    BY <1>5, <2>1, <2>3, <2>5 DEF ForwardMap
<1>9. IdsIn("anthropic", m) = CallIds(N)
  BY <1>1, <1>4, <1>5, CallIdsAre DEF IdsIn, N
<1> QED
  BY <1>5, <1>7, <1>8, <1>9 DEF ComesBack, m, N

\* The message of an answer becomes one message of the Anthropic format.
LEMMA MessageComesBack ==
    ASSUME NEW text \in Text, NEW calls \in Seq(Call)
    PROVE  ComesBack("openai", WithCalls("assistant", Str(text), Normalised(calls)), text, calls)
<1> DEFINE N == Normalised(calls)
           m == WithCalls("assistant", Str(text), N)
           r == [role |-> "assistant", content |-> convertOAIContentToAnthropic(m)]
<1>1. N \in Seq(Call) /\ Normalised(N) = N
  BY NormalisedCalls
<1>2. "assistant" \in Roles
  BY DEF Roles
<1>3. Str(text) \in Content /\ Str(text).is = "string" /\ Str(text).text = text
  BY ContentTypes
<1>4. /\ m \in Message /\ m.role = "assistant" /\ m.content = Str(text)
      /\ "tool_calls" \in DOMAIN m <=> N # <<>>
      /\ N # <<>> => m.tool_calls = N
  BY <1>1, <1>2, <1>3, TypeOfMessage
<1>5. ForwardMap("openai")[m] = <<r>>
  BY <1>4 DEF ForwardMap, ToAnthropic
<1>6. r.role = "assistant" /\ r.content = convertOAIContentToAnthropic(m)
      /\ "tool_calls" \notin DOMAIN r
  OBVIOUS
<1>7. r \in Message
  <2>1. ToAnthropic[m] = r
    BY <1>4 DEF ToAnthropic
  <2> QED
    BY <1>4, <2>1, ToAnthropicIsMapped DEF Maps
<1>8. TextOf(r) = text /\ CallsOf(r) = N
  <2>1. CASE N # <<>>
    <3>1. convertOAIContentToAnthropic(m) = Arr(AnswerBlocks(text, N))
      BY <1>3, <1>4, <2>1 DEF convertOAIContentToAnthropic, convertToolCallsToAnthropicBlocks,
         TextBlocks, AsString, AnswerBlocks
    <3> DEFINE b == AnswerBlocks(text, N)
    <3>2. b \in Seq(Block) /\ JoinedText(b) = text /\ ToolCallsOf(b) = N
      BY <1>1, BlocksOfAnswer
    <3>3. Arr(b).is = "array" /\ Arr(b).blocks = b
      BY <3>2, ContentTypes
    <3> HIDE DEF b, N, r, m
    <3> QED
      BY <1>6, <3>1, <3>2, <3>3 DEF TextOf, CallsOf, b
  <2>2. CASE N = <<>>
    <3>1. convertOAIContentToAnthropic(m) = Str(text)
      BY <1>3, <1>4, <2>2, ContentTypes DEF convertOAIContentToAnthropic
    <3> HIDE DEF N, r, m
    <3> QED
      BY <1>3, <1>6, <2>2, <3>1 DEF TextOf, CallsOf, AsString
  <2> QED
    BY <2>1, <2>2
<1> HIDE DEF N, r, m
<1>9. IsTurn(r, text, calls)
  BY <1>6, <1>7, <1>8 DEF IsTurn, N
<1>10. IdsIn("openai", m) = CallIds(N)
  <2>1. N = <<>> => CallIds(N) = <<>>
    BY <1>1, CallIdsAre
  <2> QED
    BY <1>4, <2>1 DEF IdsIn
<1> QED
  BY <1>4, <1>5, <1>9, <1>10 DEF ComesBack, m, N

AnswerType == [text : Text, calls : Seq(Call), streamed : BOOLEAN]

LEMMA AnswerComesBack ==
    ASSUME client \in {"anthropic", "openai"}, NEW a \in AnswerType
    PROVE  ComesBack(client, Received(a).message, a.text, a.calls)
<1>1. a.text \in Text /\ a.calls \in Seq(Call)
  BY DEF AnswerType
<1>2. CASE client = "anthropic"
  <2> DEFINE c == IF a.text = <<>> THEN Null ELSE Str(a.text)
             w == WithCalls("assistant", c, a.calls)
             b == AnswerBlocks(a.text, a.calls)
             blocks == IF b = <<>> THEN <<TextBlock(<<>>)>> ELSE b
  <2>1. c \in Content /\ AsString(c) = a.text
    BY <1>1, ContentTypes DEF AsString
  <2>2. "assistant" \in Roles
    BY DEF Roles
  <2>3. /\ w.content = c
        /\ "tool_calls" \in DOMAIN w <=> a.calls # <<>>
        /\ a.calls # <<>> => w.tool_calls = a.calls
    BY <1>1, <2>1, <2>2, TypeOfMessage
  <2>4. a.calls = <<>> => ToolUseBlocks(a.calls) = <<>>
    BY NoUses
  <2>5. OpenAIAnswer(a).message = w
    BY DEF OpenAIAnswer
  <2> HIDE DEF c, w
  <2>6. extractOAIChoice(w) = blocks
    BY <2>1, <2>3, <2>4 DEF extractOAIChoice, TextBlocks, AnswerBlocks
  <2>7. Received(a).message = [role |-> "assistant", content |-> Arr(blocks)]
    BY <1>2, <2>5, <2>6 DEF Received, OpenAIChatResponseToAnthropicMessage
  <2> QED
    BY <1>1, <1>2, <2>7, BlocksComeBack
<1>3. CASE client # "anthropic"
  <2> DEFINE b == AnswerBlocks(a.text, a.calls)
  <2>1. AnthropicAnswer(a).content = Arr(b)
    BY DEF AnthropicAnswer, AnswerBlocks
  <2>2. b \in Seq(Block) /\ JoinedText(b) = a.text /\ ToolCallsOf(b) = Normalised(a.calls)
    BY <1>1, BlocksOfAnswer
  <2>3. Arr(b).blocks = b
    BY <2>2, ContentTypes
  <2> HIDE DEF b
  <2>4. Received(a).message = WithCalls("assistant", Str(a.text), Normalised(a.calls))
    BY <1>3, <2>1, <2>2, <2>3 DEF Received, AnthropicMessageToOpenAIChatResponse
  <2> QED
    BY <1>1, <1>3, <2>4, MessageComesBack
<1> QED
  BY <1>2, <1>3

\* The message a client makes of a stream.
LEMMA StreamComesBack ==
    ASSUME client \in {"anthropic", "openai"}, NEW text \in Text, text # <<>>
    PROVE  ComesBack(client, [role |-> "assistant",
                              content |-> IF client = "anthropic" THEN Arr(<<TextBlock(text)>>)
                                          ELSE Str(text)], text, <<>>)
<1>1. <<>> \in Seq(Call)
  OBVIOUS
<1>2. CASE client = "anthropic"
  <2>1. AnswerBlocks(text, <<>>) = <<TextBlock(text)>> \o <<>>
    BY NoUses DEF AnswerBlocks
  <2>2. <<TextBlock(text)>> \o <<>> = <<TextBlock(text)>>
    <3>1. <<TextBlock(text)>> \in Seq(Block)
      BY OneText
    <3> QED
      BY <3>1
  <2>3. <<TextBlock(text)>> # <<>>
    OBVIOUS
  <2> QED
    BY <1>1, <1>2, <2>1, <2>2, <2>3, BlocksComeBack
<1>3. CASE client = "openai"
  <2>1. Normalised(<<>>) = <<>>
    BY <1>1, NormalisedCalls
  <2>2. WithCalls("assistant", Str(text), <<>>) = [role |-> "assistant", content |-> Str(text)]
    BY DEF WithCalls
  <2> QED
    BY <1>1, <1>3, <2>1, <2>2, MessageComesBack
<1> QED
  BY <1>2, <1>3

-----------------------------------------------------------------------------
(* The client's next message.                                              *)

\* The messages new of a client's list reach the backend as answers to ids.
Answering(c, new, ids) ==
    /\ new \in Seq(Message) /\ NoSystem(new)
    /\ Forward(c, new) \in Seq(Message)
    /\ \A i \in DOMAIN Forward(c, new) : Forward(c, new)[i].role \notin {"system", "assistant"}
    /\ FlatMap(AnsweredBy, Forward(c, new)) = ids

LEMMA AQuestion ==
    ASSUME NEW c \in {"anthropic", "openai"}
    PROVE  Answering(c, <<Question>>, <<>>)
<1> DEFINE q == Question
<1>1. <<"next">> \in Text
  BY DEF Text, Pieces
<1>2. /\ Str(<<"next">>) \in Content /\ Str(<<"next">>).is = "string" /\ Str(<<"next">>) # Null
  BY <1>1, ContentTypes
<1>3. q \in Message /\ q.role = "user" /\ q.content = Str(<<"next">>) /\ "tool_calls" \notin DOMAIN q
      /\ q = [role |-> q.role, content |-> q.content]
  BY <1>2 DEF Question, Message, PlainMessages, Roles
<1> HIDE DEF q
<1>4. ForwardMap(c)[q] = <<q>>
  BY <1>2, <1>3 DEF ForwardMap, ToOAI, ToAnthropic, convertOAIContentToAnthropic
<1>5. <<q>> \in Seq(Message) /\ DOMAIN <<q>> = {1} /\ <<q>>[1] = q
  BY <1>3
<1>6. Forward(c, <<q>>) = <<q>>
  BY <1>3, <1>4, ForwardOne
<1>7. AnsweredBy(q) = <<>>
  BY <1>2, <1>3 DEF AnsweredBy
<1>8. FlatMap(AnsweredBy, <<q>>) = <<>>
  BY <1>5, <1>7, AnswersNothing
<1> QED
  BY <1>3, <1>5, <1>6, <1>8 DEF Answering, NoSystem, q

\* Results in one message of the Anthropic format.
LEMMA ResultsInOneMessage ==
    ASSUME NEW ids \in Seq(Ids), client = "anthropic"
    PROVE  Answering("anthropic", ToolAnswers(ids), ids)
<1> DEFINE R == [i \in DOMAIN ids |-> ToolResult(ids[i], Str(<<"done">>))]
           m == [role |-> "user", content |-> Arr(R)]
           f == ResultMessages(R)
<1>0. DOMAIN ids = 1..Len(ids) /\ Len(ids) \in Nat /\ \A i \in 1..Len(ids) : ids[i] \in Ids
  OBVIOUS
<1>1. <<"done">> \in Text
  BY DEF Text, Pieces
<1>2. Str(<<"done">>) \in Strings
  BY <1>1, ContentTypes
<1>3. \A i \in 1..Len(ids) : ToolResult(ids[i], Str(<<"done">>)) \in Block
  BY <1>0, <1>2 DEF ToolResult, Block, ToolResults
<1>4. R \in Seq(Block) /\ DOMAIN R = DOMAIN ids
  BY <1>0, <1>3
<1>5. \A i \in DOMAIN R : R[i].type = "tool_result" /\ R[i].id = ids[i]
  BY DEF ToolResult
<1>6. ToolAnswers(ids) = <<m>>
  BY DEF ToolAnswers, Map
<1> HIDE DEF R
<1>7. Arr(R) \in Content /\ Arr(R).is = "array" /\ Arr(R).blocks = R
  BY <1>4, ContentTypes
<1>8. m \in Message /\ m.role = "user" /\ m.content = Arr(R)
  BY <1>7 DEF Message, PlainMessages, Roles
<1> HIDE DEF m
<1>9. OfType(R, "tool_result") = R
  BY <1>4, <1>5, OfTypeAll
<1>10. OfType(R, "text") = <<>> /\ OfType(R, "tool_use") = <<>>
  BY <1>4, <1>5, OfTypeNone
<1>11. ToolCallsOf(R) = <<>>
  BY <1>10 DEF ToolCallsOf, Map
<1>12. SaidIn("user", R) = <<>>
  BY <1>10, <1>11 DEF SaidIn
<1>13. f \in Seq(Message) /\ convertAnthropicBlocksToOAI("user", R) = <<>> \o f
  BY <1>4, <1>12, BlocksToOAI DEF Roles
<1>14. DOMAIN f = DOMAIN ids /\ \A i \in DOMAIN f : f[i].role = "tool" /\ f[i].tool_call_id = ids[i]
  BY <1>4, <1>5, <1>9 DEF ResultMessages, ToolMessage
<1> HIDE DEF f
<1>15. <<>> \o f = f
  BY <1>13
<1>16. Forward("anthropic", <<m>>) = f
  <2>1. ForwardMap("anthropic")[m] = f
    BY <1>7, <1>8, <1>13, <1>15 DEF ForwardMap, ToOAI
  <2> QED
    BY <1>8, <2>1, ForwardOne
<1>17. FlatMap(AnsweredBy, f) = ids
  <2>1. \A i \in DOMAIN f : AnsweredBy(f[i]) = <<ids[i]>>
    BY <1>14 DEF AnsweredBy
  <2> QED
    BY <1>13, <1>14, <2>1, AnswersInOrder
<1>18. <<m>> \in Seq(Message) /\ NoSystem(<<m>>)
  BY <1>8 DEF NoSystem
<1> QED
  BY <1>6, <1>13, <1>14, <1>16, <1>17, <1>18 DEF Answering

\* Results in a message each, in the OpenAI format.
LEMMA ResultsInMessages ==
    ASSUME NEW ids \in Seq(Ids), client = "openai"
    PROVE  Answering("openai", ToolAnswers(ids), ids)
<1> DEFINE result == Str(<<"done">>)
           T(id) == [role |-> "tool", tool_call_id |-> id, content |-> result]
           new == [i \in DOMAIN ids |-> T(ids[i])]
           f == Mapped(ToAnthropic, new)
<1>0. DOMAIN ids = 1..Len(ids) /\ Len(ids) \in Nat /\ \A i \in 1..Len(ids) : ids[i] \in Ids
  OBVIOUS
<1>1. result \in Strings /\ AsString(result) = <<"done">>
  <2>1. <<"done">> \in Text
    BY DEF Text, Pieces
  <2> QED
    BY <2>1, ContentTypes DEF AsString
<1>2. ToolAnswers(ids) = new
  BY DEF ToolAnswers, Map
<1> HIDE DEF result
<1>3. \A id \in Ids : T(id) \in Message /\ T(id).role = "tool"
  BY <1>1 DEF Message, ToolMessages
<1>4. ASSUME NEW id \in Ids
      PROVE  /\ ToAnthropic[T(id)].role = "user"
             /\ AnsweredBy(ToAnthropic[T(id)]) = <<id>>
  <2> DEFINE b == ToolResult(id, Str(<<"done">>))
             m == ToAnthropic[T(id)]
  <2>1. b \in Block /\ b.type = "tool_result" /\ b.id = id
    <3>1. Str(<<"done">>) \in Strings
      BY <1>1 DEF result
    <3> QED
      BY <3>1 DEF ToolResult, Block, ToolResults
  <2>2. m = [role |-> "user", content |-> convertToolResultToAnthropic(T(id))]
    BY <1>3 DEF ToAnthropic
  <2>3. convertToolResultToAnthropic(T(id)) = Arr(<<b>>)
    BY <1>1 DEF convertToolResultToAnthropic
  <2> HIDE DEF b
  <2>4. m.role = "user" /\ m.content.is = "array" /\ m.content.blocks = <<b>>
    BY <2>2, <2>3 DEF Arr
  <2>5. <<b>> \in Seq(Block) /\ DOMAIN <<b>> = {1} /\ <<b>>[1] = b
    BY <2>1
  <2>6. OfType(<<b>>, "tool_result") = <<b>>
    BY <2>1, <2>5, OfTypeAll
  <2> HIDE DEF m, T
  <2>7. AnsweredBy(m) = [i \in DOMAIN <<b>> |-> <<b>>[i].id]
    BY <2>4, <2>6 DEF AnsweredBy, Map
  <2>8. [i \in DOMAIN <<b>> |-> <<b>>[i].id] = <<id>>
    BY <2>1
  <2> QED
    BY <2>4, <2>7, <2>8 DEF m
<1> HIDE DEF T
<1>5. \A i \in 1..Len(ids) : T(ids[i]) \in Message
  BY <1>0, <1>3
<1>6. new \in Seq(Message) /\ DOMAIN new = DOMAIN ids /\ \A i \in DOMAIN ids : new[i] = T(ids[i])
  BY <1>0, <1>5
<1> HIDE DEF new
<1>7. NoSystem(new)
  BY <1>0, <1>3, <1>6 DEF NoSystem
<1>8. f \in Seq(Message)
  BY <1>6, ToAnthropicIsMapped, MappedSeq
<1>9. DOMAIN f = DOMAIN ids /\ \A i \in DOMAIN f : f[i] = ToAnthropic[T(ids[i])]
  BY <1>6 DEF Mapped
<1>10. Forward("openai", new) = f
  BY <1>6, ToAnthropicIsMapped DEF Forward
<1> HIDE DEF f
<1>11. \A i \in DOMAIN f : f[i].role = "user" /\ AnsweredBy(f[i]) = <<ids[i]>>
  BY <1>0, <1>4, <1>9
<1>12. FlatMap(AnsweredBy, f) = ids
  BY <1>8, <1>9, <1>11, AnswersInOrder
<1> QED
  BY <1>2, <1>6, <1>7, <1>8, <1>10, <1>11, <1>12 DEF Answering

LEMMA TheClientAnswers ==
    ASSUME client \in {"anthropic", "openai"}, NEW ids \in Seq(Ids)
    PROVE  Answering(client, IF ids = <<>> THEN <<Question>> ELSE ToolAnswers(ids), ids)
BY AQuestion, ResultsInOneMessage, ResultsInMessages

-----------------------------------------------------------------------------
(* Turns and the answers that follow them.                                 *)

Answered(msgs, i, end) ==
    FlatMap(AnsweredBy, SubSeq(msgs, i + 1, end)) = CallIds(CallsOf(msgs[i]))
AnsweredUpTo(msgs, n) ==
    \A i \in 1 .. Len(msgs), end \in 1 .. n : NextTurn(msgs, i, end) => Answered(msgs, i, end)

\* A turn is added: what was answered still is.
LEMMA ATurnMore ==
    ASSUME NEW msgs \in Seq(Message), NEW r \in Message, r.role = "assistant",
           AnsweredUpTo(msgs, Len(msgs)), NEW more, more = Append(msgs, r)
    PROVE  AnsweredUpTo(more, Len(msgs))
<1> DEFINE n == Len(msgs)
<1>1. /\ n \in Nat /\ Len(more) = n + 1 /\ more \in Seq(Message)
      /\ \A j \in 1..n : more[j] = msgs[j]
  OBVIOUS
<1> SUFFICES ASSUME NEW i \in 1 .. Len(more), NEW end \in 1 .. n, NextTurn(more, i, end)
             PROVE  Answered(more, i, end)
  BY DEF AnsweredUpTo
<1>2. i \in 1..n /\ i <= end /\ end <= n
  BY <1>1 DEF NextTurn
<1>3. NextTurn(msgs, i, end)
  <2>1. msgs[i].role = "assistant" /\ \A j \in i + 1 .. end : msgs[j].role # "assistant"
    BY <1>1, <1>2 DEF NextTurn
  <2>2. end = n \/ msgs[end + 1].role = "assistant"
    <3>1. CASE end < n
      <4>1. end # Len(more) /\ end + 1 \in 1..n
        BY <1>1, <3>1
      <4> QED
        BY <1>1, <4>1 DEF NextTurn
    <3> QED
      BY <1>1, <1>2, <3>1
  <2> QED
    BY <1>2, <2>1, <2>2 DEF NextTurn
<1>4. SubSeq(more, i + 1, end) = SubSeq(msgs, i + 1, end)
  <2>1. \A j \in i + 1 .. end : more[j] = msgs[j]
    BY <1>1, <1>2
  <2> QED
    BY <1>1, <1>2, <2>1
<1>5. Answered(msgs, i, end)
  BY <1>2, <1>3 DEF AnsweredUpTo
<1> QED
  BY <1>1, <1>2, <1>4, <1>5 DEF Answered

\* The client answers the last turn.
LEMMA AnAnswerMore ==
    ASSUME NEW msgs \in Seq(Message), Len(msgs) > 0, msgs[Len(msgs)].role = "assistant",
           AnsweredUpTo(msgs, Len(msgs) - 1),
           NEW new \in Seq(Message), \A i \in DOMAIN new : new[i].role # "assistant",
           FlatMap(AnsweredBy, new) = CallIds(CallsOf(msgs[Len(msgs)])),
           NEW more, more = msgs \o new
    PROVE  AnsweredUpTo(more, Len(more))
<1> DEFINE n == Len(msgs)
           k == Len(new)
<1>1. /\ n \in Nat /\ n > 0 /\ k \in Nat /\ Len(more) = n + k /\ more \in Seq(Message)
      /\ \A j \in 1..n : more[j] = msgs[j]
      /\ \A j \in 1..k : more[n + j] = new[j]
  OBVIOUS
<1>2. \A j \in n + 1 .. n + k : more[j].role # "assistant"
  <2> SUFFICES ASSUME NEW j \in n + 1 .. n + k
               PROVE  more[j].role # "assistant"
    OBVIOUS
  <2>1. j - n \in 1..k /\ n + (j - n) = j
    BY <1>1
  <2> QED
    BY <1>1, <2>1
<1> SUFFICES ASSUME NEW i \in 1 .. Len(more), NEW end \in 1 .. Len(more), NextTurn(more, i, end)
             PROVE  Answered(more, i, end)
  BY DEF AnsweredUpTo
<1>3. i \in 1..n /\ i <= end /\ end <= n + k /\ end \in Nat
  <2>1. i \notin n + 1 .. n + k
    BY <1>2 DEF NextTurn
  <2> QED
    BY <1>1, <2>1 DEF NextTurn
<1>4. CASE end < n
  <2>1. NextTurn(msgs, i, end)
    <3>1. end # Len(more) /\ end + 1 \in 1..n
      BY <1>1, <1>4
    <3> QED
      BY <1>1, <1>3, <1>4, <3>1 DEF NextTurn
  <2>2. SubSeq(more, i + 1, end) = SubSeq(msgs, i + 1, end)
    <3>1. \A j \in i + 1 .. end : more[j] = msgs[j]
      BY <1>1, <1>3, <1>4
    <3> QED
      BY <1>1, <1>3, <1>4, <3>1
  <2>3. Answered(msgs, i, end)
    BY <1>1, <1>3, <1>4, <2>1 DEF AnsweredUpTo
  <2> QED
    BY <1>1, <1>3, <2>2, <2>3 DEF Answered
<1>5. CASE end >= n
  <2>1. end = n + k
    <3>1. end + 1 \in n + 1 .. n + k => more[end + 1].role # "assistant"
      BY <1>2
    <3>2. end < n + k => end + 1 \in n + 1 .. n + k
      BY <1>1, <1>5
    <3>3. end = Len(more) \/ more[end + 1].role = "assistant"
      BY DEF NextTurn
    <3>4. end < n + k => end # Len(more)
      BY <1>1
    <3>5. ~(end < n + k)
      BY <3>1, <3>2, <3>3, <3>4
    <3>6. n + k \in Nat
      BY <1>1
    <3> DEFINE l == n + k
    <3>7. l \in Nat /\ ~(end < l) /\ end <= l /\ end \in Nat
      BY <1>3, <3>5, <3>6
    <3> HIDE DEF l
    <3>8. end = l
      BY <3>7
    <3> QED
      BY <3>8 DEF l
  <2>2. i = n
    <3>1. i < n => n \in i + 1 .. end
      BY <1>1, <1>3, <1>5
    <3> QED
      BY <1>1, <1>3, <3>1 DEF NextTurn
  <2>3. SubSeq(more, n + 1, n + k) = new
    <3> DEFINE s == SubSeq(more, n + 1, n + k)
    <3>1. s \in Seq(Message) /\ Len(s) = k /\ \A j \in 1..k : s[j] = more[n + j]
      BY <1>1
    <3> HIDE DEF s
    <3>2. \A j \in 1..k : s[j] = new[j]
      BY <1>1, <3>1
    <3>3. s = new
      BY <3>1, <3>2, SeqEqual
    <3> QED
      BY <3>3 DEF s
  <2>4. SubSeq(more, i + 1, end) = new
    BY <2>1, <2>2, <2>3
  <2>5. more[i] = msgs[n]
    BY <1>1, <2>2
  <2> QED
    BY <2>4, <2>5 DEF Answered
<1> QED
  BY <1>1, <1>3, <1>4, <1>5

-----------------------------------------------------------------------------
(* The conversation.                                                       *)

\* What the backend would be sent now.
ToldNow == Told(client, offer.system, talk)
Request ==
    IF client = "anthropic" THEN AnthropicMessagesToOpenAIChat(AnthropicRequest)
    ELSE OpenAIChatToAnthropicMessages(OpenAIRequest)

TalkTypeOK ==
    /\ client \in {"anthropic", "openai"}
    /\ offer \in Offers
    /\ talk \in Seq(Message)
    /\ said \in Seq(AnswerType)
    /\ phase \in {"asking", "answering", "streaming", "writing", "over"}

\* The client's list has no system message, in either format.
SystemInv == NoSystem(talk) /\ NoSystem(Forward(client, talk))

\* The turns of the list are the answers given, in whatever phase, without the
\* calls that were streamed.
TurnsInv ==
    /\ Len(Turns(ToldNow)) = Len(said)
    /\ \A i \in 1 .. Len(said) : IsTurn(Turns(ToldNow)[i], said[i].text, Carried(said[i]))

\* Every turn is followed by its results; when the client has yet to write,
\* every one but the last, whose calls the client then finds in its own format.
CallsInv ==
    /\ phase # "writing" => AnsweredUpTo(ToldNow, Len(ToldNow))
    /\ phase = "writing" =>
          /\ Len(ToldNow) > 0 /\ ToldNow[Len(ToldNow)].role = "assistant"
          /\ AnsweredUpTo(ToldNow, Len(ToldNow) - 1)
          /\ ClientCalls = CallIds(CallsOf(ToldNow[Len(ToldNow)]))

TalkInv == TalkTypeOK /\ SystemInv /\ TurnsInv /\ CallsInv

\* The backend has been sent the list as it is now.
SeenInv == Asked => seen = Request

ConversationInv == StreamInv /\ TalkInv /\ SeenInv

LEMMA OfferIs ==
    ASSUME offer \in Offers
    PROVE  /\ offer.system \in Systems
           /\ offer.tools \in {<<>>, <<Tool>>}
           /\ offer.limit \in {0, 5}
           /\ offer.stop \in {<<>>, <<<<"halt">>>>}
BY OffersAssumption DEF AllOffers

\* The request the handler makes carries the list.
LEMMA RequestIs ==
    ASSUME TalkTypeOK, SystemInv
    PROVE  /\ Request.messages = ToldNow
           /\ ToldNow \in Seq(Message)
<1>1. offer.system \in Systems /\ talk \in Seq(Message)
  BY OfferIs DEF TalkTypeOK
<1>2. ToldNow \in Seq(Message)
  BY <1>1, ToldGrows DEF ToldNow
<1>3. CASE client = "anthropic"
  BY <1>2, <1>3 DEF Request, AnthropicMessagesToOpenAIChat, AnthropicRequest, ToldNow, Told,
     Preamble, Forward
<1>4. CASE client # "anthropic"
  <2> DEFINE m == [role |-> "system", content |-> offer.system]
             w == <<m>> \o talk
  <2>1. m \in Message /\ m.role = "system"
    BY <1>1, SystemIsText DEF Message, PlainMessages, Roles
  <2> HIDE DEF m
  <2>2. RemainingMessages(w) = talk
    BY <1>1, <2>1, SystemInFront DEF SystemInv
  <2> HIDE DEF w
  <2>3. OpenAIRequest.messages = w
    BY DEF OpenAIRequest, w, m
  <2>4. Request.messages = Forward(client, talk)
    BY <1>4, <2>2, <2>3 DEF Request, OpenAIChatToAnthropicMessages, Forward
  <2>5. Forward(client, talk) \in Seq(Message)
    BY <1>1, ForwardConcat
  <2>6. <<>> \o Forward(client, talk) = Forward(client, talk)
    BY <2>5
  <2>7. Preamble(client, offer.system) = <<>>
    BY <1>4 DEF Preamble
  <2> QED
    BY <1>2, <2>4, <2>6, <2>7 DEF ToldNow, Told
<1> QED
  BY <1>2, <1>3, <1>4

LEMMA CallsOfSeq ==
    ASSUME NEW m \in Message
    PROVE  CallsOf(m) \in Seq(Call)
<1>1. CASE "tool_calls" \in DOMAIN m
  BY <1>1, MessageCases DEF CallsOf
<1>2. CASE "tool_calls" \notin DOMAIN m /\ m.content.is = "array"
  <2>1. m.content.blocks \in Seq(Block)
    BY <1>2, MessageCases, ContentCases
  <2> QED
    BY <1>2, <2>1, ToolCallsSeq DEF CallsOf
<1>3. CASE "tool_calls" \notin DOMAIN m /\ m.content.is # "array"
  BY <1>3 DEF CallsOf
<1> QED
  BY <1>1, <1>2, <1>3

LEMMA NoSystemConcat ==
    ASSUME NEW s \in Seq(Message), NEW t \in Seq(Message), NoSystem(s), NoSystem(t)
    PROVE  NoSystem(s \o t)
<1> DEFINE w == s \o t
<1>1. /\ Len(s) \in Nat /\ Len(t) \in Nat /\ DOMAIN w = 1 .. Len(s) + Len(t)
      /\ \A j \in 1..Len(s) : w[j] = s[j]
      /\ \A j \in 1..Len(t) : w[Len(s) + j] = t[j]
  OBVIOUS
<1> HIDE DEF w
<1>2. \A j \in 1..Len(s) : w[j].role # "system"
  BY <1>1 DEF NoSystem
<1>3. ASSUME NEW j \in 1 .. Len(s) + Len(t), j \notin 1..Len(s)
      PROVE  w[j].role # "system"
  <2> DEFINE k == j - Len(s)
  <2>1. k \in 1..Len(t) /\ Len(s) + k = j
    BY <1>1, <1>3
  <2> HIDE DEF k
  <2>2. w[Len(s) + k] = t[k] /\ t[k].role # "system"
    BY <1>1, <2>1 DEF NoSystem
  <2> QED
    BY <2>1, <2>2
<1>4. NoSystem(w)
  BY <1>1, <1>2, <1>3 DEF NoSystem
<1> QED
  BY <1>4 DEF w

\* The backend has answered, plainly or as a stream.
LEMMA TurnAdded ==
    ASSUME TalkInv, phase # "writing",
           NEW a \in AnswerType, NEW m, ComesBack(client, m, a.text, Carried(a)),
           talk' = Append(talk, m), said' = Append(said, a), phase' = "writing",
           client' = client, offer' = offer
    PROVE  TalkInv'
<1> DEFINE told == ToldNow
           u == <<m>>
           n == Len(told)
<1>1. PICK r : ForwardMap(client)[m] = <<r>> /\ IsTurn(r, a.text, Carried(a))
  BY DEF ComesBack
<1>2. r \in Message /\ r.role = "assistant" /\ CallsOf(r) = Normalised(Carried(a))
  BY <1>1 DEF IsTurn
<1>3. m \in Message /\ m.role = "assistant" /\ IdsIn(client, m) = CallIds(Normalised(Carried(a)))
  BY DEF ComesBack
<1>4. talk \in Seq(Message) /\ said \in Seq(AnswerType) /\ offer.system \in Systems
  BY OfferIs DEF TalkInv, TalkTypeOK
<1>5. /\ u \in Seq(Message) /\ NoSystem(u) /\ talk' = talk \o u /\ talk' \in Seq(Message)
  BY <1>3, <1>4 DEF NoSystem
<1>6. Forward(client, u) = <<r>> /\ <<r>> \in Seq(Message) /\ NoSystem(<<r>>)
  BY <1>1, <1>2, <1>3, ForwardOne DEF NoSystem
<1> HIDE DEF told, u
<1>7. TalkTypeOK'
  BY <1>4, <1>5 DEF TalkInv, TalkTypeOK
<1>8. told \in Seq(Message) /\ ToldNow' = told \o <<r>>
  <2>1. /\ Told(client, offer.system, talk) \in Seq(Message)
        /\ Told(client, offer.system, talk \o u)
             = Told(client, offer.system, talk) \o Forward(client, u)
    BY <1>4, <1>5, ToldGrows
  <2>2. ToldNow' = Told(client, offer.system, talk \o u)
    BY <1>5 DEF ToldNow
  <2> QED
    BY <1>6, <2>1, <2>2 DEF ToldNow, told
<1>9. ToldNow' = Append(told, r)
  BY <1>2, <1>8
<1>10. SystemInv'
  <2>1. NoSystem(talk) /\ NoSystem(Forward(client, talk))
    BY DEF TalkInv, SystemInv
  <2>2. NoSystem(talk')
    BY <1>4, <1>5, <2>1, NoSystemConcat
  <2>3. Forward(client, talk) \in Seq(Message) /\ Forward(client, talk') = Forward(client, talk) \o <<r>>
    <3>1. /\ Forward(client, talk) \in Seq(Message)
          /\ Forward(client, talk \o u) = Forward(client, talk) \o Forward(client, u)
      BY <1>4, <1>5, ForwardConcat
    <3> QED
      BY <1>5, <1>6, <3>1
  <2>4. NoSystem(Forward(client, talk'))
    BY <1>6, <2>1, <2>3, NoSystemConcat
  <2> QED
    BY <2>2, <2>4 DEF SystemInv
<1>11. TurnsInv'
  <2> DEFINE T == Turns(told)
             V == Turns(ToldNow')
  <2>1. T \in Seq(Message) /\ V = Append(T, r)
    BY <1>2, <1>8, TurnsOfBackend
  <2>2. Len(T) = Len(said) /\ \A i \in 1 .. Len(said) : IsTurn(T[i], said[i].text, Carried(said[i]))
    BY DEF TalkInv, TurnsInv, told
  <2> HIDE DEF T, V
  <2>3. /\ Len(said) \in Nat /\ Len(said') = Len(said) + 1 /\ said'[Len(said) + 1] = a
        /\ \A i \in 1 .. Len(said) : said'[i] = said[i]
    BY <1>4
  <2>4. /\ Len(V) = Len(said) + 1 /\ V[Len(said) + 1] = r
        /\ \A i \in 1 .. Len(said) : V[i] = T[i]
    BY <1>2, <2>1, <2>2
  <2>5. \A i \in 1 .. Len(said') : i = Len(said) + 1 \/ i \in 1 .. Len(said)
    BY <2>3
  <2>6. \A i \in 1 .. Len(said') : IsTurn(V[i], said'[i].text, Carried(said'[i]))
    BY <1>1, <2>2, <2>3, <2>4, <2>5
  <2> QED
    BY <2>3, <2>4, <2>6 DEF TurnsInv, V
<1>12. CallsInv'
  <2> DEFINE more == ToldNow'
  <2>1. AnsweredUpTo(told, n)
    BY DEF TalkInv, CallsInv, told
  <2>2. /\ n \in Nat /\ more \in Seq(Message) /\ Len(more) = n + 1 /\ more[n + 1] = r
    BY <1>2, <1>8, <1>9
  <2>3. more = Append(told, r)
    BY <1>9
  <2> HIDE DEF more
  <2>4. AnsweredUpTo(more, n)
    BY <1>2, <1>8, <2>1, <2>3, ATurnMore
  <2>5. /\ Len(more) > 0 /\ more[Len(more)].role = "assistant" /\ Len(more) - 1 = n
        /\ CallsOf(more[Len(more)]) = Normalised(Carried(a))
    BY <1>2, <2>2
  <2>6. ClientCalls' = IdsIn(client, m)
    <3>1. talk'[Len(talk')] = m
      BY <1>4
    <3>2. ClientCalls' = IdsIn(client', talk'[Len(talk')])
      BY DEF ClientCalls, IdsIn, CallIds, Map
    <3> QED
      BY <3>1, <3>2
  <2> QED
    BY <1>3, <2>4, <2>5, <2>6 DEF CallsInv, more
<1> QED
  BY <1>7, <1>10, <1>11, <1>12 DEF TalkInv

\* The client has written: the results of the calls, or a question.
LEMMA ListAnswered ==
    ASSUME TalkInv, phase = "writing", NEW ids, ids = ClientCalls,
           NEW new, new = IF ids = <<>> THEN <<Question>> ELSE ToolAnswers(ids),
           talk' = talk \o new, phase' = "asking",
           said' = said, client' = client, offer' = offer
    PROVE  TalkInv'
<1> DEFINE told == ToldNow
           n == Len(told)
           f == Forward(client, new)
<1>1. talk \in Seq(Message) /\ said \in Seq(AnswerType) /\ offer.system \in Systems
  BY OfferIs DEF TalkInv, TalkTypeOK
<1>2. told \in Seq(Message)
  BY <1>1, ToldGrows DEF ToldNow
<1>3. /\ n > 0 /\ told[n].role = "assistant" /\ AnsweredUpTo(told, n - 1)
      /\ ids = CallIds(CallsOf(told[n]))
  BY DEF TalkInv, CallsInv
<1>4. ids \in Seq(Ids)
  <2>1. told[n] \in Message
    BY <1>2, <1>3
  <2> HIDE DEF told, n
  <2>2. CallsOf(told[n]) \in Seq(Call)
    BY <2>1, CallsOfSeq
  <2> QED
    BY <1>3, <2>2, CallIdsAre
<1>5. Answering(client, new, ids)
  BY <1>4, TheClientAnswers DEF TalkInv, TalkTypeOK
<1>6. /\ new \in Seq(Message) /\ NoSystem(new) /\ f \in Seq(Message)
      /\ \A i \in DOMAIN f : f[i].role # "assistant"
      /\ NoSystem(f)
      /\ FlatMap(AnsweredBy, f) = ids
  BY <1>5 DEF Answering, NoSystem
<1>7. talk \o new \in Seq(Message)
  BY <1>1, <1>6
<1>8. TalkTypeOK'
  BY <1>1, <1>7 DEF TalkInv, TalkTypeOK
<1>9. ToldNow' = told \o f
  <2>1. Told(client, offer.system, talk \o new)
           = Told(client, offer.system, talk) \o Forward(client, new)
    <3>1. ASSUME NEW b \in Seq(Message)
          PROVE  Told(client, offer.system, talk \o b)
                   = Told(client, offer.system, talk) \o Forward(client, b)
      BY <1>1, ToldGrows
    <3> QED
      BY <1>6, <3>1
  <2>2. ToldNow' = Told(client, offer.system, talk \o new)
    BY DEF ToldNow
  <2> QED
    BY <2>1, <2>2 DEF ToldNow
<1> HIDE DEF told, n, f
<1>10. SystemInv'
  <2>1. NoSystem(talk) /\ NoSystem(Forward(client, talk))
    BY DEF TalkInv, SystemInv
  <2>2. NoSystem(talk \o new)
    BY <1>1, <1>6, <2>1, NoSystemConcat
  <2>3. /\ Forward(client, talk) \in Seq(Message)
        /\ Forward(client, talk \o new) = Forward(client, talk) \o f
    BY <1>1, <1>6, ForwardConcat DEF f
  <2>4. NoSystem(Forward(client, talk) \o f)
    BY <1>6, <2>1, <2>3, NoSystemConcat
  <2> QED
    BY <2>2, <2>3, <2>4 DEF SystemInv
<1>11. TurnsInv'
  <2>1. Turns(told \o f) = Turns(told)
    BY <1>2, <1>6, TurnsOfUser
  <2>2. /\ Len(Turns(told)) = Len(said)
        /\ \A i \in 1 .. Len(said) : IsTurn(Turns(told)[i], said[i].text, Carried(said[i]))
    BY DEF TalkInv, TurnsInv, told
  <2>3. Turns(ToldNow') = Turns(told)
    BY <1>9, <2>1
  <2> QED
    BY <2>2, <2>3 DEF TurnsInv
<1>12. CallsInv'
  <2> DEFINE more == told \o f
  <2>1. Len(told) > 0 /\ told[Len(told)].role = "assistant" /\ AnsweredUpTo(told, Len(told) - 1)
        /\ FlatMap(AnsweredBy, f) = CallIds(CallsOf(told[Len(told)]))
    BY <1>3, <1>6 DEF n
  <2>2. more = told \o f
    OBVIOUS
  <2> HIDE DEF more
  <2>3. AnsweredUpTo(more, Len(more))
    BY <1>2, <1>6, <2>1, <2>2, AnAnswerMore
  <2>4. ToldNow' = more
    BY <1>9, <2>2
  <2> QED
    BY <2>3, <2>4 DEF CallsInv
<1> QED
  BY <1>8, <1>10, <1>11, <1>12 DEF TalkInv

\* Nothing is added, and the client has not to write.
LEMMA ListUnchanged ==
    ASSUME TalkInv, phase # "writing", phase' # "writing",
           phase' \in {"asking", "answering", "streaming", "writing", "over"},
           UNCHANGED <<client, offer, talk, said>>
    PROVE  TalkInv'
<1>1. ToldNow' = ToldNow
  BY DEF ToldNow
<1>2. TalkTypeOK'
  BY DEF TalkInv, TalkTypeOK
<1>3. SystemInv'
  BY DEF TalkInv, SystemInv
<1>4. TurnsInv'
  BY <1>1 DEF TalkInv, TurnsInv
<1>5. CallsInv'
  BY <1>1 DEF TalkInv, CallsInv
<1> QED
  BY <1>2, <1>3, <1>4, <1>5 DEF TalkInv

LEMMA TalkInvInit == ConversationInit => TalkInv
<1> SUFFICES ASSUME ConversationInit
             PROVE  TalkInv
  OBVIOUS
<1> DEFINE m == [role |-> "user", content |-> Str(<<"hello">>)]
           told == ToldNow
<1>1. <<"hello">> \in Text
  BY DEF Text, Pieces
<1>2. Str(<<"hello">>) \in Content /\ Str(<<"hello">>).is = "string" /\ Str(<<"hello">>) # Null
  BY <1>1, ContentTypes
<1>3. /\ m \in Message /\ m.role = "user" /\ m.content = Str(<<"hello">>)
      /\ "tool_calls" \notin DOMAIN m /\ m = [role |-> m.role, content |-> m.content]
  BY <1>2 DEF Message, PlainMessages, Roles
<1>4. talk = <<m>> /\ said = <<>> /\ phase = "asking" /\ client \in {"anthropic", "openai"}
      /\ offer \in Offers
  BY DEF ConversationInit
<1> HIDE DEF m
<1>5. <<m>> \in Seq(Message) /\ NoSystem(<<m>>)
  BY <1>3 DEF NoSystem
<1>6. ForwardMap(client)[m] = <<m>>
  BY <1>2, <1>3, <1>4 DEF ForwardMap, ToOAI, ToAnthropic, convertOAIContentToAnthropic
<1>7. Forward(client, <<m>>) = <<m>>
  BY <1>3, <1>6, ForwardOne
<1>8. TalkTypeOK
  BY <1>4, <1>5 DEF TalkTypeOK
<1>9. SystemInv
  BY <1>4, <1>5, <1>7 DEF SystemInv
<1>10. told \in Seq(Message) /\ \A i \in DOMAIN told : told[i].role # "assistant"
  <2> DEFINE p == Preamble(client, offer.system)
             s == <<m>>
  <2>1. p \in Seq(Message) /\ \A i \in DOMAIN p : p[i].role = "system"
    BY <1>4, OfferIs, PreambleIs
  <2>2. s \in Seq(Message) /\ Len(s) = 1 /\ s[1] = m
    BY <1>5
  <2>3. told = p \o s
    BY <1>4, <1>7 DEF ToldNow, Told
  <2> HIDE DEF p, s, told
  <2>4. /\ told \in Seq(Message) /\ Len(p) \in Nat /\ DOMAIN told = 1 .. Len(p) + 1
        /\ \A i \in 1 .. Len(p) : told[i] = p[i]
        /\ told[Len(p) + 1] = m
    <3>1. /\ told \in Seq(Message) /\ Len(p) \in Nat /\ Len(told) = Len(p) + Len(s)
          /\ \A i \in 1 .. Len(p) : told[i] = p[i]
      <4>1. p \in Seq(Message) /\ s \in Seq(Message)
        BY <2>1, <2>2
      <4>2. Len(p) \in Nat /\ Len(p \o s) = Len(p) + Len(s) /\ p \o s \in Seq(Message)
        BY <4>1
      <4>3. \A i \in 1 .. Len(p) : (p \o s)[i] = p[i]
        BY <4>1
      <4> QED
        BY <2>3, <4>2, <4>3
    <3>2. told[Len(p) + 1] = s[1]
      <4>1. \A i \in 1 .. Len(s) : told[Len(p) + i] = s[i]
        BY <2>1, <2>2, <2>3
      <4> QED
        BY <2>2, <4>1
    <3> QED
      BY <2>2, <3>1, <3>2
  <2>5. \A i \in 1 .. Len(p) + 1 : i \in 1 .. Len(p) \/ i = Len(p) + 1
    BY <2>4
  <2>6. \A i \in 1 .. Len(p) : told[i].role = "system"
    BY <2>1, <2>4
  <2>7. \A i \in 1 .. Len(p) + 1 : told[i].role # "assistant"
    BY <1>3, <2>4, <2>5, <2>6
  <2> QED
    BY <2>4, <2>7
<1> HIDE DEF told
<1>11. TurnsInv
  <2> DEFINE e == <<>>
  <2>1. e \in Seq(Message) /\ e = <<>>
    OBVIOUS
  <2> HIDE DEF e
  <2>2. Turns(e \o told) = Turns(e)
    BY <1>10, <2>1, TurnsOfUser
  <2>3. e \o told = told
    BY <1>10, <2>1
  <2>4. Turns(e) = <<>>
    <3>1. DOMAIN e = {}
      BY <2>1
    <3>2. \A i \in DOMAIN e : TurnFilter[e[i]] = <<>>
      BY <3>1
    <3>3. FlatMapped(TurnFilter, e) = <<>>
      BY <2>1, <3>2, FlatMappedNone
    <3> QED
      BY <2>1, <3>3, TurnsIsFlatMapped
  <2>5. Turns(told) = <<>>
    BY <2>2, <2>3, <2>4
  <2>6. Len(<<>>) = 0 /\ Len(said) = 0
    BY <1>4
  <2>7. Len(Turns(told)) = 0
    BY <2>5, <2>6
  <2> QED
    BY <2>6, <2>7 DEF TurnsInv, told
<1>12. CallsInv
  <2>1. AnsweredUpTo(told, Len(told))
    BY <1>10 DEF AnsweredUpTo, NextTurn
  <2> QED
    BY <1>4, <2>1 DEF CallsInv, told
<1> QED
  BY <1>8, <1>9, <1>11, <1>12 DEF TalkInv

\* The stream that carries an answer is a stream of StreamTranslate.
LEMMA StreamsInside == ConversationNext => [StreamNext]_streamVars
<1> SUFFICES ASSUME ConversationNext
             PROVE  [StreamNext]_streamVars
  OBVIOUS
<1>1. CASE Ask
  BY <1>1 DEF Ask
<1>2. CASE AnswerStream
  BY <1>2 DEF AnswerStream, StreamNext, Directions
<1>3. CASE StreamStep
  BY <1>3 DEF StreamStep, StreamNext
<1>4. CASE TakeStream
  BY <1>4 DEF TakeStream, StreamNext
<1>5. CASE Write
  BY <1>5 DEF Write
<1>6. CASE EndTalk
  BY <1>6 DEF EndTalk
<1>7. ASSUME NEW a \in Answers, Answer(a)
      PROVE  UNCHANGED streamVars
  BY <1>7 DEF Answer
<1> QED
  BY <1>1, <1>2, <1>3, <1>4, <1>5, <1>6, <1>7 DEF ConversationNext

LEMMA CallsAre ==
    ASSUME TalkTypeOK, NEW n \in Nat, NEW b \in Arguments
    PROVE  Calls(n, b) \in Seq(Call)
<1>1. Len(said) + 1 \in Nat
  <2>1. said \in Seq(AnswerType)
    BY DEF TalkTypeOK
  <2>2. Len(said) \in Nat
    BY <2>1
  <2> QED
    BY <2>2
<1>2. \A i \in 1 .. n : ToolCall(<<Len(said) + 1, i>>, b) \in Call
  <2>1. \A i \in 1 .. n : <<Len(said) + 1, i>> \in Ids
    BY <1>1 DEF Ids
  <2> QED
    BY <2>1 DEF ToolCall, Call
<1> DEFINE C(i) == ToolCall(<<Len(said) + 1, i>>, b)
<1>3. Calls(n, b) = [i \in 1 .. n |-> C(i)]
  BY DEF Calls
<1>4. \A i \in 1 .. n : C(i) \in Call
  BY <1>2
<1> HIDE DEF C
<1> QED
  BY <1>3, <1>4

LEMMA AnswersAre ==
    ASSUME TalkTypeOK, NEW a \in Answers
    PROVE  a \in AnswerType /\ Carried(a) = a.calls
<1>1. PICK t \in SaidTexts, n \in 0 .. MaxCalls, b \in CallArguments :
         a = [text |-> t, calls |-> Calls(n, b), streamed |-> FALSE]
  BY DEF Answers
<1>2. b \in Arguments
  BY DEF CallArguments, Arguments
<1>3. t \in Text
  <2>1. \A x \in Texts : <<x>> \in Text
    <3>1. \A x \in Texts : x \in Pieces
      BY DEF Pieces
    <3> QED
      BY <3>1 DEF Text
  <2>2. <<>> \in Text
    BY DEF Text
  <2> QED
    BY <2>1, <2>2 DEF SaidTexts
<1>4. n \in Nat
  BY BoundsAssumption
<1>5. Calls(n, b) \in Seq(Call)
  BY <1>2, <1>4, CallsAre
<1> QED
  BY <1>1, <1>3, <1>5 DEF AnswerType, Carried

LEMMA SpokenIsText ==
    ASSUME NEW s \in Seq(Texts)
    PROVE  s \in Text
<1>1. \A i \in 1 .. Len(s) : s[i] \in Texts
  OBVIOUS
<1>2. \A i \in 1 .. Len(s) : s[i] \in Pieces
  BY <1>1 DEF Pieces
<1> QED
  BY <1>2 DEF Text

LEMMA TalkInvStep ==
    ASSUME ConversationInv, [ConversationNext]_conversationVars
    PROVE  TalkInv'
<1>0. TalkInv /\ StreamInv /\ TalkTypeOK /\ client \in {"anthropic", "openai"}
  BY DEF ConversationInv, TalkInv, TalkTypeOK
<1>1. CASE Ask
  BY <1>0, <1>1, ListUnchanged DEF Ask
<1>2. CASE AnswerStream
  BY <1>0, <1>2, ListUnchanged DEF AnswerStream
<1>3. CASE StreamStep
  BY <1>0, <1>3, ListUnchanged DEF StreamStep, talkVars
<1>4. CASE TakeStream
  <2> DEFINE text == ReceivedText
             m == [role |-> "assistant",
                   content |-> IF client = "anthropic" THEN Arr(<<TextBlock(text)>>) ELSE Str(text)]
             a == [text |-> spoken, calls |-> Calls(called, "{a}"), streamed |-> TRUE]
  <2>1. CASE loop = "finished" /\ text # <<>>
    <3>1. text = spoken /\ spoken \in Text
      <4>1. ReceivedText = spoken
        BY <1>0, KeepingFollows DEF AnswerKept
      <4>2. spoken \in Seq(Texts)
        BY <1>0 DEF StreamInv, StreamTypeOK
      <4> QED
        BY <4>1, <4>2, SpokenIsText
    <3>2. a \in AnswerType /\ a.text = spoken /\ Carried(a) = <<>>
      <4>1. called \in Nat /\ "{a}" \in Arguments
        BY <1>0 DEF StreamInv, StreamTypeOK, Arguments
      <4>2. Calls(called, "{a}") \in Seq(Call)
        BY <1>0, <4>1, CallsAre
      <4> QED
        BY <3>1, <4>2 DEF AnswerType, Carried
    <3>3. ComesBack(client, m, spoken, <<>>)
      BY <1>0, <2>1, <3>1, StreamComesBack
    <3>4. /\ talk' = Append(talk, m) /\ said' = Append(said, a)
          /\ phase' = "writing" /\ phase = "streaming"
          /\ client' = client /\ offer' = offer
      BY <1>4, <2>1 DEF TakeStream
    <3> HIDE DEF text, m, a
    <3> QED
      BY <1>0, <3>2, <3>3, <3>4, TurnAdded
  <2>2. CASE ~(loop = "finished" /\ text # <<>>)
    <3>1. /\ phase = "streaming" /\ phase' = "over"
          /\ UNCHANGED <<client, offer, talk, said>>
      BY <1>4, <2>2 DEF TakeStream
    <3> QED
      BY <1>0, <3>1, ListUnchanged
  <2> QED
    BY <2>1, <2>2
<1>5. CASE Write
  <2> DEFINE ids == ClientCalls
             new == IF ids = <<>> THEN <<Question>> ELSE ToolAnswers(ids)
  <2>1. /\ phase = "writing" /\ phase' = "asking" /\ talk' = talk \o new
        /\ said' = said /\ client' = client /\ offer' = offer
    BY <1>5 DEF Write
  <2>2. ids = ClientCalls /\ new = IF ids = <<>> THEN <<Question>> ELSE ToolAnswers(ids)
    OBVIOUS
  <2> HIDE DEF ids, new
  <2> QED
    BY <1>0, <2>1, <2>2, ListAnswered
<1>6. CASE EndTalk
  BY <1>0, <1>6, ListUnchanged DEF EndTalk
<1>7. ASSUME NEW a \in Answers, Answer(a)
      PROVE  TalkInv'
  <2> DEFINE m == Received(a).message
  <2>1. a \in AnswerType /\ Carried(a) = a.calls
    BY <1>0, AnswersAre
  <2>2. ComesBack(client, m, a.text, Carried(a))
    BY <1>0, <2>1, AnswerComesBack
  <2>3. /\ talk' = Append(talk, m) /\ said' = Append(said, a)
        /\ phase' = "writing" /\ phase = "answering"
        /\ client' = client /\ offer' = offer
    BY <1>7 DEF Answer
  <2> HIDE DEF m
  <2> QED
    BY <1>0, <2>1, <2>2, <2>3, TurnAdded
<1>8. CASE UNCHANGED conversationVars
  <2>1. UNCHANGED <<client, offer, talk, said, phase>>
    BY <1>8 DEF conversationVars, talkVars
  <2>2. ToldNow' = ToldNow /\ ClientCalls' = ClientCalls
    <3>1. ClientCalls = IdsIn(client, talk[Len(talk)])
      BY DEF ClientCalls, IdsIn, CallIds, Map
    <3>2. ClientCalls' = IdsIn(client', talk'[Len(talk')])
      BY DEF ClientCalls, IdsIn, CallIds, Map
    <3> QED
      BY <2>1, <3>1, <3>2 DEF ToldNow
  <2> QED
    BY <1>0, <2>1, <2>2 DEF TalkInv, TalkTypeOK, SystemInv, TurnsInv, CallsInv
<1> QED
  BY <1>1, <1>2, <1>3, <1>4, <1>5, <1>6, <1>7, <1>8 DEF ConversationNext

LEMMA SeenInvStep ==
    ASSUME SeenInv, [ConversationNext]_conversationVars
    PROVE  SeenInv'
<1>1. ASSUME UNCHANGED <<client, offer, talk>>
      PROVE  Request' = Request
  <2>1. AnthropicRequest' = AnthropicRequest
    BY <1>1 DEF AnthropicRequest
  <2>2. OpenAIRequest' = OpenAIRequest
    BY <1>1 DEF OpenAIRequest, Map
  <2> QED
    BY <1>1, <2>1, <2>2 DEF Request
<1>2. CASE Ask
  BY <1>1, <1>2 DEF Ask, SeenInv, Request
<1>3. CASE AnswerStream
  BY <1>1, <1>3 DEF AnswerStream, SeenInv, Asked
<1>4. CASE StreamStep
  BY <1>1, <1>4 DEF StreamStep, talkVars, SeenInv, Asked
<1>5. CASE TakeStream
  BY <1>5 DEF TakeStream, SeenInv, Asked
<1>6. CASE Write
  BY <1>6 DEF Write, SeenInv, Asked
<1>7. CASE EndTalk
  BY <1>7 DEF EndTalk, SeenInv, Asked
<1>8. ASSUME NEW a \in Answers, Answer(a)
      PROVE  SeenInv'
  BY <1>8 DEF Answer, SeenInv, Asked
<1>9. CASE UNCHANGED conversationVars
  BY <1>1, <1>9 DEF conversationVars, talkVars, SeenInv, Asked
<1> QED
  BY <1>2, <1>3, <1>4, <1>5, <1>6, <1>7, <1>8, <1>9 DEF ConversationNext

\* A conversation carries its streamed answers as StreamTranslate says: its
\* steps open, feed, close and leave streams, and leave them alone otherwise.
THEOREM ConversationImplementsStreams == ConversationSpec => StreamSpec
<1>1. ConversationInit => StreamInit
  BY DEF ConversationInit
<1>2. [ConversationNext]_conversationVars => [StreamNext]_streamVars
  <2>1. UNCHANGED conversationVars => UNCHANGED streamVars
    BY DEF conversationVars
  <2> QED
    BY <2>1, StreamsInside
<1> QED
  BY <1>1, <1>2, PTL DEF ConversationSpec, StreamSpec

\* In every conversation, also with an answer streamed after another: what
\* EventsComeInOrder says of one stream.  A client of the Anthropic format sees
\* the events of every answer that had a chunk in order, once and with their
\* end, whatever the backend sends; a client of the OpenAI format sees [DONE]
\* once and last whatever the backend sends, and the role first, then content,
\* then one finish as long as the backend's own intact events are in order.
THEOREM StreamsInOrder == ConversationSpec => []StreamInOrder
BY ConversationImplementsStreams, EventsComeInOrder, PTL

\* In every conversation the text the client puts together of a stream is the
\* text the backend sent, and the tokens recorded are those it counted.
THEOREM StreamedTextKept == ConversationSpec => []AnswerKept
BY ConversationImplementsStreams, TextIsNeitherLostNorReordered, PTL

LEMMA ConversationInvAlways == ConversationSpec => []ConversationInv
<1>1. ConversationInit => TalkInv /\ SeenInv
  BY TalkInvInit DEF ConversationInit, SeenInv, Asked
<1>2. StreamInv /\ TalkInv /\ SeenInv /\ [ConversationNext]_conversationVars => TalkInv' /\ SeenInv'
  BY TalkInvStep, SeenInvStep DEF ConversationInv
<1>3. StreamSpec => []StreamInv
  BY StreamInvAlways
<1>4. StreamInv /\ TalkInv /\ SeenInv <=> ConversationInv
  BY DEF ConversationInv
<1> QED
  BY <1>1, <1>2, <1>3, <1>4, ConversationImplementsStreams, PTL DEF ConversationSpec

\* What the backend has been sent while it answers.
LEMMA SeenIs ==
    ASSUME ConversationInv, Asked
    PROVE  /\ seen = Request /\ seen.messages = ToldNow /\ ToldNow \in Seq(Message)
           /\ TurnsInv /\ AnsweredUpTo(ToldNow, Len(ToldNow))
           /\ SystemInv /\ TalkTypeOK
BY RequestIs DEF ConversationInv, SeenInv, TalkInv, CallsInv, Asked

\* For conversations of any length between the two formats, with answers of
\* text, of calls, of both and of neither: a backend that is asked again finds
\* its answers again, one turn each and in order, although each has been
\* translated for the client and back: of an answer given in one piece the text
\* and the calls, of a streamed one the text.  The calls it streamed are gone
\* (the translators drop them).
THEOREM AnswersSurviveTheRoundTrip == ConversationSpec => []BackendSeesItsAnswers
<1>1. ConversationInv => BackendSeesItsAnswers
  <2> SUFFICES ASSUME ConversationInv, Asked
               PROVE  LET turns == Turns(seen.messages)
                      IN  /\ Len(turns) = Len(said)
                          /\ \A i \in DOMAIN said :
                                /\ TextOf(turns[i]) = said[i].text
                                /\ CallsOf(turns[i]) = Normalised(Carried(said[i]))
    BY DEF BackendSeesItsAnswers
  <2>1. seen.messages = ToldNow /\ TurnsInv /\ said \in Seq(AnswerType)
    BY SeenIs DEF TalkTypeOK
  <2>2. DOMAIN said = 1 .. Len(said)
    BY <2>1
  <2> QED
    BY <2>1, <2>2 DEF TurnsInv, IsTurn
<1> QED
  BY <1>1, ConversationInvAlways, PTL

\* For the same conversations: the results of the calls reach the backend right
\* after the message that makes them, one for each call, under its id and in
\* the order of the calls, whether the client's format has them in one message
\* or in several.
THEOREM EveryCallIsAnswered == ConversationSpec => []CallsAreAnswered
<1>1. ConversationInv => CallsAreAnswered
  <2> SUFFICES ASSUME ConversationInv, Asked,
                      NEW i \in DOMAIN seen.messages, NEW end \in DOMAIN seen.messages,
                      NextTurn(seen.messages, i, end)
               PROVE  FlatMap(AnsweredBy, SubSeq(seen.messages, i + 1, end))
                        = Map(LAMBDA c : c.id, CallsOf(seen.messages[i]))
    BY DEF CallsAreAnswered
  <2>1. /\ seen.messages = ToldNow /\ ToldNow \in Seq(Message)
        /\ AnsweredUpTo(ToldNow, Len(ToldNow))
    BY SeenIs
  <2>2. i \in 1 .. Len(ToldNow) /\ end \in 1 .. Len(ToldNow)
    BY <2>1
  <2>3. Answered(seen.messages, i, end)
    BY <2>1, <2>2 DEF AnsweredUpTo
  <2> QED
    BY <2>3 DEF Answered, CallIds, Map
<1> QED
  BY <1>1, ConversationInvAlways, PTL

\* A list of tools is wrapped and unwrapped again.
LEMMA ToolsRoundTrip ==
    ASSUME NEW tools \in {<<>>, <<Tool>>}
    PROVE  /\ Map(LAMBDA t : t.function, convertAnthropicToolsToOAI(tools)) = tools
           /\ convertOAIToolsToAnthropic(Map(LAMBDA t : [function |-> t], tools)) = tools
<1>1. CASE tools = <<>>
  <2>1. Map(LAMBDA t : t.function, convertAnthropicToolsToOAI(tools)) = <<>>
    BY <1>1 DEF convertAnthropicToolsToOAI, Map
  <2>2. convertOAIToolsToAnthropic(Map(LAMBDA t : [function |-> t], tools)) = FlattenSeq(<<>>)
    BY <1>1 DEF convertOAIToolsToAnthropic, FlatMap, Map
  <2> QED
    BY <1>1, <2>1, <2>2, FlattenEmpty
<1>2. CASE tools = <<Tool>>
  <2> DEFINE w == [function |-> Tool]
  <2>1. w.function = Tool /\ "function" \in DOMAIN w
    OBVIOUS
  <2>2. Map(LAMBDA t : [function |-> t], tools) = <<w>>
    BY <1>2 DEF Map
  <2>3. convertAnthropicToolsToOAI(tools) = <<w>>
    BY <1>2 DEF convertAnthropicToolsToOAI, Map
  <2>4. [name |-> Tool.name, desc |-> Tool.desc, schema |-> Tool.schema] = Tool
    BY DEF Tool
  <2> DEFINE T == Tool
  <2> HIDE DEF w, T
  <2>5. Map(LAMBDA t : t.function, <<w>>) = <<T>>
    BY <2>1 DEF Map, T
  <2>6. convertOAIToolsToAnthropic(<<w>>) = FlattenSeq(<<<<T>>>>)
    BY <2>1, <2>4 DEF convertOAIToolsToAnthropic, FlatMap, Map, T
  <2>7. FlattenSeq(<<<<T>>>>) = <<T>>
    <3> DEFINE s == <<T>>
    <3>1. s \in Seq({T}) /\ [i \in DOMAIN s |-> <<s[i]>>] = <<<<T>>>>
      OBVIOUS
    <3>2. FlattenSeq([i \in DOMAIN s |-> <<s[i]>>]) = s
      BY <3>1, FlattenSingles
    <3> QED
      BY <3>1, <3>2
  <2> QED
    BY <1>2, <2>2, <2>3, <2>5, <2>6, <2>7 DEF T
<1> QED
  BY <1>1, <1>2

\* For every offer and in every turn: the system prompt, the tools, the stop
\* strings and the limit that the client sends are in the request that the
\* backend has, so an option is not lost once the list has grown.
THEOREM OffersReachTheBackend == ConversationSpec => []OfferReachesBackend
<1>1. ConversationInv => OfferReachesBackend
  <2> SUFFICES ASSUME ConversationInv, Asked
               PROVE  OfferReachesBackend
    BY DEF OfferReachesBackend
  <2>1. /\ seen = Request /\ seen.messages = ToldNow
        /\ SystemInv /\ client \in {"anthropic", "openai"} /\ talk \in Seq(Message)
    BY SeenIs DEF TalkTypeOK
  <2>2. /\ offer.system \in Systems /\ offer.tools \in {<<>>, <<Tool>>}
        /\ offer.limit \in {0, 5} /\ offer.stop \in {<<>>, <<<<"halt">>>>}
    BY SeenIs, OfferIs DEF TalkTypeOK
  <2>3. CASE client = "anthropic"
    <3>1. seen = AnthropicMessagesToOpenAIChat(AnthropicRequest)
      BY <2>1, <2>3 DEF Request
    <3>2. /\ seen.tools = convertAnthropicToolsToOAI(offer.tools)
          /\ seen.stop = Arr(offer.stop)
          /\ seen.max_tokens = IF offer.limit = 0 THEN 1 ELSE offer.limit
      BY <3>1 DEF AnthropicMessagesToOpenAIChat, AnthropicRequest
    <3>3. Map(LAMBDA t : t.function, seen.tools) = offer.tools
      BY <2>2, <3>2, ToolsRoundTrip
    <3>4. seen.stop.blocks = offer.stop
      BY <3>2 DEF Arr
    <3>5. ExtractSystem(seen.messages) = flattenSystem(offer.system)
      <4> DEFINE f == Forward(client, talk)
                 text == flattenSystem(offer.system)
                 m == [role |-> "system", content |-> Str(text)]
      <4>1. f \in Seq(Message) /\ NoSystem(f)
        BY <2>1, ForwardConcat DEF SystemInv
      <4>2. text \in Text
        BY <2>2, SystemIsText
      <4>3. CASE text = <<>>
        <5>1. ToldNow = <<>> \o f
          BY <4>3 DEF ToldNow, Told, Preamble
        <5> HIDE DEF f, text
        <5>2. <<>> \o f = f
          BY <4>1
        <5>3. ExtractSystem(f) = <<>>
          BY <4>1, NothingInFront
        <5> QED
          BY <2>1, <4>3, <5>1, <5>2, <5>3 DEF text
      <4>4. CASE text # <<>>
        <5>1. ToldNow = <<m>> \o f
          BY <2>3, <4>4 DEF ToldNow, Told, Preamble
        <5>2. Str(text) \in Content /\ Str(text).is = "string" /\ Str(text).text = text
          BY <4>2, ContentTypes
        <5>3. m \in Message /\ m.role = "system" /\ m.content = Str(text)
          BY <5>2 DEF Message, PlainMessages, Roles
        <5>4. AsString(m.content) = text
          BY <5>2, <5>3 DEF AsString
        <5> HIDE DEF f, text, m
        <5>5. ExtractSystem(<<m>> \o f) = AsString(m.content)
          BY <4>1, <5>3, SystemInFront
        <5> QED
          BY <2>1, <5>1, <5>4, <5>5 DEF text
      <4> QED
        BY <4>3, <4>4
    <3> QED
      BY <2>3, <3>2, <3>3, <3>4, <3>5 DEF OfferReachesBackend
  <2>4. CASE client # "anthropic"
    <3> DEFINE m == [role |-> "system", content |-> offer.system]
               w == <<m>> \o talk
               stop == IF offer.stop = <<>> THEN Null ELSE Str(offer.stop[1])
               tools == Map(LAMBDA t : [function |-> t], offer.tools)
    <3>1. seen = OpenAIChatToAnthropicMessages(OpenAIRequest)
      BY <2>1, <2>4 DEF Request
    <3>2. OpenAIRequest = IF offer.limit = 0
                          THEN [messages |-> w, tools |-> tools, stop |-> stop]
                          ELSE [messages |-> w, tools |-> tools, stop |-> stop,
                                max_completion_tokens |-> offer.limit]
      BY DEF OpenAIRequest
    <3>3. convertOAIToolsToAnthropic(tools) = offer.tools
      BY <2>2, ToolsRoundTrip
    <3>4. normalizeStopSequences(stop) = offer.stop
      BY <2>2 DEF normalizeStopSequences, Null, Str
    <3>5. offer.system.is = "string" => ExtractSystem(w) = offer.system.text
      <4>1. m \in Message /\ m.role = "system"
        BY <2>2, SystemIsText DEF Message, PlainMessages, Roles
      <4>2. NoSystem(talk)
        BY <2>1 DEF SystemInv
      <4>3. m.content = offer.system
        OBVIOUS
      <4> HIDE DEF m
      <4>4. ExtractSystem(<<m>> \o talk) = AsString(m.content)
        BY <2>1, <4>1, <4>2, SystemInFront
      <4> QED
        BY <2>2, <4>3, <4>4, SystemIsText
    <3> HIDE DEF w, tools, stop
    <3>6. /\ OpenAIRequest.messages = w /\ OpenAIRequest.tools = tools /\ OpenAIRequest.stop = stop
          /\ "max_tokens" \notin DOMAIN OpenAIRequest
          /\ "max_completion_tokens" \in DOMAIN OpenAIRequest <=> offer.limit # 0
          /\ offer.limit # 0 => OpenAIRequest.max_completion_tokens = offer.limit
      BY <2>2, <3>2
    <3>7. /\ seen.system = ExtractSystem(w)
          /\ seen.tools = offer.tools
          /\ seen.stop_sequences = offer.stop
          /\ seen.max_tokens = IF offer.limit = 0 THEN DefaultMaxTokens ELSE offer.limit
      BY <3>1, <3>3, <3>4, <3>6 DEF OpenAIChatToAnthropicMessages
    <3> QED
      BY <2>4, <3>5, <3>7 DEF OfferReachesBackend
  <2> QED
    BY <2>3, <2>4
<1> QED
  BY <1>1, ConversationInvAlways, PTL

=============================================================================
