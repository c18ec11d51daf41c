-------------------------- MODULE StreamTranslate ---------------------------
(***************************************************************************)
(* The two StreamTranslators of internal/api/translate/stream.go and the    *)
(* loop that drives them (internal/api/streaming_translate.go): one answer  *)
(* of a backend, read line by line, and the events the client is sent for   *)
(* it.  "toAnthropic" reads OpenAI chunks for an Anthropic client,          *)
(* "toOpenAI" reads Anthropic events for an OpenAI client.  A line is what  *)
(* the translators tell apart in it; identifiers, model names and the       *)
(* prompt's tokens are left out.                                            *)
(***************************************************************************)
EXTENDS Integers, Sequences, FiniteSets

CONSTANTS
    Texts,     \* non-empty pieces of text
    NoText,    \* what an event without text carries
    Tokens,    \* counts of output tokens a backend may report
    MaxLines   \* bound: lines of one answer

ASSUME NoTextAssumption == NoText \notin Texts
ASSUME TokensAssumption == Tokens \subseteq Nat
ASSUME MaxLinesAssumption == MaxLines \in Nat

VARIABLES
    dir,           \* which translator is at work
    loop,          \* the driver: "idle", "open", "finished", "left"
    started,       \* message_start, or the role chunk, has been sent
    blockStarted,  \* content_block_start has been sent
    pendingEvent,  \* the event line whose data line has not come
    done,          \* [DONE] or message_stop has been read
    outputTok,     \* Usage()
    out,           \* the events the client has been sent
    due,           \* backend: the event whose data line comes next
    spoken,        \* backend: the pieces of text it has sent
    counted,       \* backend: the output tokens it reported last
    called,        \* backend: the calls of tools it has sent
    stage,         \* backend: how far its Anthropic events have come
    lines          \* backend: lines it has sent

translator == <<dir, started, blockStarted, pendingEvent, done, outputTok>>
heardVars == <<spoken, counted, called, stage>>
backendVars == <<due, heardVars, lines>>
streamVars == <<translator, loop, out, backendVars>>

Directions == {"toAnthropic", "toOpenAI"}
AnthropicEvents == {"message_start", "content_block_start", "content_block_delta",
                    "content_block_stop", "message_delta", "message_stop", "ping"}
NoEvent == "no event"

\* makeAnthropicSSE, makeOAIChunk: an event on its way to the client.
Event(name, text, tok) == [event |-> name, text |-> text, tok |-> tok]
Plain(name) == Event(name, NoText, 0)

\* How far an Anthropic stream has come; "astray" when an event came out of
\* the order in which its format sends them.
Stages == {"nothing", "begun", "ending", "ended", "astray"}

StreamInit ==
    /\ dir \in Directions
    /\ loop = "idle"
    /\ started = FALSE /\ blockStarted = FALSE /\ done = FALSE
    /\ pendingEvent = NoEvent /\ due = NoEvent
    /\ outputTok = 0 /\ counted = 0 /\ called = 0
    /\ out = <<>> /\ spoken = <<>>
    /\ stage = "nothing"
    /\ lines = 0

\* NewOpenAIToAnthropicTranslator, NewAnthropicToOpenAITranslator.
Fresh ==
    /\ started' = FALSE /\ blockStarted' = FALSE /\ done' = FALSE
    /\ pendingEvent' = NoEvent /\ due' = NoEvent
    /\ outputTok' = 0 /\ counted' = 0 /\ called' = 0
    /\ out' = <<>> /\ spoken' = <<>>
    /\ stage' = "nothing"
    /\ lines' = 0

\* A fresh translator for an answer whose status is 2xx.
Open(d) ==
    /\ loop = "idle"
    /\ loop' = "open"
    /\ dir' = d
    /\ Fresh

\* The relay returns; its translator is not used again.
Close ==
    /\ loop \in {"finished", "left"}
    /\ loop' = "idle"
    /\ dir' = dir
    /\ Fresh

\* scanner.Scan and the test of Done() at the end of the loop's body.
Scan(d) ==
    /\ loop = "open" /\ dir = d /\ ~done
    /\ lines < MaxLines
    /\ lines' = lines + 1
    /\ UNCHANGED <<dir, loop>>

\* Mutant of Noise: a blank line ends the event.
NoiseEndsEvent(d) ==
    /\ Scan(d)
    /\ pendingEvent' = NoEvent
    /\ UNCHANGED <<started, blockStarted, done, outputTok, out>>
    /\ UNCHANGED <<due, heardVars>>

\* A comment or a blank line, and for the OpenAI translator data that is no
\* JSON: nothing is returned and what is known is kept.
Noise(d) ==
    /\ Scan(d)
    /\ UNCHANGED <<started, blockStarted, pendingEvent, done, outputTok, out>>
    /\ UNCHANGED <<due, heardVars>>

-----------------------------------------------------------------------------
(* OpenAI chunks for an Anthropic client.                                  *)

\* Mutant of ChunkEvents: a block is opened by the first text only, after an
\* empty content has marked it as open.
ChunkEventsLateBlock(content, text) ==
    (IF started THEN <<>> ELSE <<Plain("message_start")>>)
    \o (IF text = NoText \/ blockStarted THEN <<>> ELSE <<Plain("content_block_start")>>)
    \o (IF text # NoText THEN <<Event("content_block_delta", text, 0)>> ELSE <<>>)

\* The events ProcessLine returns for a chunk: message_start before the first
\* one, content_block_start with the first content, empty or not, and a delta
\* for content that is not empty.  content: "none", "empty" or a text.
ChunkEvents(content, text) ==
    (IF started THEN <<>> ELSE <<Plain("message_start")>>)
    \o (IF content = "none" \/ blockStarted THEN <<>> ELSE <<Plain("content_block_start")>>)
    \o (IF text # NoText THEN <<Event("content_block_delta", text, 0)>> ELSE <<>>)

\* A chunk: without a choice or a content ("none"), with an empty content or
\* with text; it may report usage.  One without content may begin a call of a
\* tool (call = 1), which the translator does not look at.
Chunk(content, text, usage, call) ==
    /\ Scan("toAnthropic")
    /\ (content = "text") <=> (text # NoText)
    /\ call = 1 => content = "none"
    /\ outputTok' = IF usage = -1 THEN outputTok ELSE usage
    /\ out' = out \o ChunkEvents(content, text)
    /\ started' = TRUE
    /\ blockStarted' = (blockStarted \/ content # "none")
    /\ counted' = IF usage = -1 THEN counted ELSE usage
    /\ spoken' = IF text = NoText THEN spoken ELSE Append(spoken, text)
    /\ called' = called + call
    /\ UNCHANGED <<pendingEvent, done, due, stage>>

\* data: [DONE].
ChunkDone ==
    /\ Scan("toAnthropic")
    /\ done' = TRUE
    /\ UNCHANGED <<started, blockStarted, pendingEvent, outputTok, out, due, heardVars>>

\* Finish of the OpenAI to Anthropic translator.
AnthropicFinish ==
    (IF blockStarted THEN <<Plain("content_block_stop")>> ELSE <<>>)
    \o <<Event("message_delta", NoText, outputTok), Plain("message_stop")>>

-----------------------------------------------------------------------------
(* Anthropic events for an OpenAI client.                                  *)

\* An event line.
EventLine(e) ==
    /\ Scan("toOpenAI")
    /\ due = NoEvent
    /\ due' = e
    /\ pendingEvent' = e
    /\ UNCHANGED <<started, blockStarted, done, outputTok, out, heardVars>>

\* What ProcessLine returns for the data of an event.
EventChunks(e, text, usage) ==
    CASE e = "message_start" /\ ~started -> <<Plain("role")>>
      [] e = "content_block_delta" /\ text # NoText -> <<Event("content", text, 0)>>
      [] e = "message_delta" -> <<Event("finish", NoText, usage)>>
      [] e = "message_stop" -> <<Plain("[DONE]")>>
      [] OTHER -> <<>>

\* The order a client can follow: message_start, the deltas of the blocks, one
\* message_delta, message_stop.  (The format lets a backend send message_delta
\* again, and the translator then sends finish again: that is astray as well.)
StageAfter(e) ==
    CASE e \in {"content_block_start", "content_block_stop", "ping"} -> stage
      [] e = "message_start" /\ stage = "nothing" -> "begun"
      [] e = "content_block_delta" /\ stage = "begun" -> "begun"
      [] e = "message_delta" /\ stage = "begun" -> "ending"
      [] e = "message_stop" /\ stage \in {"begun", "ending"} -> "ended"
      [] OTHER -> "astray"

\* The data line of the event.  text # NoText is a text_delta that is not
\* empty; other deltas (thinking, tool input) give nothing, and nor does a
\* block that begins a call of a tool (call = 1).
DataLine(text, usage, call) ==
    LET tok == IF pendingEvent = "message_delta" /\ usage # -1 THEN usage ELSE outputTok
    IN  /\ Scan("toOpenAI")
        /\ due # NoEvent
        /\ text # NoText => due = "content_block_delta"
        /\ usage # -1 => due = "message_delta"
        /\ call = 1 => due = "content_block_start"
        /\ pendingEvent' = NoEvent
        /\ outputTok' = tok
        /\ out' = out \o EventChunks(pendingEvent, text, tok)
        /\ started' = (started \/ pendingEvent = "message_start")
        /\ done' = (done \/ pendingEvent = "message_stop")
        /\ due' = NoEvent
        /\ spoken' = IF text = NoText THEN spoken ELSE Append(spoken, text)
        /\ counted' = IF usage = -1 THEN counted ELSE usage
        /\ called' = called + call
        /\ stage' = StageAfter(due)
        /\ UNCHANGED blockStarted

\* The data of an event is no JSON: it is dropped, and its event with it.
BrokenData ==
    /\ Scan("toOpenAI")
    /\ due # NoEvent
    /\ due' = NoEvent
    /\ pendingEvent' = NoEvent
    /\ UNCHANGED <<started, blockStarted, done, outputTok, out, heardVars>>

\* Finish of the Anthropic to OpenAI translator.
OpenAIFinish == IF done THEN <<>> ELSE <<Plain("[DONE]")>>

-----------------------------------------------------------------------------
\* The end of the body, a read error or Done(): the closing events are sent.
Finish ==
    /\ loop = "open"
    /\ loop' = "finished"
    /\ out' = out \o (IF dir = "toAnthropic" THEN AnthropicFinish ELSE OpenAIFinish)
    /\ UNCHANGED <<translator, backendVars>>

\* The client leaves: a write fails or its context is done, the loop returns
\* without the closing events.  (Which events of the last line it was still sent
\* is of no account.)  data: [DONE] is followed by no write before the loop ends.
Leave ==
    /\ loop = "open"
    /\ dir = "toAnthropic" => ~done
    /\ loop' = "left"
    /\ UNCHANGED <<translator, out, backendVars>>

StreamLine ==
    \/ \E d \in Directions : Noise(d)
    \/ \E u \in Tokens \cup {-1} :
          \/ \E c \in {"none", "empty"}, k \in {0, 1} : Chunk(c, NoText, u, k)
          \/ \E t \in Texts : Chunk("text", t, u, 0)
    \/ ChunkDone
    \/ \E e \in AnthropicEvents : EventLine(e)
    \/ \E t \in Texts \cup {NoText}, u \in Tokens \cup {-1}, k \in {0, 1} :
          DataLine(t, u, k)
    \/ BrokenData

StreamNext ==
    \/ \E d \in Directions : Open(d)
    \/ StreamLine \/ Finish \/ Leave \/ Close

StreamSpec == StreamInit /\ [][StreamNext]_streamVars

-----------------------------------------------------------------------------
\* What an Anthropic client is sent: message_start first, text only inside a
\* block that was opened and is closed before message_delta, and message_stop
\* last.  (A stream in which no chunk came has no message_start.)
AnthropicEventsInOrder ==
    (dir = "toAnthropic" /\ started) =>
        LET n == Len(out)
            is(i, e) == out[i].event = e
        IN  /\ \A i \in 1 .. n :
                  /\ is(i, "message_start") <=> i = 1
                  /\ is(i, "content_block_start") => i = 2
                  /\ out[i].event \in {"content_block_delta", "content_block_stop"}
                        => i > 2 /\ is(2, "content_block_start")
                  /\ is(i, "content_block_stop") => loop = "finished" /\ i = n - 2
                  /\ is(i, "message_delta") <=> (loop = "finished" /\ i = n - 1)
                  /\ is(i, "message_stop") <=> (loop = "finished" /\ i = n)
            /\ (loop = "finished" /\ is(2, "content_block_start"))
                  => is(n - 2, "content_block_stop")

\* What an OpenAI client is sent: [DONE] once, as the last thing, whether the
\* backend has sent message_stop or has ended without it.
DoneOnceAndLast ==
    dir = "toOpenAI" =>
        /\ \A i \in 1 .. Len(out) :
              out[i].event = "[DONE]" => i = Len(out) /\ (done \/ loop = "finished")
        /\ loop = "finished" => out # <<>> /\ out[Len(out)].event = "[DONE]"

\* What an OpenAI client is sent of a backend whose events, as far as they were
\* intact, came in the order of StageAfter: the role once and first, the content
\* after it, then finish_reason, and only [DONE] after that.
OpenAIEventsInOrder ==
    (dir = "toOpenAI" /\ stage # "astray") =>
        LET is(i, e) == out[i].event = e
        IN  \A i \in 1 .. Len(out) :
              /\ is(i, "role") <=> (i = 1 /\ stage # "nothing")
              /\ is(i, "content") => i > 1
              /\ is(i, "finish") => i > 1 /\ \A k \in i + 1 .. Len(out) : is(k, "[DONE]")

\* The order of the events of a translated stream, with noise and broken lines
\* in between and wherever it ends.  An Anthropic client gets them in order and
\* once each, and the closing ones unless the stream was left, for any chunks
\* in any order (if there is one); an OpenAI client gets [DONE] once and last
\* for any backend, and all of its events in order for one that keeps to the
\* order of its own.
StreamInOrder == AnthropicEventsInOrder /\ DoneOnceAndLast /\ OpenAIEventsInOrder

\* Which of the first n events of a stream carry text.
TextUpTo(events, n) ==
    {i \in 1 .. n : events[i].event \in {"content_block_delta", "content"}}

\* The text the client puts together from the events it was sent: its k-th
\* piece is in the k-th event with text.
ReceivedText ==
    LET texts == TextUpTo(out, Len(out))
        At(k) == CHOOSE i \in texts : Cardinality(TextUpTo(out, i)) = k
    IN  [k \in 1 .. Cardinality(texts) |-> out[At(k)].text]

\* Nothing of the answer is lost on the way, whatever lines come between an
\* event and its data: the client has every piece of text, in order, and the
\* history gets the backend's count of tokens.
AnswerKept == ReceivedText = spoken /\ outputTok = counted

=============================================================================
