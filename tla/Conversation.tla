---------------------------- MODULE Conversation ----------------------------
(***************************************************************************)
(* A conversation of several turns between a client and a backend that      *)
(* speak different formats.  Every turn the handler translates the client's *)
(* whole message list (formatted anew, as the API has no memory), the       *)
(* backend answers with text or calls of tools, plainly or as a stream, the *)
(* answer is translated back, and the client puts what it received into its *)
(* next request together with the results of the calls.  Client and backend *)
(* are not under src/: they are modelled by what the two formats let them   *)
(* do.                                                                      *)
(***************************************************************************)
EXTENDS Translation, StreamTranslate

CONSTANTS
    Offers,     \* what clients bring along, a subset of AllOffers
    MaxTurns,   \* bound: answers of the backend
    MaxCalls    \* bound: calls of tools in one answer that is not streamed

\* A system prompt as a string or as an array of blocks, a tool, an optional
\* limit, a stop string.
Tool == [name |-> "tool", desc |-> "does", schema |-> "schema"]
Systems == {Str(<<>>), Str(<<"be brief">>), Arr(<<TextBlock(<<"be brief">>)>>)}
AllOffers == [system : Systems, tools : {<<>>, <<Tool>>}, limit : {0, 5},
              stop : {<<>>, <<<<"halt">>>>}]

ASSUME OffersAssumption == Offers \subseteq AllOffers
ASSUME BoundsAssumption == MaxTurns \in Nat /\ MaxCalls \in Nat

VARIABLES
    client,     \* the client's format; the backend speaks the other one
    offer,      \* the client's system prompt, tools, limit and stop strings
    talk,       \* the client's message list, in its own format
    said,       \* the backend's answers: text, calls and whether streamed
    seen,       \* the request the backend has received
    reply,      \* the last whole answer as the client received it
    phase       \* "asking", "answering", "streaming", "writing", "over"

talkVars == <<client, offer, talk, said, seen, reply, phase>>
conversationVars == <<talkVars, streamVars>>

NoReply == [message |-> [role |-> "assistant", content |-> Null], reason |-> "none"]

ConversationInit ==
    /\ StreamInit
    /\ client \in {"anthropic", "openai"}
    /\ dir = IF client = "anthropic" THEN "toAnthropic" ELSE "toOpenAI"
    /\ offer \in Offers
    /\ talk = <<[role |-> "user", content |-> Str(<<"hello">>)]>>
    /\ said = <<>>
    /\ seen = <<>>
    /\ reply = NoReply
    /\ phase = "asking"

\* The request in the client's format.
AnthropicRequest ==
    [max_tokens |-> IF offer.limit = 0 THEN 1 ELSE offer.limit,
     system |-> offer.system, messages |-> talk, tools |-> offer.tools,
     stop_sequences |-> offer.stop]
OpenAIRequest ==
    LET messages == <<[role |-> "system", content |-> offer.system]>> \o talk
        tools == Map(LAMBDA t : [function |-> t], offer.tools)
        stop == IF offer.stop = <<>> THEN Null ELSE Str(offer.stop[1])
    IN  IF offer.limit = 0 THEN [messages |-> messages, tools |-> tools, stop |-> stop]
        ELSE [messages |-> messages, tools |-> tools, stop |-> stop,
              max_completion_tokens |-> offer.limit]

\* executePlain and executeStream: the request is translated and forwarded.
Ask ==
    /\ phase = "asking"
    /\ Len(said) < MaxTurns
    /\ seen' = IF client = "anthropic"
               THEN AnthropicMessagesToOpenAIChat(AnthropicRequest)
               ELSE OpenAIChatToAnthropicMessages(OpenAIRequest)
    /\ phase' = "answering"
    /\ UNCHANGED <<client, offer, talk, said, reply, streamVars>>

\* What a backend may answer in one piece: text, calls with fresh ids, both or
\* nothing.
Calls(n, args) == [i \in 1 .. n |-> ToolCall(<<Len(said) + 1, i>>, args)]
SaidTexts == {<<>>} \cup {<<x>> : x \in Texts}
CallArguments == IF client = "anthropic" THEN {"{a}", "not json"} ELSE {"{a}"}
Answers ==
    {[text |-> t, calls |-> Calls(n, a), streamed |-> FALSE] :
        t \in SaidTexts, n \in 0 .. MaxCalls, a \in CallArguments}

\* The answer in the backend's format.
Usage == [prompt_tokens |-> 3, completion_tokens |-> 2]
OpenAIAnswer(a) ==
    [message |-> WithCalls("assistant", IF a.text = <<>> THEN Null ELSE Str(a.text), a.calls),
     finish_reason |-> IF a.calls = <<>> THEN "stop" ELSE "tool_calls",
     usage |-> Usage]
AnthropicAnswer(a) ==
    [content |-> Arr((IF a.text = <<>> THEN <<>> ELSE <<TextBlock(a.text)>>)
                     \o ToolUseBlocks(a.calls)),
     stop_reason |-> IF a.calls = <<>> THEN "end_turn" ELSE "tool_use",
     usage |-> [input_tokens |-> 3, output_tokens |-> 2]]

\* What the client receives of an answer that is not streamed.
Received(a) ==
    IF client = "anthropic"
    THEN LET r == OpenAIChatResponseToAnthropicMessage(OpenAIAnswer(a))
         IN  [message |-> [role |-> r.role, content |-> r.content], reason |-> r.stop_reason]
    ELSE LET r == AnthropicMessageToOpenAIChatResponse(AnthropicAnswer(a))
         IN  [message |-> r.message, reason |-> r.finish_reason]

\* A whole answer.
Answer(a) ==
    /\ phase = "answering"
    /\ said' = Append(said, a)
    /\ reply' = Received(a)
    /\ talk' = Append(talk, reply'.message)
    /\ phase' = "writing"
    /\ UNCHANGED <<client, offer, seen, streamVars>>

\* A streamed answer begins.
AnswerStream ==
    /\ phase = "answering"
    /\ Open(IF client = "anthropic" THEN "toAnthropic" ELSE "toOpenAI")
    /\ phase' = "streaming"
    /\ reply' = NoReply
    /\ UNCHANGED <<client, offer, talk, said, seen>>

StreamStep ==
    /\ phase = "streaming"
    /\ StreamLine \/ Finish \/ Leave
    /\ UNCHANGED talkVars

\* The stream is over: the client adds the message it put together.  The calls
\* the backend has streamed are not in it, as the translators drop them; without
\* any text there is nothing to add, and the client gives up.
TakeStream ==
    /\ phase = "streaming"
    /\ Close
    /\ LET text == ReceivedText
       IN  IF loop = "finished" /\ text # <<>>
           THEN /\ said' = Append(said, [text |-> spoken, calls |-> Calls(called, "{a}"),
                                         streamed |-> TRUE])
                /\ talk' = Append(talk, [role |-> "assistant",
                                         content |-> IF client = "anthropic"
                                                     THEN Arr(<<TextBlock(text)>>)
                                                     ELSE Str(text)])
                /\ phase' = "writing"
           ELSE UNCHANGED <<said, talk>> /\ phase' = "over"
    /\ UNCHANGED <<client, offer, seen, reply>>

\* The client's next message: the results of the calls in its own format,
\* or, when there are none, a question.
ClientCalls ==
    LET m == talk[Len(talk)]
    IN  IF client = "anthropic"
        THEN Map(LAMBDA b : b.id, OfType(m.content.blocks, "tool_use"))
        ELSE IF "tool_calls" \in DOMAIN m THEN Map(LAMBDA c : c.id, m.tool_calls) ELSE <<>>
Question == [role |-> "user", content |-> Str(<<"next">>)]
ToolAnswers(ids) ==
    IF client = "anthropic"
    THEN <<[role |-> "user", content |-> Arr(Map(LAMBDA id : ToolResult(id, Str(<<"done">>)), ids))]>>
    ELSE Map(LAMBDA id : [role |-> "tool", tool_call_id |-> id, content |-> Str(<<"done">>)], ids)

Write ==
    /\ phase = "writing"
    /\ talk' = talk \o (IF ClientCalls = <<>> THEN <<Question>> ELSE ToolAnswers(ClientCalls))
    /\ phase' = "asking"
    /\ UNCHANGED <<client, offer, said, seen, reply, streamVars>>

\* The client has nothing more to say.
EndTalk ==
    /\ phase = "asking" /\ Len(said) = MaxTurns
    /\ phase' = "over"
    /\ UNCHANGED <<client, offer, talk, said, seen, reply, streamVars>>

ConversationNext ==
    \/ Ask \/ AnswerStream \/ StreamStep \/ TakeStream \/ Write \/ EndTalk
    \/ \E a \in Answers : Answer(a)

ConversationSpec == ConversationInit /\ [][ConversationNext]_conversationVars

-----------------------------------------------------------------------------
\* The backend has the client's request.
Asked == phase \in {"answering", "streaming"}

\* A message of the request in either format.
TextOf(m) == IF m.content.is = "array" THEN JoinedText(m.content.blocks) ELSE AsString(m.content)
CallsOf(m) ==
    IF "tool_calls" \in DOMAIN m THEN m.tool_calls
    ELSE IF m.content.is = "array" THEN ToolCallsOf(m.content.blocks) ELSE <<>>
AnsweredBy(m) ==
    IF m.role = "tool" THEN <<m.tool_call_id>>
    ELSE IF m.content.is = "array" THEN Map(LAMBDA b : b.id, OfType(m.content.blocks, "tool_result"))
    ELSE <<>>

Turns(msgs) == FlatMap(LAMBDA m : IF m.role = "assistant" THEN <<m>> ELSE <<>>, msgs)

\* Arguments that are no JSON come back as {}.
Normalised(calls) == Map(LAMBDA c : ToolCall(c.id, MarshalInput(ParseArguments(c.arguments))), calls)

\* The calls of an answer that reach the client: those of a streamed answer do
\* not (TakeStream).
Carried(a) == IF a.streamed THEN <<>> ELSE a.calls

\* Translation there and back: in every request the backend finds each of its
\* earlier answers again, in order, also one that was empty: of an answer given
\* in one piece its text and its calls, of a streamed one its text.
BackendSeesItsAnswers ==
    Asked =>
        LET turns == Turns(seen.messages)
        IN  /\ Len(turns) = Len(said)
            /\ \A i \in DOMAIN said :
                  /\ TextOf(turns[i]) = said[i].text
                  /\ CallsOf(turns[i]) = Normalised(Carried(said[i]))

\* Message i is the backend's, and its next one follows message end, if any.
NextTurn(msgs, i, end) ==
    /\ msgs[i].role = "assistant"
    /\ i <= end
    /\ \A j \in i + 1 .. end : msgs[j].role # "assistant"
    /\ end = Len(msgs) \/ msgs[end + 1].role = "assistant"

\* Every call of a tool is answered, once and under its own id, between the
\* message that makes the call and the next message of the backend.
CallsAreAnswered ==
    Asked =>
        \A i \in DOMAIN seen.messages, end \in DOMAIN seen.messages :
            NextTurn(seen.messages, i, end)
                => FlatMap(AnsweredBy, SubSeq(seen.messages, i + 1, end))
                       = Map(LAMBDA c : c.id, CallsOf(seen.messages[i]))

\* The system prompt, the tools, the stop strings and the limit of the client
\* reach the backend in every turn; an Anthropic backend is always given a
\* limit.  (An OpenAI system message whose content is an array is lost.)
OfferReachesBackend ==
    Asked =>
        IF client = "anthropic"
        THEN /\ ExtractSystem(seen.messages) = flattenSystem(offer.system)
             /\ Map(LAMBDA t : t.function, seen.tools) = offer.tools
             /\ seen.stop.blocks = offer.stop
             /\ seen.max_tokens = IF offer.limit = 0 THEN 1 ELSE offer.limit
        ELSE /\ offer.system.is = "string" => seen.system = offer.system.text
             /\ seen.tools = offer.tools
             /\ seen.stop_sequences = offer.stop
             /\ seen.max_tokens = IF offer.limit = 0 THEN DefaultMaxTokens ELSE offer.limit

=============================================================================
