---------------------------- MODULE Translation -----------------------------
(***************************************************************************)
(* Requests and whole answers between the OpenAI and the Anthropic format   *)
(* (internal/api/translate, request.go and response.go), as operators.      *)
(* A string is a sequence of pieces of text: joining strings with a newline *)
(* is concatenation.  An optional field of a JSON object is a field the     *)
(* record may lack.  Fields that are only passed on (model, stream,         *)
(* temperature, top_p, the names of called tools, ids of answers) and JSON  *)
(* of a wrong shape are left out.                                           *)
(***************************************************************************)
EXTENDS Integers, Sequences, SequencesExt

\* A JSON value in the place of a content: null, a string or an array.
Null == [is |-> "null"]
Str(text) == [is |-> "string", text |-> text]
Arr(blocks) == [is |-> "array", blocks |-> blocks]

\* v.(string) with its zero value.
AsString(v) == IF v.is = "string" THEN v.text ELSE <<>>

TextBlock(text) == [type |-> "text", text |-> text]
ToolUse(id, input) == [type |-> "tool_use", id |-> id, input |-> input]
ToolResult(id, content) == [type |-> "tool_result", id |-> id, content |-> content]
ToolCall(id, arguments) == [id |-> id, arguments |-> arguments]

\* for _, x := range xs { out = append(out, F(x)) }
Map(F(_), xs) == [i \in DOMAIN xs |-> F(xs[i])]

\* for _, x := range xs { out = append(out, F(x)...) }
FlatMap(F(_), xs) == FlattenSeq(Map(F, xs))

OfType(blocks, type) == FlatMap(LAMBDA b : IF b.type = type THEN <<b>> ELSE <<>>, blocks)

DefaultMaxTokens == 4096

\* json.Unmarshal of the arguments of a call, {} when they are not JSON.
ParseArguments(arguments) ==
    [object |-> IF arguments = "not json" THEN "{}" ELSE arguments]

\* json.Marshal of the input of a call.
MarshalInput(input) == input.object

\* The tool_use blocks of the calls of an OpenAI message.
ToolUseBlocks(calls) ==
    Map(LAMBDA c : ToolUse(c.id, ParseArguments(c.arguments)), calls)

\* The calls of the tool_use blocks of an Anthropic message.
ToolCallsOf(blocks) ==
    Map(LAMBDA b : ToolCall(b.id, MarshalInput(b.input)), OfType(blocks, "tool_use"))

\* The text blocks of an Anthropic message, joined.
JoinedText(blocks) == FlatMap(LAMBDA b : IF b.type = "text" THEN b.text ELSE <<>>, blocks)

\* A message of an OpenAI API: it has tool_calls only if there are calls.
WithCalls(role, content, calls) ==
    IF calls = <<>> THEN [role |-> role, content |-> content]
    ELSE [role |-> role, content |-> content, tool_calls |-> calls]

\* A text block for a string that is not empty.
TextBlocks(content) ==
    IF AsString(content) = <<>> THEN <<>> ELSE <<TextBlock(AsString(content))>>

-----------------------------------------------------------------------------
(* Requests, OpenAI to Anthropic.                                          *)

\* extractSystemMessages: the strings of the system messages, and the rest.
ExtractSystem(msgs) ==
    FlatMap(LAMBDA m : IF m.role = "system" THEN AsString(m.content) ELSE <<>>, msgs)
RemainingMessages(msgs) ==
    FlatMap(LAMBDA m : IF m.role # "system" THEN <<m>> ELSE <<>>, msgs)

\* convertToolCallsToAnthropicBlocks
convertToolCallsToAnthropicBlocks(msg) ==
    TextBlocks(msg.content) \o ToolUseBlocks(msg.tool_calls)

\* convertOAIContentToAnthropic
convertOAIContentToAnthropic(msg) ==
    IF "tool_calls" \in DOMAIN msg THEN Arr(convertToolCallsToAnthropicBlocks(msg))
    ELSE IF msg.content = Null THEN Arr(<<TextBlock(<<>>)>>)
    ELSE msg.content

\* convertToolResultToAnthropic
convertToolResultToAnthropic(msg) ==
    Arr(<<ToolResult(msg.tool_call_id, Str(AsString(msg.content)))>>)

\* convertOAIMessagesToAnthropic
convertOAIMessagesToAnthropic(msgs) ==
    Map(LAMBDA m : IF m.role \in {"function", "tool"}
                   THEN [role |-> "user", content |-> convertToolResultToAnthropic(m)]
                   ELSE [role |-> m.role, content |-> convertOAIContentToAnthropic(m)],
        msgs)

\* convertOAIToolsToAnthropic: a tool that is no function is dropped, an empty
\* description is left out, a missing schema becomes null.
convertOAIToolsToAnthropic(tools) ==
    FlatMap(LAMBDA t : IF "function" \in DOMAIN t
                       THEN <<[name |-> t.function.name, desc |-> t.function.desc,
                               schema |-> t.function.schema]>>
                       ELSE <<>>,
            tools)

\* Mutant of normalizeStopSequences: only an array is understood.
normalizeStopArrays(stop) == IF stop.is = "array" THEN stop.blocks ELSE <<>>

\* normalizeStopSequences: a string becomes an array of one.
normalizeStopSequences(stop) ==
    CASE stop.is = "string" -> <<stop.text>>
      [] stop.is = "array" -> stop.blocks
      [] OTHER -> <<>>

\* OpenAIChatToAnthropicMessages
OpenAIChatToAnthropicMessages(req) ==
    [max_tokens |-> IF "max_tokens" \in DOMAIN req THEN req.max_tokens
                    ELSE IF "max_completion_tokens" \in DOMAIN req
                    THEN req.max_completion_tokens
                    ELSE DefaultMaxTokens,
     system |-> ExtractSystem(req.messages),
     messages |-> convertOAIMessagesToAnthropic(RemainingMessages(req.messages)),
     tools |-> convertOAIToolsToAnthropic(req.tools),
     stop_sequences |-> normalizeStopSequences(req.stop)]

-----------------------------------------------------------------------------
(* Requests, Anthropic to OpenAI.                                          *)

\* flattenSystem: a string, or the texts of an array of blocks; a null is printed.
flattenSystem(system) ==
    CASE system.is = "string" -> system.text
      [] system.is = "array" -> JoinedText(system.blocks)
      [] OTHER -> <<"<nil>">>

\* Mutant of convertAnthropicBlocksToOAI: one tool message, for the first result.
convertAnthropicBlocksFirstResult(role, blocks) ==
    LET calls == ToolCallsOf(blocks)
        results == OfType(blocks, "tool_result")
    IN  (IF calls = <<>> /\ OfType(blocks, "text") = <<>> THEN <<>>
         ELSE <<WithCalls(role, Str(JoinedText(blocks)), calls)>>)
        \o (IF results = <<>> THEN <<>>
            ELSE <<[role |-> "tool", tool_call_id |-> results[1].id,
                    content |-> Str(AsString(results[1].content))]>>)

\* convertAnthropicBlocksToOAI: one message with the texts and the calls,
\* followed by a tool message for every result.
convertAnthropicBlocksToOAI(role, blocks) ==
    LET calls == ToolCallsOf(blocks)
        said ==
            IF OfType(blocks, "text") # <<>>
            THEN <<WithCalls(role, Str(JoinedText(blocks)), calls)>>
            ELSE IF calls # <<>> THEN <<WithCalls(role, Null, calls)>>
            ELSE <<>>
    IN  said \o Map(LAMBDA b : [role |-> "tool", tool_call_id |-> b.id,
                                content |-> Str(AsString(b.content))],
                    OfType(blocks, "tool_result"))

\* convertAnthropicMessagesToOAI
convertAnthropicMessagesToOAI(msgs) ==
    FlatMap(LAMBDA m : IF m.content.is = "array"
                       THEN convertAnthropicBlocksToOAI(m.role, m.content.blocks)
                       ELSE <<m>>,
            msgs)

\* convertAnthropicToolsToOAI
convertAnthropicToolsToOAI(tools) == Map(LAMBDA t : [function |-> t], tools)

\* AnthropicMessagesToOpenAIChat
AnthropicMessagesToOpenAIChat(req) ==
    LET system == flattenSystem(req.system)
    IN  [max_tokens |-> req.max_tokens,
         messages |-> (IF system = <<>> THEN <<>>
                       ELSE <<[role |-> "system", content |-> Str(system)]>>)
                      \o convertAnthropicMessagesToOAI(req.messages),
         tools |-> convertAnthropicToolsToOAI(req.tools),
         stop |-> Arr(req.stop_sequences)]

-----------------------------------------------------------------------------
(* Whole answers.                                                          *)

\* mapOAIFinishReason
mapOAIFinishReason(reason) ==
    CASE reason = "length" -> "max_tokens"
      [] reason = "tool_calls" -> "tool_use"
      [] OTHER -> "end_turn"

\* mapAnthropicStopReason
mapAnthropicStopReason(reason) ==
    CASE reason = "max_tokens" -> "length"
      [] reason = "tool_use" -> "tool_calls"
      [] OTHER -> "stop"

\* Mutant of extractOAIChoice: the text is taken only when there are no calls.
extractOAIChoiceCallsFirst(message) ==
    IF "tool_calls" \in DOMAIN message
    THEN ToolUseBlocks(message.tool_calls)
    ELSE <<TextBlock(AsString(message.content))>>

\* extractOAIChoice: the blocks of the first choice's message, at least one.
extractOAIChoice(message) ==
    LET blocks == TextBlocks(message.content)
                  \o (IF "tool_calls" \in DOMAIN message
                      THEN ToolUseBlocks(message.tool_calls) ELSE <<>>)
    IN  IF blocks = <<>> THEN <<TextBlock(<<>>)>> ELSE blocks

\* OpenAIChatResponseToAnthropicMessage
OpenAIChatResponseToAnthropicMessage(resp) ==
    [role |-> "assistant",
     content |-> Arr(extractOAIChoice(resp.message)),
     stop_reason |-> mapOAIFinishReason(resp.finish_reason),
     usage |-> [input_tokens |-> resp.usage.prompt_tokens,
                output_tokens |-> resp.usage.completion_tokens]]

\* AnthropicMessageToOpenAIChatResponse, with extractAnthropicContent.
AnthropicMessageToOpenAIChatResponse(resp) ==
    [message |-> WithCalls("assistant", Str(JoinedText(resp.content.blocks)),
                           ToolCallsOf(resp.content.blocks)),
     finish_reason |-> mapAnthropicStopReason(resp.stop_reason),
     usage |-> [prompt_tokens |-> resp.usage.input_tokens,
                completion_tokens |-> resp.usage.output_tokens,
                total_tokens |-> resp.usage.input_tokens + resp.usage.output_tokens]]

=============================================================================
