--------------------------- MODULE MCStreamUsage ---------------------------
(* StreamUsage for TLC: an answer or two of every protocol family. *)
EXTENDS StreamUsage

Json(object) == [kind |-> "json", json |-> object]
Other == [kind |-> "other", json |-> Empty]  \* event lines, blank lines, [DONE]

Delta(object) == Json([delta |-> object])

ChatTokens == [prompt_tokens |-> 3, completion_tokens |-> 2, total_tokens |-> 5,
               prompt_tokens_details |-> [cached_tokens |-> 1]]

Chat == [family |-> "openai_chat",
         lines |-> <<Json([id |-> "c", model |-> "m", delta |-> [role |-> "assistant"]]),
                     Delta([content |-> <<"a">>]), Other,
                     Json([finish_reason |-> "stop", delta |-> [content |-> <<"b">>]]),
                     Json([id |-> "c", usage |-> ChatTokens]), Other>>,
         body |-> [model |-> "m", usage |-> ChatTokens]]

\* Two tool calls, and a usage that grows with every chunk.
ChatTools ==
    LET Call(i, id, piece) ==
            [tool_calls |-> [index |-> i, id |-> id, arguments |-> <<piece>>]]
        Tokens1 == [prompt_tokens |-> 3, completion_tokens |-> 1, total_tokens |-> 4]
    IN  [family |-> "openai_chat",
         lines |-> <<Json([id |-> "c", model |-> "m", delta |-> Call(0, "t0", "a"),
                           usage |-> Tokens1]),
                     Delta(Call(0, "", "b")), Delta(Call(1, "t1", "c")),
                     Delta(Call(1, "", "d")),
                     Json([finish_reason |-> "tool_calls", usage |-> ChatTokens]), Other>>,
         body |-> [model |-> "m", usage |-> ChatTokens]]

\* An upstream that numbers its tool calls from 1.
ChatFromOne ==
    [family |-> "openai_chat",
     lines |-> <<Json([id |-> "c", model |-> "m", delta |-> [content |-> <<"a">>]]),
                 Delta([tool_calls |-> [index |-> 1, id |-> "t1", arguments |-> <<"b">>]]),
                 Json([finish_reason |-> "tool_calls", usage |-> ChatTokens]), Other>>,
     body |-> [model |-> "m", usage |-> ChatTokens]]

\* message_start counts the input, message_delta the output; new-api may leave the input,
\* and what of it was cached, to message_delta.  The second block holds text or a tool call.
Claude(start, delta, block) ==
    [family |-> "claude_messages",
     lines |-> <<Other,
                 Json([type |-> "message_start",
                       message |-> [id |-> "c", model |-> "m", usage |-> start]]),
                 Json([type |-> "content_block_start", content_block |-> [type |-> "text"]]),
                 Json([type |-> "content_block_delta", delta |-> [text |-> <<"a">>]]),
                 Json([type |-> "content_block_start", content_block |-> [type |-> block]]),
                 Json([type |-> "content_block_delta",
                       delta |-> IF block = "text" THEN [text |-> <<"b">>]
                                                   ELSE [partial_json |-> <<"b">>]]),
                 Json([type |-> "message_delta", usage |-> delta,
                       delta |-> [stop_reason |-> "end_turn"]]),
                 Json([type |-> "message_stop"])>>,
     body |-> [model |-> "m",
               usage |-> [input_tokens |-> 3, output_tokens |-> 2,
                          cache_read_input_tokens |-> 1]]]

Responses ==
    LET answer == [model |-> "m", usage |-> [input_tokens |-> 3, output_tokens |-> 2,
                      total_tokens |-> 5, output_tokens_details |-> [reasoning_tokens |-> 1]]]
    IN  [family |-> "openai_responses",
         lines |-> <<Json([type |-> "response.created", response |-> [model |-> "m"]]), Other,
                     Json([type |-> "response.output_text.delta"]),
                     Json([type |-> "response.completed", response |-> answer])>>,
         body |-> answer]

Gemini ==
    LET Count(n) == [usageMetadata |-> [promptTokenCount |-> 3, candidatesTokenCount |-> n,
                                        totalTokenCount |-> 3 + n]]
    IN  [family |-> "gemini", lines |-> <<Json(Count(1)), Other, Json(Count(2))>>,
         body |-> Count(2)]

Images ==
    LET answer == [usage |-> [input_tokens |-> 3, output_tokens |-> 2, total_tokens |-> 5]]
    IN  [family |-> "openai_images", lines |-> <<Other, Json(Empty), Json(answer)>>,
         body |-> answer]

Generic == [family |-> "_generic", lines |-> <<Json([model |-> "m"]), Other>>,
            body |-> [model |-> "m"]]

MCStreams == {Chat, ChatTools, ChatFromOne,
              Claude([input_tokens |-> 3, cache_read_input_tokens |-> 1],
                     [output_tokens |-> 2], "tool_use"),
              Claude([output_tokens |-> 1], [input_tokens |-> 3, output_tokens |-> 2,
                     cache_read_input_tokens |-> 1], "text"),
              Responses, Gemini, Images, Generic}
=============================================================================
