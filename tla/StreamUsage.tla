---------------------------- MODULE StreamUsage ----------------------------
(***************************************************************************)
(* What becomes of a streamed answer (text/event-stream) while the gateway *)
(* passes it on: sseUsageExtractor takes the lines out of the chunks, the  *)
(* extractor of the protocol family reads tokens and text from them, and   *)
(* at the end serveStreamingResponse stores the assembled answer, or the   *)
(* raw stream, and the usage.                                              *)
(*                                                                         *)
(* A line of the stream is three tokens, two halves and its end, so that a *)
(* chunk can break anywhere in it.  A JSON object is a record with the     *)
(* fields it has; Get is the decoder's zero value for those it has not.    *)
(* Texts are sequences of pieces.  An event has one choice and at most one *)
(* piece of a tool call.                                                   *)
(***************************************************************************)
EXTENDS Integers, Sequences, FiniteSets, SequencesExt

CONSTANT Streams   \* [family, lines, body]: body is the same answer, not streamed

VARIABLES
    stream,      \* the answer of the upstream
    taken,       \* how many of its tokens went through Write and into captureBuf
    delivered,   \* how many the client got
    buf,         \* the extractor's buf
    ext,         \* the state of the family's extractor
    phase,       \* where serveStreamingResponse is
    broken,      \* responseErr: the copy ended with an error
    trace        \* the row and the evidence object that are stored

streamVars == <<stream, taken, delivered, buf, ext, phase, broken, trace>>

Families == {"openai_chat", "openai_responses", "claude_messages", "gemini",
             "openai_images", "_generic"}
-----------------------------------------------------------------------------
(* JSON *)

Empty == <<>>
Get(object, field, zero) == IF field \in DOMAIN object THEN object[field] ELSE zero
Num(object, field) == Get(object, field, 0)
Str(object, field) == Get(object, field, "")
Obj(object, field) == Get(object, field, Empty)

\* minimalUsage
Usage(prompt, completion, total, reasoning, cached) ==
    [prompt |-> prompt, completion |-> completion, total |-> total,
     reasoning |-> reasoning, cached |-> cached]
NoUsage == Usage(0, 0, 0, 0, 0)
UsageType == [prompt : Nat, completion : Nat, total : Nat, reasoning : Nat, cached : Nat]

\* The fields of the six extractors taken together.
Fresh == [acc |-> NoUsage, mdl |-> "", id |-> "", role |-> "", parts |-> <<>>,
          tools |-> Empty, finish |-> "", usage |-> Empty, blocks |-> <<>>,
          completed |-> Empty]

NonEmpty(new, old) == IF new # "" THEN new ELSE old
-----------------------------------------------------------------------------
(* The extractors: processSSE, extractResponse and assembleSSE *)

ChatUsage(u) == Usage(Num(u, "prompt_tokens"), Num(u, "completion_tokens"), Num(u, "total_tokens"),
                      Num(Obj(u, "completion_tokens_details"), "reasoning_tokens"),
                      Num(Obj(u, "prompt_tokens_details"), "cached_tokens"))

\* Mutant: a later piece of the arguments replaces the earlier ones.
WithTool_replaced(tools, tc) ==
    LET i == Num(tc, "index")
        old == IF i \in DOMAIN tools THEN tools[i] ELSE [id |-> "", arguments |-> <<>>]
        new == [id |-> NonEmpty(Str(tc, "id"), old.id), arguments |-> Obj(tc, "arguments")]
    IN  [j \in DOMAIN tools \cup {i} |-> IF j = i THEN new ELSE tools[j]]

\* A piece of a tool call, added to what is known of the call with its index.
WithTool(tools, tc) ==
    LET i == Num(tc, "index")
        old == IF i \in DOMAIN tools THEN tools[i] ELSE [id |-> "", arguments |-> <<>>]
        new == [id |-> NonEmpty(Str(tc, "id"), old.id),
                arguments |-> old.arguments \o Obj(tc, "arguments")]
    IN  [j \in DOMAIN tools \cup {i} |-> IF j = i THEN new ELSE tools[j]]

ProcessChat(e, v) ==
    LET u == Obj(v, "usage")
        counts == Num(u, "total_tokens") > 0
        delta == Obj(v, "delta")
        tc == Obj(delta, "tool_calls")
    IN  [e EXCEPT
            !.id = NonEmpty(Str(v, "id"), @),
            !.mdl = NonEmpty(Str(v, "model"), @),
            !.acc = IF counts THEN ChatUsage(u) ELSE @,
            !.usage = IF counts THEN [prompt_tokens |-> Num(u, "prompt_tokens"),
                                      completion_tokens |-> Num(u, "completion_tokens"),
                                      total_tokens |-> Num(u, "total_tokens")] ELSE @,
            !.role = IF @ = "" THEN Str(delta, "role") ELSE @,
            !.parts = @ \o Obj(delta, "content"),
            !.finish = NonEmpty(Str(v, "finish_reason"), @),
            !.tools = IF tc = Empty THEN @ ELSE WithTool(@, tc)]

ExtractChat(body) == <<ChatUsage(Obj(body, "usage")), Str(body, "model")>>

\* toolCalls has as many places as there are calls, and each goes to its index: the loop
\* panics on an index that is not one of its places.
ToolsFit(e) == DOMAIN e.tools = 0 .. Cardinality(DOMAIN e.tools) - 1

AssembleChat(e) ==
    IF e.id = "" /\ e.parts = <<>> /\ e.role = "" /\ e.tools = Empty THEN Empty
    ELSE [id |-> e.id, model |-> e.mdl, role |-> e.role, content |-> e.parts,
          tool_calls |-> e.tools, finish_reason |-> e.finish, usage |-> e.usage]

ClaudeCached(u) == Num(u, "cache_read_input_tokens") + Num(u, "cache_creation_input_tokens")


\* The output tokens after an event with the usage u.
Completion(old, u) == IF Num(u, "output_tokens") > 0 THEN Num(u, "output_tokens") ELSE old

ProcessClaude(e, v) ==
    LET message == Obj(v, "message")
        mu == Obj(message, "usage")
        u == Obj(v, "usage")
        starts == Num(mu, "input_tokens") > 0
        delta == Obj(v, "delta")
        prompt0 == IF starts THEN Num(mu, "input_tokens") ELSE e.acc.prompt
        prompt == IF Num(u, "input_tokens") > 0 /\ prompt0 = 0 THEN Num(u, "input_tokens")
                                                               ELSE prompt0
        completion == Completion(e.acc.completion, u)
        opened == IF Str(v, "type") = "content_block_start"
                     /\ Str(Obj(v, "content_block"), "type") = "text"
                  THEN Append(e.blocks, <<>>) ELSE e.blocks
    IN  [e EXCEPT
            !.acc = Usage(prompt, completion, prompt + completion, 0,
                          IF starts /\ @.cached = 0 THEN ClaudeCached(mu) ELSE @.cached),
            !.mdl = IF starts THEN NonEmpty(Str(message, "model"), @) ELSE @,
            !.id = NonEmpty(Str(message, "id"), @),
            !.blocks = IF Str(v, "type") = "content_block_delta" /\ Len(opened) > 0
                       THEN [opened EXCEPT ![Len(opened)] = @ \o Obj(delta, "text")]
                       ELSE opened,
            !.finish = NonEmpty(Str(delta, "stop_reason"), @)]

ExtractClaude(body) ==
    LET u == Obj(body, "usage")
    IN  <<Usage(Num(u, "input_tokens"), Num(u, "output_tokens"),
                Num(u, "input_tokens") + Num(u, "output_tokens"), 0, ClaudeCached(u)),
          Str(body, "model")>>

AssembleClaude(e) ==
    IF e.id = "" /\ e.blocks = <<>> THEN Empty
    ELSE [id |-> e.id, model |-> e.mdl, content |-> e.blocks, stop_reason |-> e.finish,
          usage |-> [input_tokens |-> e.acc.prompt, output_tokens |-> e.acc.completion]]
-----------------------------------------------------------------------------
InputUsage(u) == Usage(Num(u, "input_tokens"), Num(u, "output_tokens"), Num(u, "total_tokens"),
                       Num(Obj(u, "output_tokens_details"), "reasoning_tokens"),
                       Num(Obj(u, "input_tokens_details"), "cached_tokens"))

ProcessResponses(e, v) ==
    LET response == Obj(v, "response")
        u == Obj(response, "usage")
    IN  [e EXCEPT
            !.completed = IF Str(v, "type") = "response.completed" /\ response # Empty
                          THEN response ELSE @,
            !.acc = IF Num(u, "total_tokens") > 0 THEN InputUsage(u) ELSE @,
            !.mdl = NonEmpty(Str(response, "model"), @)]

ExtractResponses(body) == <<InputUsage(Obj(body, "usage")), Str(body, "model")>>

AssembleResponses(e) == e.completed

GeminiUsage(u) == Usage(Num(u, "promptTokenCount"), Num(u, "candidatesTokenCount"),
                        Num(u, "totalTokenCount"), 0, 0)

ProcessGemini(e, v) ==
    LET u == Obj(v, "usageMetadata")
    IN  IF Num(u, "totalTokenCount") > 0 THEN [e EXCEPT !.acc = GeminiUsage(u)] ELSE e

ExtractGemini(body) == <<GeminiUsage(Obj(body, "usageMetadata")), "">>

ImagesUsage(u) == [InputUsage(u) EXCEPT !.reasoning = 0]

ProcessImages(e, v) ==
    LET u == Obj(v, "usage")
    IN  IF Num(u, "total_tokens") > 0 THEN [e EXCEPT !.acc = ImagesUsage(u)] ELSE e

ExtractImages(body) == <<ImagesUsage(Obj(body, "usage")), "">>

\* The generic extractor takes either name of a field, the first one if both are there.
ExtractGeneric(body) ==
    LET u == Obj(body, "usage")
        Either(f, g) == IF f \in DOMAIN u THEN u[f] ELSE Num(u, g)
        Detail(o, p, f) == IF f \in DOMAIN Obj(u, o) THEN Obj(u, o)[f] ELSE Num(Obj(u, p), f)
    IN  <<Usage(Either("prompt_tokens", "input_tokens"),
                Either("completion_tokens", "output_tokens"), Num(u, "total_tokens"),
                Detail("completion_tokens_details", "output_tokens_details", "reasoning_tokens"),
                Detail("prompt_tokens_details", "input_tokens_details", "cached_tokens")),
          Str(body, "model")>>
-----------------------------------------------------------------------------
(* extractorFor: the extractor of a family *)

ProcessSSE(family, e, v) ==
    CASE family = "openai_chat"      -> ProcessChat(e, v)
      [] family = "claude_messages"  -> ProcessClaude(e, v)
      [] family = "openai_responses" -> ProcessResponses(e, v)
      [] family = "gemini"           -> ProcessGemini(e, v)
      [] family = "openai_images"    -> ProcessImages(e, v)
      [] OTHER                       -> e

ExtractResponse(family, body) ==
    CASE family = "openai_chat"      -> ExtractChat(body)
      [] family = "claude_messages"  -> ExtractClaude(body)
      [] family = "openai_responses" -> ExtractResponses(body)
      [] family = "gemini"           -> ExtractGemini(body)
      [] family = "openai_images"    -> ExtractImages(body)
      [] OTHER                       -> ExtractGeneric(body)

AssembleSSE(family, e) ==
    CASE family = "openai_chat"      -> AssembleChat(e)
      [] family = "claude_messages"  -> AssembleClaude(e)
      [] family = "openai_responses" -> AssembleResponses(e)
      [] OTHER                       -> Empty
-----------------------------------------------------------------------------
(* The stream as tokens *)

Token(n) == <<(n - 1) \div 3 + 1, <<"head", "tail", "eol">>[((n - 1) % 3) + 1]>>
Tokens(from, to) == [n \in 1 .. to - from |-> Token(from + n)]
Size == 3 * Len(stream.lines)

IsEnd(token) == token[2] = "eol"
LastEnd(tokens) == Max({0} \cup {k \in DOMAIN tokens : IsEnd(tokens[k])})

\* At every token, the number of the line that ends there, 0 for none; a line that lacks
\* a half is no JSON or has no "data: ", and is passed over.
WholeLines(tokens) ==
    [k \in DOMAIN tokens |->
        IF /\ k > 2 /\ IsEnd(tokens[k])
           /\ tokens[k - 1] = <<tokens[k][1], "tail">>
           /\ tokens[k - 2] = <<tokens[k][1], "head">>
        THEN tokens[k][1] ELSE 0]

\* Only "data: " lines other than [DONE] that hold JSON reach processSSE.
ReadLine(family, e, line) == IF line.kind = "json" THEN ProcessSSE(family, e, line.json) ELSE e

ReadAt(e, i) == IF i = 0 THEN e ELSE ReadLine(stream.family, e, stream.lines[i])
ReadLines(e, numbers) == FoldLeft(ReadAt, e, numbers)

\* Mutant: a line that is not complete is thrown away.
Rest_dropped(tokens) == <<>>

\* What stays in buf.
Rest(tokens) == SubSeq(tokens, LastEnd(tokens) + 1, Len(tokens))
-----------------------------------------------------------------------------
NoStream == [family |-> "_generic", lines |-> <<>>, body |-> Empty]
NoTrace == [usage |-> NoUsage, model |-> "", size |-> 0, object |-> "none", body |-> Empty]

StreamTypeOK ==
    /\ stream \in Streams \cup {NoStream}
    /\ stream.family \in Families
    /\ taken \in 0 .. Size
    /\ delivered \in taken .. Size
    /\ \A k \in DOMAIN buf : buf[k] \in (1 .. Len(stream.lines)) \X {"head", "tail"}
    /\ ext.acc \in UsageType
    /\ phase \in {"idle", "copy", "ended", "stored", "panicked"}
    /\ broken \in BOOLEAN
    /\ trace.object \in {"none", "raw", "assembled"}

\* The upstream's headers are passed on and the copy begins.
Open(s) ==
    /\ phase = "idle"
    /\ stream' = s
    /\ phase' = "copy"
    /\ UNCHANGED <<taken, delivered, buf, ext, broken, trace>>

\* copyStreamToClientAndCapture: the next chunk goes to the client, then through the
\* lines of Write, then into captureBuf.
Chunk(to) ==
    LET tokens == buf \o Tokens(taken, to)
    IN  /\ phase = "copy"
        /\ to \in taken + 1 .. Size
        /\ taken' = to
        /\ delivered' = to
        /\ ext' = ReadLines(ext, WholeLines(tokens))
        /\ buf' = Rest(tokens)
        /\ UNCHANGED <<stream, phase, broken, trace>>

\* The client is gone: part of the chunk may have been written, none of it is read.
ClientGone(to) ==
    /\ phase = "copy"
    /\ to \in taken .. Size - 1
    /\ delivered' = to
    /\ phase' = "ended"
    /\ broken' = TRUE
    /\ UNCHANGED <<stream, taken, buf, ext, trace>>

\* The upstream ends the stream, or breaks it off.
UpstreamEnds ==
    /\ phase = "copy"
    /\ phase' = "ended"
    /\ broken' \in IF taken = Size THEN BOOLEAN ELSE {TRUE}
    /\ UNCHANGED <<stream, taken, delivered, buf, ext, trace>>

\* The object Put stores: the assembled answer, the raw stream if there is none.
Kept(body, ok) == IF ~ok THEN "none" ELSE IF body # Empty THEN "assembled" ELSE "raw"

AssemblePanics == stream.family = "openai_chat" /\ ~ToolsFit(ext)

\* The rest of serveStreamingResponse: Put, which may fail, and insertTrace.
Store(ok) ==
    LET body == AssembleSSE(stream.family, ext)
    IN  /\ phase = "ended"
        /\ ~AssemblePanics
        /\ phase' = "stored"
        /\ trace' = [usage |-> ext.acc, model |-> ext.mdl, size |-> delivered,
                     object |-> Kept(body, ok), body |-> body]
        /\ UNCHANGED <<stream, taken, delivered, buf, ext, broken>>

\* assembleSSE panics, and net/http ends the handler: neither object nor row is stored.
Panic ==
    /\ phase = "ended"
    /\ AssemblePanics
    /\ phase' = "panicked"
    /\ UNCHANGED <<stream, taken, delivered, buf, ext, broken, trace>>
-----------------------------------------------------------------------------
StreamInit ==
    /\ stream = NoStream
    /\ taken = 0
    /\ delivered = 0
    /\ buf = <<>>
    /\ ext = Fresh
    /\ phase = "idle"
    /\ broken = FALSE
    /\ trace = NoTrace

StreamNext ==
    \/ \E s \in Streams : Open(s)
    \/ \E to \in 0 .. Size : Chunk(to) \/ ClientGone(to)
    \/ UpstreamEnds
    \/ \E ok \in BOOLEAN : Store(ok)
    \/ Panic

StreamSpec == StreamInit /\ [][StreamNext]_streamVars
-----------------------------------------------------------------------------
\* Where a chunk ends makes no difference: the extractor has read every line the client
\* has got whole, once, in order, and nothing else.
ChunkingIsIrrelevant ==
    ext = ReadLines(Fresh, [i \in 1 .. taken \div 3 |-> i])


\* Read again from the assembled answer, the tokens and the model are those of the trace.
UsageAgrees ==
    LET again == ExtractResponse(stream.family, trace.body)
    IN  /\ <<again[1].prompt, again[1].completion, again[1].total>>
             = <<trace.usage.prompt, trace.usage.completion, trace.usage.total>>
        /\ again[2] = trace.model

\* The lines that hold JSON and went through Write.
Read == {i \in 1 .. taken \div 3 : stream.lines[i].kind = "json"}

Pieces(field) ==
    FlattenSeq([i \in 1 .. taken \div 3 |->
        IF i \in Read THEN Obj(Obj(stream.lines[i].json, "delta"), field) ELSE <<>>])

\* The pieces of tool calls in these lines.
ToolCall(i) == IF i \in Read THEN Obj(Obj(stream.lines[i].json, "delta"), "tool_calls") ELSE Empty
ToolIndices == {Num(ToolCall(i), "index") : i \in {j \in Read : ToolCall(j) # Empty}}
Arguments(k) ==
    FlattenSeq([i \in 1 .. taken \div 3 |->
        IF ToolCall(i) # Empty /\ Num(ToolCall(i), "index") = k
        THEN Obj(ToolCall(i), "arguments") ELSE <<>>])

\* Of a chat, all text and all tool calls that came through are there, in order; of a
\* Claude message, all text.
TextIsKept ==
    CASE stream.family = "openai_chat" ->
            /\ trace.body.content = Pieces("content")
            /\ DOMAIN trace.body.tool_calls = ToolIndices
            /\ \A k \in ToolIndices : trace.body.tool_calls[k].arguments = Arguments(k)
      [] stream.family = "claude_messages" ->
            FlattenSeq(trace.body.content) = Pieces("text")
      [] OTHER -> TRUE

\* The assembled answer, which replaces the raw stream as evidence, says of these what the
\* stream and the trace say, also when the stream broke off: the prompt, completion and
\* total tokens, the model, the text, and the tool calls of a chat.  assembleSSE leaves
\* out the reasoning and cached tokens, which only the trace then has, and all blocks of a
\* Claude message but text, which OnlyWholeAnswersReplace is about.
AssembledAgrees == trace.object = "assembled" => UsageAgrees /\ TextIsKept

BlocksOpened == {i \in Read : Str(stream.lines[i].json, "type") = "content_block_start"}

\* The design of the assembly: an assembled answer takes the place of the raw stream only
\* if the stream did not break off, and then it has all content blocks of the message.
OnlyWholeAnswersReplace ==
    phase = "stored" /\ trace.object = "assembled" =>
        /\ ~(broken /\ taken < Size)
        /\ stream.family = "claude_messages" =>
               Len(trace.body.content) = Cardinality(BlocksOpened)
=============================================================================
