--------------------------- MODULE ProviderFormats ---------------------------
(***************************************************************************)
(* The Anthropic wire format and the edited form (adapters/anthropic.py),  *)
(* and how a streamed response is put together for either provider         *)
(* (anthropic.py:217, codex/response_parser.py).  A JSON object is a       *)
(* function from its keys; Str(s) and List(l) are a string and a list where*)
(* either may stand.  A text is the sequence of the pieces it arrives in. *)
(***************************************************************************)
EXTENDS Integers, Sequences, SequencesExt, TLC

CONSTANTS
  Requests,   \* captured request bodies
  Responses   \* responses: [provider, blocks], the blocks as on the wire

VARIABLES
  body,      \* the request body, as it is forwarded from hop to hop
  response,  \* the response being streamed
  sent,      \* the events of it that have arrived
  whole      \* whether the stream has ended by itself

vars == <<body, response, sent, whole>>

Str(s) == [string |-> s]
List(l) == [list |-> l]
IsStr(x) == "string" \in DOMAIN x
Has(raw, keys) == keys \subseteq DOMAIN raw
Get(raw, key, default) == IF key \in DOMAIN raw THEN raw[key] ELSE default
Rest(raw, keys) == [k \in DOMAIN raw \ keys |-> raw[k]]  \* _extra_provider_data
Only(keys, raw) == [k \in keys \cap DOMAIN raw |-> raw[k]]

-----------------------------------------------------------------------------
(* Requests.                                                               *)

\* _parse_text_block, _parse_tool_use_block, _parse_thinking_block and the image; a
\* block without the keys of its type is kept as it is.
Keys == [text |-> {"type", "text"}, tool_use |-> {"type", "id", "name", "input"}, image |-> {"type", "source"}]
Unknown(raw) == [ir |-> "unknown", raw |-> raw]
\* Mutant: what a thinking block carries besides its text is dropped.
InThinkingUnsigned(raw) ==
  [ir |-> "thinking", text |-> IF Get(raw, "thinking", <<>>) # <<>> THEN raw.thinking ELSE Get(raw, "text", <<>>),
   data |-> <<>>]

InThinking(raw) ==
  [ir |-> "thinking", text |-> IF Get(raw, "thinking", <<>>) # <<>> THEN raw.thinking ELSE Get(raw, "text", <<>>),
   data |-> Rest(raw, {"type", "text", "thinking"})]
InPlain(raw) ==
  CASE Get(raw, "type", "unknown") \in DOMAIN Keys /\ Has(raw, Keys[raw.type]) ->
         [ir |-> raw.type, kept |-> Only(Keys[raw.type], raw), data |-> Rest(raw, Keys[raw.type])]
    [] Get(raw, "type", "unknown") = "thinking" -> InThinking(raw)
    [] OTHER -> Unknown(raw)

\* A bare value in a list of blocks is wrapped.
Wrapped(raw) == IF IsStr(raw) THEN [value |-> raw] ELSE raw

\* _parse_tool_result_sub_block
InSub(raw) ==
  IF ~IsStr(raw) /\ Get(raw, "type", "unknown") \in {"text", "image"} THEN InPlain(raw) ELSE Unknown(Wrapped(raw))

\* _parse_content_block
ResultKeys == {"type", "tool_use_id", "content", "is_error"}
InBlock(raw) ==
  IF ~IsStr(raw) /\ Get(raw, "type", "unknown") = "tool_result" /\ Has(raw, {"tool_use_id"})
  THEN LET content == Get(raw, "content", List(<<>>))
       IN [ir |-> "tool_result", id |-> raw.tool_use_id, error |-> Get(raw, "is_error", FALSE),
           content |-> IF IsStr(content) THEN <<InPlain([type |-> "text", text |-> content.string])>>
                       ELSE [i \in DOMAIN content.list |-> InSub(content.list[i])],
           data |-> Rest(raw, ResultKeys)]
  ELSE IF IsStr(raw) THEN Unknown(Wrapped(raw)) ELSE InPlain(raw)

\* _content_block_to_dict
RECURSIVE OutBlock(_)
OutBlock(b) ==
  CASE b.ir = "unknown" -> b.raw
    [] b.ir = "thinking" -> b.data @@ [type |-> "thinking", thinking |-> b.text]
    [] b.ir = "tool_result" ->
         b.data @@ [type |-> "tool_result", tool_use_id |-> b.id,
                      content |-> List([i \in DOMAIN b.content |-> OutBlock(b.content[i])])]
                @@ (IF b.error THEN [is_error |-> TRUE] ELSE <<>>)
    [] OTHER -> b.data @@ b.kept

\* _parse_messages and _message_to_dict: a string is one text, an empty message goes.
InMessage(raw) ==
  [role |-> Get(raw, "role", "user"), data |-> Rest(raw, {"role", "content"}),
   content |-> LET c == Get(raw, "content", List(<<>>))
               IN IF IsStr(c) THEN <<InPlain([type |-> "text", text |-> c.string])>> ELSE [i \in DOMAIN c.list |-> InBlock(c.list[i])]]
OutMessage(m) == m.data @@ [role |-> m.role, content |-> List([i \in DOMAIN m.content |-> OutBlock(m.content[i])])]

\* _parse_system, _system_part_to_dict
InSystem(raw) ==
  IF IsStr(raw) THEN (IF raw.string = <<>> THEN <<>> ELSE <<[type |-> "text", text |-> raw.string]>>)
  ELSE [i \in DOMAIN raw.list |-> raw.list[i] @@ [type |-> "text", text |-> <<>>]]

\* inbound_request: what is not mapped is kept beside it.
Mapped == {"model", "system", "messages", "max_tokens", "stop_sequences", "stream"}
In(raw) ==
  [model |-> Get(raw, "model", "unknown"), system |-> InSystem(Get(raw, "system", List(<<>>))),
   messages |-> SelectSeq([i \in DOMAIN Get(raw, "messages", <<>>) |-> InMessage(raw.messages[i])], LAMBDA m : m.content # <<>>),
   max_tokens |-> Get(raw, "max_tokens", 0), stops |-> Get(raw, "stop_sequences", <<>>), stream |-> Get(raw, "stream", FALSE),
   extras |-> Rest(raw, Mapped)]

\* outbound_request: empty values are left out.
Out(r) ==
  r.extras @@ [model |-> r.model, max_tokens |-> r.max_tokens, messages |-> [i \in DOMAIN r.messages |-> OutMessage(r.messages[i])]]
           @@ (IF r.system # <<>> THEN [system |-> List(r.system)] ELSE <<>>)
           @@ (IF r.stops # <<>> THEN [stop_sequences |-> r.stops] ELSE <<>>)
           @@ (IF r.stream THEN [stream |-> TRUE] ELSE <<>>)

-----------------------------------------------------------------------------
(* Responses.                                                              *)

\* The events of a response: its blocks one after the other, what is text (for Anthropic
\* also a call's input) in pieces, then the end, which for Codex repeats the blocks.
PiecesOf(b) == Get(b, "text", <<>>)
Event(kind, i, pieces) == [k \in DOMAIN pieces |-> [kind |-> kind, index |-> i, piece |-> pieces[k]]]
EventsOf(i, b) ==
  CASE response.provider = "anthropic" ->
         Event("start", i, <<"">>) \o Event("delta", i, PiecesOf(b)) \o Event("done", i, <<"">>)
    [] response.provider = "codex" /\ b.type = "text" ->
         Event("delta", i, b.text) \o Event("text", i, <<"">>) \o Event("done", i, <<"">>)
    [] OTHER -> Event("done", i, <<"">>)
Stream == FlattenSeq([i \in DOMAIN response.blocks |-> EventsOf(i, response.blocks[i])]) \o Event("end", 0, <<"">>)

\* Mutant: the buffer of the last block is not emptied.
BufferedUnreset(s, e) ==
  CASE e.kind = "start" -> [s EXCEPT !.open = Rest(response.blocks[e.index], {"text"}) @@ @]
    [] e.kind = "delta" -> [s EXCEPT !.open = [text |-> Append(Get(@, "text", <<>>), e.piece)] @@ @]
    [] e.kind = "done" -> [s EXCEPT !.blocks = Append(@, s.open)]
    [] OTHER -> s

\* _inbound_response_sse: a block is built in its buffer and counts once it has stopped.
Buffered(s, e) ==
  CASE e.kind = "start" -> [s EXCEPT !.open = Rest(response.blocks[e.index], {"text"})]
    [] e.kind = "delta" -> [s EXCEPT !.open = [text |-> Append(Get(@, "text", <<>>), e.piece)] @@ @]
    [] e.kind = "done" -> [s EXCEPT !.blocks = Append(@, s.open), !.open = <<>>]
    [] OTHER -> s
AnthropicStreamed == FoldLeft(Buffered, [open |-> <<>>, blocks |-> <<>>], sent).blocks

\* parse_codex_response_payloads: the finished items, without one those of the final
\* response; _fallback_text_content: else the finished texts, else the pieces begun.
CodexStreamed ==
  LET of(kind) == SelectSeq(sent, LAMBDA e : e.kind = kind)
      blocks(kind) == [k \in DOMAIN of(kind) |-> response.blocks[of(kind)[k].index]]
      begun == [k \in DOMAIN of("delta") |-> of("delta")[k].piece]
  IN CASE of("done") # <<>> -> blocks("done")
       [] of("done") = <<>> /\ of("end") # <<>> -> response.blocks
       [] of("done") = <<>> /\ of("end") = <<>> /\ of("text") # <<>> -> blocks("text")
       [] OTHER -> IF begun = <<>> THEN <<>> ELSE <<[type |-> "text", text |-> begun]>>

Streamed == IF response.provider = "codex" THEN CodexStreamed ELSE AnthropicStreamed

-----------------------------------------------------------------------------
Init ==
  /\ body \in Requests
  /\ response \in Responses
  /\ sent = <<>>
  /\ whole = FALSE

\* The request goes through the proxy (again).
Forward == body' = Out(In(body)) /\ body' # body /\ UNCHANGED <<response, sent, whole>>

Arrive ==
  /\ Len(sent) < Len(Stream)
  /\ sent' = Append(sent, Stream[Len(sent) + 1])
  /\ whole' = (Len(sent') = Len(Stream))
  /\ UNCHANGED <<body, response>>

Next == Forward \/ Arrive

Spec == Init /\ [][Next]_vars

-----------------------------------------------------------------------------
\* A body that is forwarded reads as the one that was captured, every key the edited form
\* has no place for included, and a second pass changes nothing: what the editor shows is
\* what is sent (anthropic.py:4, the round trip, up to the shorthands it spells out).
KeysOf(raw) == IF IsStr(raw) THEN {} ELSE DOMAIN raw \ {"is_error", "text"}
Blocks(r) ==
  FlattenSeq([i \in DOMAIN Get(r, "messages", <<>>) |->
    LET c == Get(r.messages[i], "content", List(<<>>)) IN IF IsStr(c) THEN <<c>> ELSE c.list])
Reads ==
  body' # body =>
    /\ In(body') = In(body) /\ Out(In(body')) = body'
    /\ DOMAIN body \ Mapped \subseteq DOMAIN body'
    /\ Len(Blocks(body')) = Len(Blocks(body))
    /\ \A i \in DOMAIN Blocks(body) : \A k \in KeysOf(Blocks(body)[i]) :
         /\ k \in KeysOf(Blocks(body')[i])
         /\ k \notin {"content", "thinking"} => Blocks(body)[i][k] = Blocks(body')[i][k]
ForwardedReadsTheSame == [][Reads]_vars

\* A stream that ended by itself gives the response it carried, however it was cut; one
\* that broke off gives whole blocks of it, or the beginning of its texts.
StreamIsResponse ==
  /\ whole => Streamed = response.blocks
  /\ \/ IsPrefix(Streamed, response.blocks)
     \/ Len(Streamed) = 1 /\ "text" \in DOMAIN Streamed[1]
        /\ IsPrefix(Streamed[1].text, FlattenSeq([i \in DOMAIN response.blocks |-> PiecesOf(response.blocks[i])]))
=============================================================================
