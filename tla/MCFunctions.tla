----------------------------- MODULE MCFunctions -----------------------------
(* Instances for TLC of the modules that turn requests, responses and           *)
(* transcripts into what is edited, sent and stored, and of the proxy's process  *)
(* and the homes of clients.  They share no state: a behaviour is one of one     *)
(* module, as `part` says, and s1 to s9 stand for the variables of that module,  *)
(* save those of ProxyProcess.                                                   *)
EXTENDS ProxyProcess, SequencesExt, TLC

VARIABLES part, s1, s2, s3, s4, s5, s6, s7, s8, s9

states == <<s1, s2, s3, s4, s5, s6, s7, s8, s9>>
Only(name) == part = name /\ UNCHANGED <<part, vars>>

\* The edits of OverrideOps, on a request with three system parts and a tool call.
Text(t) == [kind |-> "text", text |-> t]
Use(i) == [kind |-> "tool_use", id |-> i, text |-> "call"]
Result(i, t) == [kind |-> "tool_result", id |-> i, text |-> t]
MCCaptured ==
  [provider |-> "anthropic",
   system |-> <<"s0", "s1", "s2">>,
   tools |-> <<[name |-> "bash", text |-> "d"], [name |-> "read", text |-> "d"]>>,
   messages |-> <<[role |-> "user", content |-> <<Text("a"), Text("b"), Text("c")>>],
                  [role |-> "assistant", content |-> <<Text("d"), Use("t1")>>],
                  [role |-> "user", content |-> <<Result("t1", "long"), Text("e")>>]>>]
Edit(k, t, v) == [kind |-> k, target |-> t, value |-> v]
MCEdits ==
  {Edit("system_part_toggle", i, FALSE) : i \in {0, 1, 3}}
  \cup {Edit("system_part_text", i, "new") : i \in {1, 2}}
  \cup {Edit("tool_toggle", "bash", FALSE), Edit("tool_description", "bash", "new")}
  \cup {Edit("message_block_toggle", t, FALSE) : t \in {<<0, 0>>, <<0, 1>>, <<1, 1>>}}
  \cup {Edit("message_text", <<0, 1>>, "new"), Edit("message_text", <<0, 2>>, "")}
  \cup {Edit("truncate_tool_result", "t1", 10), Edit("message_text", <<0, 2>>, "new"),
        Edit("system_part_toggle", 1, TRUE)}
Curation == INSTANCE OverrideOps WITH Captured <- MCCaptured, Edits <- MCEdits, MaxOverrides <- 4, overrides <- s1

\* The tracks of a run.
Tracks == INSTANCE TrackManager WITH MaxUses <- 3, provider <- s1, tracks <- s2, order <- s3, spawns <- s4,
            waits <- s5, uses <- s6, agents <- s7, tool <- s8, sent <- s9

\* Three spawns of two children, one of them twice, one without an anchor.
None == "none"
Rec(kind, call, child, anchor) == [kind |-> kind, call |-> call, child |-> child, anchor |-> anchor]
MCParent == <<Rec("other", 0, None, None), Rec("call", 1, "a", "go"), Rec("call", 2, "b", None),
              Rec("output", 2, "b", None), Rec("output", 1, "a", None), Rec("call", 3, "a", "do"), Rec("output", 3, "a", None)>>
MCChild == [c \in {"a", "b"} |-> IF c = "a" THEN <<"copied", "copied", "go", "own">> ELSE <<"copied", "own">>]
Transcripts == INSTANCE ChildTranscripts WITH Parent <- MCParent, Child <- MCChild, codex <- s1, size <- s2,
                 at <- s3, links <- s4, calls <- s5, cursors <- s6

\* Up to three items of a Codex input.
Input(kind, extra, texts) == [kind |-> kind, extra |-> extra, texts |-> texts]
Items == {Input("user", FALSE, <<"t">>), Input("user", TRUE, <<"t", "u">>),
         Input("developer", TRUE, <<"t", "u">>), Input("developer", FALSE, <<"t">>), Input("developer", TRUE, <<>>),
         Input("call", FALSE, <<>>), Input("output", TRUE, <<"t">>), Input("reasoning", TRUE, <<"t">>), Input("other", TRUE, <<>>)}
MCInputs == {[k \in DOMAIN s |-> [kind |-> s[k].kind, extra |-> s[k].extra, texts |-> s[k].texts, name |-> k]]
              : s \in UNION {[1..n -> Items] : n \in 1..3}}
Codex == INSTANCE CodexInput WITH Inputs <- MCInputs, wire <- s1, system <- s2, messages <- s3, edits <- s4

\* Requests of two blocks, and responses cut into pieces.
Wire(t) == [type |-> "text", text |-> t]
Str(s) == [string |-> s]
List(l) == [list |-> l]
Menu ==
  {Wire(<<"a">>), [type |-> "text", text |-> <<>>, cache_control |-> "c"], [type |-> "text"], Str(<<"bare">>),
   [type |-> "tool_use", id |-> "t1", name |-> "n", input |-> "i", x |-> "1"], [type |-> "tool_use", id |-> "t1"],
   [type |-> "thinking", thinking |-> <<"a">>, signature |-> "s"], [type |-> "thinking", text |-> <<"a">>], [type |-> "thinking", thinking |-> <<>>, text |-> <<"b">>],
   [type |-> "image", source |-> "s"], [type |-> "image", x |-> "1"], [x |-> "1"],
   [type |-> "tool_result", tool_use_id |-> "t1", content |-> Str(<<"a">>), is_error |-> FALSE],
   [type |-> "tool_result", tool_use_id |-> "t1", content |-> List(<<Str(<<"a">>), Wire(<<"b">>), [type |-> "audio"]>>), is_error |-> TRUE, x |-> "1"],
   [type |-> "tool_result", content |-> List(<<>>)]}
MCRequests ==
  {[model |-> "m", messages |-> <<[role |-> "user", content |-> List(<<b, c>>)]>>] : b \in Menu, c \in Menu}
  \cup {[messages |-> <<[content |-> Str(<<"a">>), x |-> "1"], [role |-> "user", content |-> List(<<>>)]>>, system |-> s, stream |-> st, thinking |-> "on"]
        : s \in {Str(<<>>), Str(<<"s">>), List(<<>>), List(<<[text |-> <<"s">>, cache_control |-> "c"]>>)}, st \in BOOLEAN}
MCResponses ==
  {[provider |-> p, blocks |-> bs] : p \in {"anthropic", "codex"},
     bs \in {<<Wire(<<"a", "b", "c">>), [type |-> "tool_use", id |-> "t1", name |-> "n", text |-> <<"x", "y">>]>>,
             <<[type |-> "tool_use", id |-> "t1", name |-> "n", text |-> <<"x">>], Wire(<<"b", "c">>)>>}}
Formats == INSTANCE ProviderFormats WITH Requests <- MCRequests, Responses <- MCResponses, body <- s1,
             response <- s2, sent <- s3, whole <- s4

\* Every config.toml of up to two lines, and longer ones with lines on both sides of a table's end.
MCConfigs ==
  {c \in UNION {[1..n -> {"header", "trust", "trusted", "other", "table"}] : n \in 0..2} : c # <<"header", "header">>}
  \cup {<<"header", "other", "table">>, <<"header", "table", "trust">>, <<"table", "trusted", "header">>,
        <<"header", "trust", "other">>, <<"header", "other", "table", "trust">>, <<"table", "trust", "header", "trust", "table">>}
Overlay == INSTANCE HomeOverlay WITH Configs <- MCConfigs, plan <- s1, homes <- s2, entry <- s3, config <- s4, phase <- s5, touched <- s6

MCInit ==
  /\ Init
  /\ \/ part = "proxy" /\ s1 = 0 /\ s2 = 0 /\ s3 = 0 /\ s4 = 0 /\ s5 = 0 /\ s6 = 0 /\ s7 = 0 /\ s8 = 0 /\ s9 = 0
     \/ part = "overrides" /\ Curation!Init /\ s2 = 0 /\ s3 = 0 /\ s4 = 0 /\ s5 = 0 /\ s6 = 0 /\ s7 = 0 /\ s8 = 0 /\ s9 = 0
     \/ part = "tracks" /\ Tracks!Init
     \/ part = "transcripts" /\ Transcripts!Init /\ s7 = 0 /\ s8 = 0 /\ s9 = 0
     \/ part = "input" /\ Codex!Init /\ s5 = 0 /\ s6 = 0 /\ s7 = 0 /\ s8 = 0 /\ s9 = 0
     \/ part = "formats" /\ Formats!Init /\ s5 = 0 /\ s6 = 0 /\ s7 = 0 /\ s8 = 0 /\ s9 = 0
     \/ part = "homes" /\ Overlay!Init /\ s7 = 0 /\ s8 = 0 /\ s9 = 0

Restarting == part = "proxy" /\ Next /\ UNCHANGED <<part, states>>
Overriding == Only("overrides") /\ Curation!Next /\ UNCHANGED <<s2, s3, s4, s5, s6, s7, s8, s9>>
Requesting == Only("tracks") /\ \E a \in DOMAIN s7 : Tracks!Request(a)
Responding == Only("tracks") /\ \E a \in DOMAIN s7 : Tracks!Response(a)
Growing == Only("transcripts") /\ (\E f \in DOMAIN s2 : Transcripts!Grow(f)) /\ UNCHANGED <<s7, s8, s9>>
Polling == Only("transcripts") /\ (\E ok \in BOOLEAN : Transcripts!Poll(ok)) /\ UNCHANGED <<s7, s8, s9>>
PollingChild == Only("transcripts") /\ (\E c \in Transcripts!Children : Transcripts!PollChild(c)) /\ UNCHANGED <<s7, s8, s9>>
Dropping ==
  /\ Only("input") /\ UNCHANGED <<s5, s6, s7, s8, s9>>
  /\ \/ \E k \in DOMAIN s2 : Codex!DropPart(k)
     \/ \E k \in DOMAIN s3 : Codex!DropMessage(k)
     \/ Codex!DropTool
Rewriting == Only("input") /\ (\E k \in DOMAIN s3 : Codex!Rewrite(k)) /\ UNCHANGED <<s5, s6, s7, s8, s9>>
Forwarding == Only("formats") /\ Formats!Forward /\ UNCHANGED <<s5, s6, s7, s8, s9>>
Arriving == Only("formats") /\ Formats!Arrive /\ UNCHANGED <<s5, s6, s7, s8, s9>>

Launching == Only("homes") /\ (Overlay!Materialize \/ Overlay!Seed \/ Overlay!Remove) /\ UNCHANGED <<s7, s8, s9>>
Writing == Only("homes") /\ (\E n \in DOMAIN s3 : Overlay!ClientWrites(n)) /\ UNCHANGED <<s7, s8, s9>>

MCNext ==
  \/ Restarting
  \/ Overriding
  \/ Requesting \/ Responding
  \/ Growing \/ Polling \/ PollingChild
  \/ Dropping \/ Rewriting
  \/ Forwarding \/ Arriving
  \/ Launching \/ Writing

MCSpec == MCInit /\ [][MCNext]_<<part, vars, states>>

(* The properties of the modules, in their part. *)
CurationIsWhole == part = "overrides" => Curation!CurationIsWhole
OneAgentPerTrack == part = "tracks" => Tracks!OneAgentPerTrack
LiveChildIsReplayed == part = "transcripts" => Transcripts!LiveChildIsReplayed
RawStaysWithItsItem == part = "input" => Codex!RawStaysWithItsItem
StreamIsResponse == part = "formats" => Formats!StreamIsResponse
HomesAreKept == part = "homes" => Overlay!HomesAreKept
ForwardedReadsTheSame == [][part = "formats" => Formats!Reads]_states
=============================================================================
