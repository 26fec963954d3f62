---------------------------- MODULE TrackManager ----------------------------
(***************************************************************************)
(* Which agent of a run an exchange belongs to (track_manager.py): the     *)
(* proxy sees requests and responses of the main agent and of the agents   *)
(* it spawns, interleaved on one address, and tells them apart by the tool *)
(* results a request carries, by Codex' headers, or by who has not been    *)
(* heard of yet.  Agent 0 is the main agent, agent n the one that tool use *)
(* n spawned.  Names, anchors and sibling numbers are left out.            *)
(***************************************************************************)
EXTENDS Integers, Sequences, FiniteSets, SequencesExt, TLC

CONSTANTS MaxUses  \* bound: tool uses of a run

VARIABLES
  provider,  \* the harness of the run
  tracks,    \* RunTrackState.tracks: id -> [parent, status, signature]
  order,     \* the insertion order of tracks
  spawns,    \* open_spawns: tool use -> track of the spawner
  waits,     \* wait_targets: tool use -> track waited for
  uses,      \* track_tool_uses: tool use -> track
  agents,    \* the harness: agent -> [phase, made, fresh], its tool uses ever made and not sent back
  tool,      \* the harness: tool use -> its kind, and the agent it is about
  sent       \* what was classified: <<agent, track>> of all but requests of closed agents

vars == <<provider, tracks, order, spawns, waits, uses, agents, tool, sent>>

Run == <<"run", 0>>
None == <<"none">>
UseTrack(u) == <<"use", u>>      \* Anthropic: the track is named by the tool use
AgentTrack(u) == <<"agent", u>>  \* Codex: by the agent's id
Empty == <<>>

Record(parent) == [parent |-> parent, status |-> "open", signature |-> "none"]

Without(f, keys) == [k \in DOMAIN f \ keys |-> f[k]]

-----------------------------------------------------------------------------
(* Requests.                                                               *)

\* Mutant: a spawn's output does not replace the track an early request made.
ResolvedOnce(spawned, waited) ==
  LET named == IF provider = "codex" THEN {u \in spawned : tool[u].ok} ELSE {}
      over == IF provider = "codex"
              THEN {waits[u] : u \in {u \in waited : agents[tool[u].about].phase = "done"}}
              ELSE {UseTrack(u) : u \in spawned}
  IN [t \in DOMAIN tracks \cup {AgentTrack(u) : u \in named} |->
        IF t \in DOMAIN tracks
        THEN [tracks[t] EXCEPT !.status = IF t \in over THEN "closed" ELSE @]
        ELSE Record(spawns[CHOOSE u \in named : t = AgentTrack(u)])]

\* _resolve_spawn_tool_result and _resolve_wait_result: the tracks once the results
\* are read.  A Codex spawn names its agent only now, also when it was seen before.
Resolved(spawned, waited) ==
  LET named == IF provider = "codex" THEN {u \in spawned : tool[u].ok} ELSE {}
      over == IF provider = "codex"
              THEN {waits[u] : u \in {u \in waited : agents[tool[u].about].phase = "done"}}
              ELSE {UseTrack(u) : u \in spawned}
  IN [t \in DOMAIN tracks \cup {AgentTrack(u) : u \in named} |->
        IF \E u \in named : t = AgentTrack(u)
        THEN Record(spawns[CHOOSE u \in named : t = AgentTrack(u)])
        ELSE [tracks[t] EXCEPT !.status = IF t \in over THEN "closed" ELSE @]]

\* _resolve_tool_results: the track the results speak for.
Spoken(results, spawned, waited, seen) ==
  LET parents == {spawns[u] : u \in spawned}
                 \cup ({seen[waits[u]].parent : u \in {u \in waited : waits[u] \in DOMAIN seen}} \ {None})
      owners == {uses[u] : u \in (results \cap DOMAIN uses) \ (spawned \cup waited)}
      alive == {t \in owners : seen[t].status # "closed"}
  IN CASE Cardinality(parents) = 1 -> CHOOSE t \in parents : TRUE
       [] Cardinality(parents) > 1 -> None
       [] parents = {} /\ Cardinality(alive) = 1 -> CHOOSE t \in alive : TRUE
       [] parents = {} /\ Cardinality(alive) # 1 /\ owners # alive -> Run
       [] OTHER -> None

Signature(a) == IF provider = "anthropic" /\ a = 0 THEN "main" ELSE "agent"

\* _assign_request for a request no result speaks for.  (_parent_track_for_tool_result
\* finds nothing: the results were taken out by _resolve_tool_results.)
Guessed(a, seen, ids) ==
  LET open == SelectSeq(ids, LAMBDA t : t # Run /\ seen[t].status # "closed")
      new == SelectSeq(open, LAMBDA t : seen[t].signature = "none")
      alike == SelectSeq(open, LAMBDA t : seen[t].signature = Signature(a))
  IN CASE provider = "codex" /\ a # 0 -> AgentTrack(a)
       [] new # Empty -> new[1]
       [] new = Empty /\ Len(alike) = 1 -> alike[1]
       [] OTHER -> Run

\* classify_request: read the results, choose the track, note its first signature.
Classify(a, results) ==
  \E spawned \in {results \cap DOMAIN spawns} :
  \E waited \in {(results \cap DOMAIN waits) \ spawned} :
  \E seen \in {Resolved(spawned, waited)} :
  \E ids \in {order \o SetToSeq(DOMAIN seen \ ToSet(order))} :
  \E spoken \in {Spoken(results, spawned, waited, seen)} :
  \E t \in {IF spoken # None THEN spoken ELSE Guessed(a, seen, ids)} :
  \E known \in {IF t \in DOMAIN seen THEN seen ELSE seen @@ (t :> Record(Run))} :
    /\ tracks' = [known EXCEPT ![t].signature = IF @ = "none" THEN Signature(a) ELSE @]
    /\ order' = IF t \in ToSet(ids) THEN ids ELSE Append(ids, t)
    /\ spawns' = Without(spawns, spawned)
    /\ waits' = Without(waits, waited)
    /\ agents' = [agents EXCEPT ![a].phase = "asked", ![a].fresh = {}, ![a].track = t]
    /\ sent' = IF AgentTrack(a) \in DOMAIN seen /\ seen[AgentTrack(a)].status = "closed"
               THEN sent ELSE sent \cup {<<a, t>>}

\* A tool has its result: an Anthropic spawn when its agent is done.
Ready(u) == tool[u].kind = "spawn" /\ provider = "anthropic" => agents[u].phase = "done"

\* The main agent is given a task while no track of another agent is open: a request
\* without results is filed under an open agent instead.
Tasked(a) ==
  a = 0 /\ agents[0].fresh = {} => \A t \in DOMAIN tracks \ {Run} : tracks[t].status = "closed"

\* Claude sends its whole history again, Codex what is new.
Request(a) ==
  /\ agents[a].phase = "idle" /\ Tasked(a)
  /\ \A u \in agents[a].fresh : Ready(u)
  /\ Classify(a, IF provider = "anthropic" THEN agents[a].made ELSE agents[a].fresh)
  /\ UNCHANGED <<provider, uses, tool>>

-----------------------------------------------------------------------------
(* Responses.                                                              *)

NewUse == Cardinality(DOMAIN tool) + 1

\* observe_response: the blocks tell who will send the results, who is spawned, waited
\* for and killed.
Observe(a, made) ==
  LET t == agents[a].track
      spawned == {u \in DOMAIN made : made[u].kind = "spawn"}
      named == {AgentTrack(made[u].about) : u \in {u \in DOMAIN made : made[u].kind \in {"wait", "kill"}}}
      births == IF provider = "anthropic" THEN {UseTrack(u) : u \in spawned} ELSE {}
      born == {u \in spawned : made[u].ok}
  IN /\ uses' = uses @@ [u \in DOMAIN made |-> t]
     /\ spawns' = spawns @@ [u \in spawned |-> t]
     /\ waits' = waits @@ [u \in {u \in DOMAIN made : made[u].kind = "wait"} |-> AgentTrack(made[u].about)]
     /\ tracks' = [k \in DOMAIN tracks |->
                     IF k \in named
                     THEN [tracks[k] EXCEPT !.status = IF \E u \in DOMAIN made : made[u].kind = "kill"
                                                       THEN "closed" ELSE "terminating"]
                     ELSE tracks[k]] @@ [k \in births |-> Record(t)]
     /\ order' = order \o SetToSortSeq(births, LAMBDA x, y : x[2] < y[2])
     /\ tool' = tool @@ made
     /\ agents' = [agents EXCEPT ![a].phase = IF made = Empty /\ a # 0 THEN "done" ELSE "idle",
                                 ![a].made = @ \cup DOMAIN made, ![a].fresh = DOMAIN made]
                  @@ [u \in born |-> [phase |-> "idle", made |-> {}, fresh |-> {}, track |-> None]]
     /\ UNCHANGED <<provider, sent>>

Block(kind, about, ok) == [kind |-> kind, about |-> about, ok |-> ok]

\* The children of a that Codex has told it of.
Children(a) == {u \in agents[a].made \ agents[a].fresh : tool[u].kind = "spawn" /\ tool[u].ok}

\* What an agent may answer; Claude's agents do not spawn agents.
Final(a) == Observe(a, Empty)
Reads(a) == Observe(a, NewUse :> Block("read", 0, TRUE))
Spawns(a) ==
  \E n \in 1..2, ok \in BOOLEAN :
    /\ IF provider = "anthropic" THEN a = 0 /\ ok ELSE TRUE
    /\ NewUse + n - 1 <= MaxUses
    /\ Observe(a, [u \in NewUse..(NewUse + n - 1) |-> Block("spawn", u, ok)])
Waits(a) ==
  \E child \in Children(a) : provider = "codex" /\ Observe(a, NewUse :> Block("wait", child, TRUE))
Kills(a) ==
  \E child \in Children(a) : provider = "codex" /\ Observe(a, NewUse :> Block("kill", child, TRUE))

Response(a) ==
  /\ agents[a].phase = "asked"
  /\ Final(a) \/ (NewUse <= MaxUses /\ (Reads(a) \/ Waits(a) \/ Kills(a))) \/ Spawns(a)

Init ==
  /\ provider \in {"anthropic", "codex"}
  /\ tracks = Run :> Record(None)
  /\ order = <<Run>>
  /\ spawns = Empty /\ waits = Empty /\ uses = Empty
  /\ agents = 0 :> [phase |-> "idle", made |-> {}, fresh |-> {}, track |-> None]
  /\ tool = Empty
  /\ sent = {}

Next == \E a \in DOMAIN agents : Request(a) \/ Response(a)

Spec == Init /\ [][Next]_vars

-----------------------------------------------------------------------------
\* The requests that tell who sends them are filed by agent: no track mixes two agents
\* and no agent is spread over two tracks, however its requests interleave with those of
\* its parent, its siblings and its children; and an agent that was not killed keeps an
\* open track while it works (record_exchange, "Classify ingest exchanges into parent
\* and subagent tracks").
Killed == {tool[u].about : u \in {u \in DOMAIN tool : tool[u].kind = "kill"}}
OneAgentPerTrack ==
  /\ \A x, y \in sent : x[1] = y[1] <=> x[2] = y[2]
  /\ \A x \in sent : x[1] \notin Killed /\ agents[x[1]].phase # "done" => tracks[x[2]].status # "closed"
=============================================================================
