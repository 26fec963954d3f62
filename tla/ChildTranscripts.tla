-------------------------- MODULE ChildTranscripts --------------------------
(***************************************************************************)
(* The transcripts of spawned agents (index/subagents.py): what links a    *)
(* child's file to the row of its parent that spawned it, when the tailer  *)
(* takes it up (tailer.py:586), and which of its records are its own: a    *)
(* forked Codex child starts with a copy of its parent's history.  The     *)
(* files grow while they are read; a batch may be refused and read again   *)
(* (TranscriptTailer has the rest of that).  A replay (session/backfill.py)*)
(* reads the whole files once.                                             *)
(***************************************************************************)
EXTENDS Integers, Sequences, SequencesExt, TLC

CONSTANTS
  Parent,  \* the parent's records: [kind: "call" | "output" | "other", call, child, anchor]
  Child    \* child -> its records, "anchor-text", "copied" or "own"

VARIABLES
  codex,   \* whether the harness is Codex
  size,    \* records in each file: "parent" or a child -> Nat
  at,      \* records the parent's cursor has committed
  links,   \* subagent_spawn_links: child -> [seq, anchor]
  calls,   \* pending_codex_spawn_calls: call -> [seq, anchor]
  cursors  \* registered children -> [forked, skip, seen, at, lines]

vars == <<codex, size, at, links, calls, cursors>>

Children == DOMAIN Child
None == "none"

\* record_subagent_spawn_links over records from..to: the first link of a child stays.
\* Claude's child is named by the tool use, Codex' by the output of the call.
Linked(s, i) ==
  LET r == Parent[i]
      link == [seq |-> i - 1, anchor |-> IF codex THEN r.anchor ELSE None]
  IN CASE r.kind = "call" /\ ~codex -> [s EXCEPT !.links = @ @@ (r.child :> link)]
       [] r.kind = "call" /\ codex -> [s EXCEPT !.calls = (r.call :> link) @@ @]
       [] r.kind = "output" /\ codex /\ r.call \in DOMAIN s.calls ->
            [links |-> IF r.child = None THEN s.links ELSE s.links @@ (r.child :> s.calls[r.call]),
             calls |-> [c \in DOMAIN s.calls \ {r.call} |-> s.calls[c]]]
       [] OTHER -> s
Links(s, from, to) == FoldLeft(Linked, s, [k \in 1..(to - from + 1) |-> from + k - 1])

\* discover_child_transcripts, _register_child_cursors: the children that have a file
\* and a link.  (A child's file starts with the record that names it.)
Discovered(known, ls) ==
  known @@ [c \in {c \in Children : size[c] > 0 /\ c \in DOMAIN ls} |->
              [forked |-> ls[c].seq, skip |-> ls[c].anchor, seen |-> FALSE, at |-> 0, lines |-> <<>>]]

\* iter_without_replayed_prefix_with_source_lines: the lines from..to of c that are its own.
OwnLines(c, from, to, skip, seen) ==
  SelectSeq([k \in 1..(to - from + 1) |-> from + k - 1],
            LAMBDA i : \/ skip = None \/ seen
                       \/ \E j \in from..i : Child[c][j] = skip)

-----------------------------------------------------------------------------
Init ==
  /\ codex \in BOOLEAN
  /\ size = [f \in {"parent"} \cup Children |-> 0]
  /\ at = 0
  /\ links = <<>> /\ calls = <<>> /\ cursors = <<>>

\* The harness writes.  A child's file starts after its spawn was called.
Grow(f) ==
  /\ size[f] < Len(IF f = "parent" THEN Parent ELSE Child[f])
  /\ f \in Children => \E i \in 1..size["parent"] : Parent[i].kind = "call"
  /\ size' = [size EXCEPT ![f] = @ + 1]
  /\ UNCHANGED <<codex, at, links, calls, cursors>>

\* _poll_cursor of the parent: take up children, note the links of what is new, commit
\* it; with the answer children are looked for once more.
Poll(ok) ==
  /\ at < size["parent"] \/ Discovered(cursors, links) # cursors
  /\ \E s \in {Links([links |-> links, calls |-> calls], at + 1, size["parent"])} :
       /\ links' = s.links
       /\ calls' = s.calls
       /\ at' = IF ok THEN size["parent"] ELSE at
       /\ cursors' = IF ok THEN Discovered(cursors, s.links) ELSE Discovered(cursors, links)
  /\ UNCHANGED <<codex, size>>

\* Mutant: the next batch looks for the anchor again.
PollChildUnmarked(c) ==
  /\ c \in DOMAIN cursors /\ cursors[c].at < size[c]
  /\ \E own \in {OwnLines(c, cursors[c].at + 1, size[c], cursors[c].skip, cursors[c].seen)} :
       cursors' = [cursors EXCEPT ![c].at = size[c], ![c].lines = @ \o own]
  /\ UNCHANGED <<codex, size, at, links, calls>>

\* _poll_cursor of a child; only a committed batch moves its cursor.
PollChild(c) ==
  /\ c \in DOMAIN cursors /\ cursors[c].at < size[c]
  /\ \E own \in {OwnLines(c, cursors[c].at + 1, size[c], cursors[c].skip, cursors[c].seen)} :
       cursors' = [cursors EXCEPT ![c].at = size[c], ![c].lines = @ \o own,
                                  ![c].seen = @ \/ (cursors[c].skip # None /\ own # <<>>)]
  /\ UNCHANGED <<codex, size, at, links, calls>>

Next ==
  \/ \E f \in {"parent"} \cup Children : Grow(f)
  \/ \E ok \in BOOLEAN : Poll(ok)
  \/ \E c \in Children : PollChild(c)

Spec == Init /\ [][Next]_vars

-----------------------------------------------------------------------------
\* replay_transcript_run on the files as they are now.
Replayed == Links([links |-> <<>>, calls |-> <<>>], 1, size["parent"]).links

\* A child that is taken up while everything still grows hangs at the row and consists
\* of the lines that a replay of the files finds, however its reading was cut into
\* batches and repeated (tailer.py:187, "a rebuild reproduces the live turn ids/order
\* exactly").
LiveChildIsReplayed ==
  \A c \in DOMAIN cursors :
    /\ c \in DOMAIN Replayed
    /\ cursors[c].forked = Replayed[c].seq
    /\ cursors[c].lines = OwnLines(c, 1, cursors[c].at, Replayed[c].anchor, FALSE)
=============================================================================
