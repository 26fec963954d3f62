----------------------------- MODULE OverrideOps -----------------------------
(***************************************************************************)
(* What a scope's overrides make of a request (overrides.py and its        *)
(* helpers override_ops_messages.py, override_targets.py) while users add, *)
(* change and remove them (override_state.py).  Targets are positions in   *)
(* the captured request; the edits run one after the other on what the     *)
(* earlier ones left.  A text is a model value, "" or Cut(text); the       *)
(* counts of characters are left out.                                      *)
(***************************************************************************)
EXTENDS Integers, Sequences, FiniteSets, SequencesExt

CONSTANTS
  Captured,     \* the captured request: [provider, system, tools, messages]
  Edits,        \* the overrides users may set: [kind, target, value]
  MaxOverrides  \* bound: overrides of the scope at a time

VARIABLES
  overrides  \* OverrideStore: the scope's overrides in the order of their keys

vars == overrides

Key(o) == <<o.kind, o.target>>

\* Text blocks [kind, text]; tool uses and results [kind, id, text]; others [kind].
IsText(b) == b.kind = "text"
IsUse(b) == b.kind = "tool_use"
IsResult(b) == b.kind = "tool_result"
Cut(text) == <<"truncated", text>>
Long == {"long"}

-----------------------------------------------------------------------------
(* The edits, each on the request its predecessors left.                   *)

\* The context of the loop: the request as it is now, what was removed from it,
\* and the audit's applied flags.
Start(ir) ==
  [ir |-> ir, system |-> {}, blocks |-> {}, applied |-> {}]

Has(seq, i) == 0 <= i /\ i < Len(seq)
At(seq, i) == seq[i + 1]
Put(seq, i, x) == [seq EXCEPT ![i + 1] = x]

\* Mutant: every removal shifts, also one behind the target.
ShiftedByAll(i, removed) == i - Cardinality(removed)

\* _shift_after_removals.
Shifted(i, removed) == i - Cardinality({r \in removed : r < i})

Applied(c, o) == [c EXCEPT !.applied = @ \cup {Key(o)}]

ToolToggle(c, o) ==
  CASE o.value -> IF \E t \in ToSet(Captured.tools) : t.name = o.target THEN Applied(c, o) ELSE c
    [] \E t \in ToSet(c.ir.tools) : t.name = o.target ->
         [Applied(c, o) EXCEPT !.ir.tools = SelectSeq(@, LAMBDA t : t.name # o.target)]
    [] OTHER -> c

ToolDescription(c, o) ==
  IF \E t \in ToSet(c.ir.tools) : t.name = o.target
  THEN [Applied(c, o) EXCEPT !.ir.tools =
          [i \in DOMAIN @ |-> IF @[i].name = o.target THEN [@[i] EXCEPT !.text = o.value] ELSE @[i]]]
  ELSE c

SystemPartToggle(c, o) ==
  CASE o.value -> IF Has(Captured.system, o.target) THEN Applied(c, o) ELSE c
    [] o.target \notin c.system /\ Has(c.ir.system, Shifted(o.target, c.system)) ->
         [Applied(c, o) EXCEPT !.ir.system = RemoveAt(@, Shifted(o.target, c.system) + 1),
                               !.system = @ \cup {o.target}]
    [] OTHER -> c

SystemPartText(c, o) ==
  IF o.target \notin c.system /\ Has(c.ir.system, Shifted(o.target, c.system))
  THEN [Applied(c, o) EXCEPT !.ir.system = Put(@, Shifted(o.target, c.system), o.value)]
  ELSE c

Targeted(m, o) == m.role = "user" /\ \E b \in ToSet(m.content) : IsResult(b) /\ b.id = o.target
Truncated(m, o) ==
  [m EXCEPT !.content = [i \in DOMAIN @ |->
     IF IsResult(@[i]) /\ @[i].id = o.target /\ @[i].text \in Long
     THEN [@[i] EXCEPT !.text = Cut(@)] ELSE @[i]]]

TruncateToolResult(c, o) ==
  IF \E m \in ToSet(c.ir.messages) : Targeted(m, o)
  THEN [Applied(c, o) EXCEPT !.ir.messages =
          [i \in DOMAIN @ |-> IF Targeted(@[i], o) THEN Truncated(@[i], o) ELSE @[i]]]
  ELSE c

\* adjust_blk_index: where block <<message, block>> of the captured request is now.
BlockNow(c, t) == Shifted(t[2], {r[2] : r \in {r \in c.blocks : r[1] = t[1]}})
HasBlock(c, t) ==
  t \notin c.blocks /\ Has(c.ir.messages, t[1]) /\ Has(At(c.ir.messages, t[1]).content, BlockNow(c, t))

MessageBlockToggle(c, o) ==
  CASE o.value -> IF Has(Captured.messages, o.target[1]) /\ Has(At(Captured.messages, o.target[1]).content, o.target[2])
                  THEN Applied(c, o) ELSE c
    [] HasBlock(c, o.target) ->
         [Applied(c, o) EXCEPT !.ir.messages[o.target[1] + 1].content = RemoveAt(@, BlockNow(c, o.target) + 1),
                               !.blocks = @ \cup {o.target}]
    [] OTHER -> c

MessageText(c, o) ==
  IF HasBlock(c, o.target) /\ IsText(At(At(c.ir.messages, o.target[1]).content, BlockNow(c, o.target)))
  THEN [Applied(c, o) EXCEPT !.ir.messages[o.target[1] + 1].content =
          Put(@, BlockNow(c, o.target), [kind |-> "text", text |-> o.value])]
  ELSE c

\* _PRIORITY, and _apply_override_value.
Priority == <<"tool_toggle", "tool_description", "system_part_toggle", "system_part_text",
              "truncate_tool_result", "message_block_toggle", "message_text">>

ApplyOne(c, o) ==
  CASE o.kind = "tool_toggle" -> ToolToggle(c, o)
    [] o.kind = "tool_description" -> ToolDescription(c, o)
    [] o.kind = "system_part_toggle" -> SystemPartToggle(c, o)
    [] o.kind = "system_part_text" -> SystemPartText(c, o)
    [] o.kind = "truncate_tool_result" -> TruncateToolResult(c, o)
    [] o.kind = "message_block_toggle" -> MessageBlockToggle(c, o)
    [] o.kind = "message_text" -> MessageText(c, o)

\* The stable sort by priority.
InOrder(os) == FlattenSeq([p \in DOMAIN Priority |-> SelectSeq(os, LAMBDA o : o.kind = Priority[p])])

BlocksOf(messages) == UNION {ToSet(m.content) : m \in ToSet(messages)}
Ids(messages, Kind(_)) == {b.id : b \in {b \in BlocksOf(messages) : Kind(b)}}

\* codex_has_tool_result_only_turn: its results answer calls of an earlier request.
ResultsOnly(ir) ==
  ir.provider = "codex" /\ Ids(ir.messages, IsResult) # {} /\ Ids(ir.messages, IsUse) = {}

\* sanitize_curated_messages: without empty texts, unpaired tool blocks, empty messages.
Sanitized(messages, keepResults) ==
  SelectSeq(
    [i \in DOMAIN messages |-> [messages[i] EXCEPT !.content = SelectSeq(@, LAMBDA b :
       /\ IsText(b) => b.text # ""
       /\ IsUse(b) => b.id \in Ids(messages, IsResult)
       /\ IsResult(b) => keepResults \/ b.id \in Ids(messages, IsUse))]],
    LAMBDA m : m.content # <<>>)

ApplyOverrides(os, ir) ==
  [FoldLeft(ApplyOne, Start(ir), InOrder(os))
     EXCEPT !.ir.messages = Sanitized(@, ResultsOnly(ir))]

-----------------------------------------------------------------------------
(* The store.                                                              *)

Init == overrides = <<>>

\* A changed value keeps its place; None removes it.
Upsert(o) ==
  LET at == SelectInSeq(overrides, LAMBDA p : Key(p) = Key(o))
  IN overrides' = IF at = 0 THEN Append(overrides, o) ELSE [overrides EXCEPT ![at] = o]

Patch(o) == Len(overrides) < MaxOverrides /\ Upsert(o)

Delete(o) ==
  /\ o \in ToSet(overrides)
  /\ overrides' = SelectSeq(overrides, LAMBDA p : p # o)

Clear == overrides # <<>> /\ overrides' = <<>>

Next == (\E o \in Edits : Patch(o) \/ Delete(o)) \/ Clear

Spec == Init /\ [][Next]_vars

-----------------------------------------------------------------------------
(* What the overrides ask for, said of the captured request alone.         *)

Value(kind, target, default) ==
  IF \E o \in ToSet(overrides) : Key(o) = <<kind, target>>
  THEN (CHOOSE o \in ToSet(overrides) : Key(o) = <<kind, target>>).value ELSE default

\* The places 0.. of seq that P keeps, in order, each as F shows it.
Chosen(seq, P(_), F(_)) ==
  LET kept == SetToSortSeq({i \in 0..(Len(seq) - 1) : P(i)}, <)
  IN [n \in DOMAIN kept |-> F(kept[n])]

WantedBlocks(m) ==
  Chosen(At(Captured.messages, m).content,
         LAMBDA b : Value("message_block_toggle", <<m, b>>, TRUE),
         LAMBDA b :
           LET block == At(At(Captured.messages, m).content, b)
           IN CASE IsText(block) -> [block EXCEPT !.text = Value("message_text", <<m, b>>, @)]
                [] /\ IsResult(block) /\ block.text \in Long
                   /\ Value("truncate_tool_result", block.id, 0) # 0
                   /\ At(Captured.messages, m).role = "user" -> [block EXCEPT !.text = Cut(@)]
                [] OTHER -> block)

Wanted ==
  [Captured EXCEPT
     !.system = Chosen(@, LAMBDA i : Value("system_part_toggle", i, TRUE),
                       LAMBDA i : Value("system_part_text", i, At(Captured.system, i))),
     !.tools = Chosen(@, LAMBDA i : Value("tool_toggle", At(Captured.tools, i).name, TRUE),
                      LAMBDA i : [At(Captured.tools, i) EXCEPT
                                    !.text = Value("tool_description", At(Captured.tools, i).name, @)]),
     !.messages = Sanitized([m \in DOMAIN @ |-> [@[m] EXCEPT !.content = WantedBlocks(m - 1)]],
                            ResultsOnly(Captured))]

\* The request curated by the edits one after the other is the one the overrides ask
\* for at the positions of the captured request: whatever order they were set in, no
\* removal makes a later edit hit its neighbour (overrides.py:149-152).  An edit the
\* audit does not report as applied could as well be missing.
EditsHitTheirTargets ==
  \E c \in {ApplyOverrides(overrides, Captured)} :
    /\ c.ir = Wanted
    /\ \E kept \in {SelectSeq(overrides, LAMBDA o : Key(o) \in c.applied)} :
         ApplyOverrides(kept, Captured).ir = c.ir

\* The curated request pairs every tool block it keeps, unless it is the codex turn
\* that answers earlier calls; curating it again without overrides changes nothing.
ToolBlocksStayPaired ==
  \E messages \in {ApplyOverrides(overrides, Captured).ir.messages} :
    /\ Ids(messages, IsUse) \subseteq Ids(messages, IsResult)
    /\ ResultsOnly(Captured) \/ Ids(messages, IsResult) \subseteq Ids(messages, IsUse)
    /\ Sanitized(messages, ResultsOnly(Captured)) = messages

\* Curation as a whole: each edit does what was asked of it, and what is left of the tools
\* is a request a provider accepts.
CurationIsWhole == EditsHitTheirTargets /\ ToolBlocksStayPaired
=============================================================================
