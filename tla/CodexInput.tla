----------------------------- MODULE CodexInput -----------------------------
(***************************************************************************)
(* The items of a Codex request on their way into the edited form and back *)
(* on the wire (codex/request_parser.py, request_serializer.py,            *)
(* preserved_raw.py).  The edited form does not hold every field of an     *)
(* item; items that would lose one keep their raw form beside it, tied to  *)
(* it by the place they had on the wire.  An item is [kind, name, extra,   *)
(* texts]: what it is, its identity, whether it has fields the edited form *)
(* has no place for, and its texts.  Keys and encodings are left out, so   *)
(* is the matching by kind for requests captured before places were noted. *)
(***************************************************************************)
EXTENDS Integers, Sequences, FiniteSets, SequencesExt

CONSTANTS Inputs  \* the inputs a harness may send: sequences of items

VARIABLES
  wire,      \* the captured input
  system,    \* parts of the edited form: [name, place, part, text]
  messages,  \* messages of the edited form: [kind, name, place, texts]
  edits      \* bound: edits still allowed

vars == <<wire, system, messages, edits>>

Unplaced == -1

-----------------------------------------------------------------------------
(* Parsing.                                                                *)

Spoken == {"user", "assistant"}

\* Which items keep their raw form (keep_raw, extra_fields, _should_preserve_tool_output_raw).
\* Reasoning carries its fields itself; an item without a reading is kept whole.
Preserved(item) ==
  CASE item.kind = "reasoning" -> FALSE
    [] item.kind \in Spoken -> item.extra \/ item.texts = <<>>
    [] item.kind \in {"call", "output"} -> item.extra
    [] OTHER -> TRUE

\* Mutant: the place among the preserved items.
PlaceAmongPreserved(i) ==
  IF Preserved(wire[i]) THEN Cardinality({j \in 1..(i - 1) : Preserved(wire[j])}) ELSE Unplaced

Place(i) == IF Preserved(wire[i]) THEN i - 1 ELSE Unplaced

\* _parse_system_message_item: a part per text; without one the item is a message.
SystemOf(i) ==
  [p \in DOMAIN wire[i].texts |-> [name |-> wire[i].name, place |-> Place(i), part |-> p, text |-> wire[i].texts[p]]]
IsSystem(item) == item.kind = "developer" /\ item.texts # <<>>

\* _parse_input
Places == [i \in DOMAIN wire |-> i]
ParsedSystem == FlattenSeq([i \in DOMAIN wire |-> IF IsSystem(wire[i]) THEN SystemOf(i) ELSE <<>>])
ParsedMessages ==
  LET own == SelectSeq(Places, LAMBDA i : ~IsSystem(wire[i]))
  IN [k \in DOMAIN own |->
        [kind |-> wire[own[k]].kind, name |-> wire[own[k]].name, place |-> Place(own[k]), texts |-> wire[own[k]].texts]]

-----------------------------------------------------------------------------
(* Serializing.                                                            *)

\* _serialize_input: the parts of one developer message are joined again.
Grouped ==
  FoldLeft(LAMBDA out, p :
             IF out # <<>> /\ Last(out).place = p.place
             THEN [out EXCEPT ![Len(out)].texts = Append(@, p.text)]
             ELSE Append(out, [kind |-> "developer", name |-> p.name, place |-> p.place, texts |-> <<p.text>>]),
           <<>>, system)

\* looks_like_input_item; _serialize_message refuses what has no wire form.
Emits(m) == m.kind \in Spoken \cup {"call", "output", "reasoning", "developer"}

\* _apply_stamped_preserved_input, _merge_input_item_raw: the raw form of its place is
\* merged into an item; the raw forms left over belonged to deleted items.
Merged(item) ==
  IF item.place = Unplaced
  THEN [name |-> item.name, extra |-> item.kind = "reasoning" /\ wire[item.name].extra, texts |-> item.texts]
  ELSE [name |-> wire[item.place + 1].name, extra |-> wire[item.place + 1].extra, texts |-> item.texts]

\* materialize_input_items(allow_gaps): placed items at their places, the others fill the
\* holes in their order, holes without one close.
Materialized(items) ==
  LET others == SelectSeq(items, LAMBDA x : x.place = Unplaced)
      placed == {items[k].place : k \in DOMAIN items} \ {Unplaced}
      total == IF placed = {} THEN Len(items)
               ELSE LET last == (CHOOSE p \in placed : \A q \in placed : q <= p) + 1
                    IN IF Len(items) > last THEN Len(items) ELSE last
      Hole(i) == Cardinality({j \in 0..i : j \notin placed})
      all == [k \in 1..total |->
                IF k - 1 \in placed THEN <<items[CHOOSE x \in DOMAIN items : items[x].place = k - 1]>>
                ELSE IF Hole(k - 1) <= Len(others) THEN <<others[Hole(k - 1)]>> ELSE <<>>]
      holes == Cardinality({j \in 0..(total - 1) : j \notin placed})
  IN FlattenSeq(all) \o SubSeq(others, holes + 1, Len(others))

Serialized ==
  LET out == Materialized(Grouped \o messages)
  IN [k \in DOMAIN out |-> Merged(out[k])]

-----------------------------------------------------------------------------
Init ==
  /\ wire \in Inputs
  /\ system = ParsedSystem
  /\ messages = ParsedMessages
  /\ edits = 3

Edit == edits > 0 /\ edits' = edits - 1 /\ UNCHANGED wire

\* What overrides do here (OverrideOps): parts and messages go, texts change.  A tool
\* call goes with its output (sanitize_curated_messages).
DropPart(k) == Edit /\ system' = RemoveAt(system, k) /\ UNCHANGED messages
DropMessage(k) ==
  /\ Edit /\ messages[k].kind \notin {"call", "output"}
  /\ messages' = RemoveAt(messages, k)
  /\ UNCHANGED system
DropTool ==
  /\ Edit /\ \E m \in ToSet(messages) : m.kind = "call"
  /\ messages' = SelectSeq(messages, LAMBDA m : m.kind \notin {"call", "output"})
  /\ UNCHANGED system
Rewrite(k) ==
  /\ Edit /\ messages[k].kind \in Spoken /\ messages[k].texts # <<>>
  /\ messages' = [messages EXCEPT ![k].texts[1] = "new"]
  /\ UNCHANGED system

Next ==
  \/ \E k \in DOMAIN system : DropPart(k)
  \/ \E k \in DOMAIN messages : DropMessage(k) \/ Rewrite(k)
  \/ DropTool

Spec == Init /\ [][Next]_vars

-----------------------------------------------------------------------------
\* Every part and message that is left goes out once, with its own extra fields and the
\* text it has now, none with those of a deleted neighbour; an unedited input goes out as
\* it came (preserved_raw.py:17, "re-pair each surviving item with exactly its own raw
\* entry").  Only requests whose items all have a wire form can be sent.
Survivors == {m.name : m \in ToSet(system) \cup ToSet(messages)}
RawStaysWithItsItem ==
  (\A m \in ToSet(messages) : Emits(m)) =>
    \E out \in {Serialized} :
      /\ Len(out) = Cardinality(Survivors) /\ {x.name : x \in ToSet(out)} = Survivors
      /\ \A x \in ToSet(out) :
           /\ x.extra = (wire[x.name].extra /\ (Preserved(wire[x.name]) \/ wire[x.name].kind = "reasoning"))
           /\ IF \E p \in ToSet(system) : p.name = x.name
              THEN LET mine == SelectSeq(system, LAMBDA p : p.name = x.name)
                   IN x.texts = [k \in DOMAIN mine |-> mine[k].text]
              ELSE \E m \in ToSet(messages) : m.name = x.name /\ m.texts = x.texts
      /\ system = ParsedSystem /\ messages = ParsedMessages =>
           \A k \in DOMAIN wire : out[k].name = k /\ out[k].texts = wire[k].texts /\ out[k].extra = wire[k].extra

=============================================================================
