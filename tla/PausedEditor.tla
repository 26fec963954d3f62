---------------------------- MODULE PausedEditor ----------------------------
(***************************************************************************)
(* The inspector's editor of the paused request (useBreakpoint.ts,         *)
(* BreakpointEditorActions.ts, uiStore.ts): it is opened by the event of   *)
(* the pause or by a look at the gate, and closed by the answers of its    *)
(* own calls and by the event of the exchange it forwarded, which come in  *)
(* any order.  A release takes the request out of the gate in one step     *)
(* (Breakpoint has the steps between).                                     *)
(***************************************************************************)
EXTENDS Naturals, Sequences

CONSTANTS
  Flows,       \* requests of the run
  MaxTrouble,  \* bound: broken connections, reloads
  MaxCalls     \* bound: calls of the editor

NoFlow == "none"

VARIABLES
  fate,     \* fate[f]: "new", "paused", "open", "dropped" or "ended"
  events,   \* on their way to the page: [type, flow]
  editor,   \* [paused, forwarding, loading]
  hydration,\* [status, detail]: what the page has asked of the gate
  calls,    \* of editors, unanswered: [flow, kind, state]
  offered,  \* history: the last flow put into the editor
  trouble, asked

vars == <<fate, events, editor, hydration, calls, offered, trouble, asked>>

\* What a page that has just been loaded holds.
NoEditor == [paused |-> NoFlow, forwarding |-> NoFlow, loading |-> FALSE]
FirstLook == [status |-> "asked", detail |-> NoFlow]

-----------------------------------------------------------------------------
(* The proxy.                                                              *)

Goes(f, from, to) ==
  /\ fate[f] = from /\ fate' = [fate EXCEPT ![f] = to]
  /\ UNCHANGED <<editor, hydration, calls, offered, trouble, asked>>

Sends(type, f) == events' = Append(events, [type |-> type, flow |-> f])

\* pause_serializer lets one request wait at a time.
Pause(f) == (\A g \in Flows : fate[g] # "paused") /\ Goes(f, "new", "paused") /\ Sends("paused", f)
AutoRelease(f) == Goes(f, "paused", "open") /\ UNCHANGED events
Respond(f) == Goes(f, "open", "ended") /\ Sends("exchange", f)
\* exchange_deleted changes nothing in the editor.
Discard(f) == (Goes(f, "open", "ended") \/ Goes(f, "dropped", "ended")) /\ UNCHANGED events

-----------------------------------------------------------------------------
(* Events: applyExchangeStreamEvent.                                       *)

Trouble == trouble < MaxTrouble /\ trouble' = trouble + 1

\* The editor closed by the forwarded exchange whatever it shows.
AfterExchangeClosesAny(f) == IF f # editor.forwarding THEN editor ELSE NoEditor

\* The exchange of the forwarded flow closes its editor, and no other flow's.
AfterExchange(f) ==
  IF f # editor.forwarding THEN editor
  ELSE IF editor.paused \in {NoFlow, f} THEN NoEditor
  ELSE [editor EXCEPT !.forwarding = NoFlow]

\* setPausedFlow mounts another editor for another flow.
Presented(f) == [editor EXCEPT !.paused = f, !.loading = editor.paused = f /\ @]

\* The effect of useBreakpoint runs when there is no paused flow, or none any more.
Hydrated(h, e) == IF e.paused = NoFlow /\ h.status \in Flows /\ h.detail = NoFlow THEN [h EXCEPT !.detail = "asked"] ELSE h
Show(e) == editor' = e /\ hydration' = IF e.paused = editor.paused THEN hydration ELSE Hydrated(hydration, e)

Deliver ==
  /\ events # <<>> /\ events' = Tail(events)
  /\ \E e \in {Head(events)} :
       \/ e.type = "paused" /\ Show(Presented(e.flow)) /\ offered' = e.flow
       \/ e.type = "exchange" /\ Show(AfterExchange(e.flow)) /\ UNCHANGED offered
  /\ UNCHANGED <<fate, calls, trouble, asked>>

\* The connection breaks, or the queue of the stream is full: nothing is asked again but the list.
Lost ==
  /\ events # <<>> /\ Trouble /\ events' = Tail(events)
  /\ UNCHANGED <<fate, editor, hydration, calls, offered, asked>>

-----------------------------------------------------------------------------
(* The editor.                                                             *)

Call(kind) ==
  /\ asked < MaxCalls /\ asked' = asked + 1
  /\ editor.paused # NoFlow /\ \A c \in calls : c.flow = editor.paused => c.kind # kind
  /\ kind # "clear" => ~editor.loading
  /\ calls' = calls \cup {[flow |-> editor.paused, kind |-> kind, state |-> "sent"]}
  /\ editor' = [editor EXCEPT !.loading = @ \/ kind # "clear"]
  /\ UNCHANGED <<fate, events, hydration, offered, trouble>>

\* The routes of the breakpoint answer 404 for a flow that is not paused.
Served(c) ==
  /\ c.state = "sent"
  /\ \E ok \in {fate[c.flow] = "paused"} :
       /\ calls' = (calls \ {c}) \cup {[c EXCEPT !.state = IF ok THEN "ok" ELSE "refused"]}
       /\ fate' = IF ~ok \/ c.kind = "clear" THEN fate
                  ELSE [fate EXCEPT ![c.flow] = IF c.kind = "drop" THEN "dropped" ELSE "open"]
  /\ UNCHANGED <<events, editor, hydration, offered, trouble, asked>>

\* The editor that called goes on, mounted or not.
Answered(c) ==
  /\ c.state \in {"ok", "refused"} /\ calls' = calls \ {c}
  /\ Show(CASE c.state = "refused" -> [editor EXCEPT !.loading = @ /\ (c.kind = "clear" \/ editor.paused # c.flow)]
            [] c.state = "ok" /\ c.kind = "forward" -> [editor EXCEPT !.forwarding = c.flow]
            [] c.state = "ok" /\ c.kind = "drop" -> NoEditor
            [] c.state = "ok" /\ c.kind = "clear" -> Presented(c.flow))
  /\ offered' = IF c.state = "ok" /\ c.kind # "forward" /\ c.flow # offered THEN NoFlow ELSE offered
  /\ UNCHANGED <<fate, events, trouble, asked>>

\* 120 seconds without an event of the flow; the timer is the mounted editor's.
ForwardTimesOut ==
  /\ editor.forwarding # NoFlow /\ editor.paused # NoFlow
  /\ editor' = [editor EXCEPT !.forwarding = NoFlow, !.loading = FALSE]
  /\ UNCHANGED <<fate, events, hydration, calls, offered, trouble, asked>>

StatusArrives ==
  /\ hydration.status = "asked"
  /\ \E P \in {{f \in Flows : fate[f] = "paused"}} :
       hydration' = Hydrated([hydration EXCEPT !.status = IF P = {} THEN NoFlow ELSE CHOOSE f \in P : TRUE], editor)
  /\ UNCHANGED <<fate, events, editor, calls, offered, trouble, asked>>

ReadDetail ==
  /\ hydration.detail = "asked"
  /\ hydration' = [hydration EXCEPT !.detail = IF fate[hydration.status] = "paused" THEN hydration.status ELSE NoFlow]
  /\ UNCHANGED <<fate, events, editor, calls, offered, trouble, asked>>

DetailArrives ==
  /\ hydration.detail \in Flows
  /\ editor' = Presented(hydration.detail)
  /\ offered' = IF fate[hydration.detail] = "paused" \/ offered = NoFlow THEN hydration.detail ELSE NoFlow
  /\ hydration' = [hydration EXCEPT !.detail = NoFlow]
  /\ UNCHANGED <<fate, events, calls, trouble, asked>>

\* A call on its way is served or never was.
Reload ==
  /\ Trouble /\ events' = <<>>
  /\ editor' = NoEditor /\ hydration' = FirstLook /\ calls' = {} /\ offered' = NoFlow
  /\ UNCHANGED <<fate, asked>>

Init ==
  /\ fate = [f \in Flows |-> "new"] /\ events = <<>>
  /\ editor = NoEditor /\ hydration = FirstLook /\ calls = {}
  /\ offered = NoFlow /\ trouble = 0 /\ asked = 0

Next ==
  \/ \E f \in Flows : Pause(f) \/ AutoRelease(f) \/ Respond(f) \/ Discard(f)
  \/ Deliver \/ Lost
  \/ \E kind \in {"forward", "drop", "clear"} : Call(kind)
  \/ \E c \in calls : Served(c) \/ Answered(c)
  \/ ForwardTimesOut \/ StatusArrives \/ ReadDetail \/ DetailArrives \/ Reload

Spec == Init /\ [][Next]_vars

-----------------------------------------------------------------------------
\* A flow that was put into the editor stays there while it is paused, whatever becomes of
\* the flows before it, unless the answer to a call about another flow comes after it.
EditorStays == offered # NoFlow /\ fate[offered] = "paused" => editor.paused = offered
=============================================================================
