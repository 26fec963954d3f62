----------------------------- MODULE Breakpoint -----------------------------
(***************************************************************************)
(* The breakpoint of the capture proxy: breakpoint.py, pause_session.py,   *)
(* the request half of addon_handlers.py and the routes that act on a      *)
(* paused flow (api/v1/breakpoint_routes.py, api/v1/overrides.py).         *)
(*                                                                         *)
(* Everything runs on one asyncio loop, so an action is the code between   *)
(* two points at which a coroutine really suspends.  The module lock       *)
(* `_lock` is never held across an await, hence never contended and not    *)
(* modelled; `_pause_serializer` is held across the wait, and is.          *)
(*                                                                         *)
(* A request's IR is abstracted to one of a few variants of itself: the    *)
(* captured one (Original), what the overrides make of it, what the        *)
(* operator edits it into.  An override store is abstracted to the variant *)
(* that applying it yields; an audit and a token count, to the variant     *)
(* they describe.                                                          *)
(***************************************************************************)
EXTENDS Naturals, Sequences, FiniteSets

CONSTANTS
  Flows,       \* the requests (an HTTP request, or one turn of a websocket)
  HttpFlows,   \* those that are HTTP requests to a provider that counts tokens
  SkipFlows,   \* those whose model is in breakpoint_skip_models
  Scopes,      \* the override scopes, (run, track) pairs
  ScopeOf,     \* the scope of each request
  LegacyScope, \* the scope of a route called without run_id and track_id
  IRs,         \* the variants of a request
  Original,    \* the variant the proxy captured
  Requests,    \* re-audit requests that can be in flight at once
  None         \* "no value"

ASSUME ConstantsAssumption ==
  /\ HttpFlows \subseteq Flows
  /\ SkipFlows \subseteq Flows
  /\ LegacyScope \in Scopes
  /\ ScopeOf \in [Flows -> Scopes]
  /\ Original \in IRs
  /\ None \notin IRs
  /\ None \notin Flows

VARIABLES
  mode,        \* _mode: "off" or "armed_once"
  closed,      \* the addon's shutdown ran clear_all
  store,       \* the override store, by scope
  hook,        \* how far the request hook of each flow has come
  request,     \* RequestFlowState of each flow: what is recorded about it
  wire,        \* what went upstream, None until the hook lets the flow go
  holder,      \* the flow that holds _pause_serializer, or None
  waiters,     \* the flows queued on _pause_serializer, first come first served
  paused,      \* _paused: the PausedFlow of each flow, None when absent
  counting,    \* the variant a flow's pause-count task is counting, or None
  reaudit,     \* the re-audit requests suspended in count_tokens
  decision,    \* the last release the API acknowledged, by flow
  vetoed       \* the flows the API, or the shutdown, reported dropped

vars == <<mode, closed, store, hook, request, wire, holder, waiters, paused,
          counting, reaudit, decision, vetoed>>

-----------------------------------------------------------------------------
Maybe(S) == S \cup {None}

HookStates == {"idle", "persisting", "queued", "paused", "forwarded", "dropped"}

\* Bytes on the wire: the captured bytes, or a serialization of a variant.
WireForms == {"captured", "serialized"}
Wires == [ir : IRs, form : WireForms]

StoreEntries == [effect : IRs, enabled : BOOLEAN]

RequestStates == [curated : IRs, audit : Maybe(IRs), mutated : BOOLEAN]

PausedFlows == [curated : IRs, audit : Maybe(IRs), edit : Maybe(IRs),
                payload : Maybe(IRs), dropped : BOOLEAN, event : BOOLEAN,
                tokens : Maybe(IRs)]

Decisions == [kind : {"edit", "unmodified"}, ir : IRs]

\* "No value" is none of the values it stands in for.
ASSUME NoneAssumption ==
  /\ None \notin RequestStates
  /\ None \notin PausedFlows
  /\ None \notin Wires
  /\ None \notin Decisions
  /\ None \notin [flow : Flows, ir : IRs]

TypeOK ==
  /\ mode \in {"off", "armed_once"}
  /\ closed \in BOOLEAN
  /\ store \in [Scopes -> StoreEntries]
  /\ hook \in [Flows -> HookStates]
  /\ request \in [Flows -> Maybe(RequestStates)]
  /\ wire \in [Flows -> Maybe(Wires)]
  /\ holder \in Maybe(Flows)
  /\ waiters \in Seq(Flows)
  /\ paused \in [Flows -> Maybe(PausedFlows)]
  /\ counting \in [Flows -> Maybe(IRs)]
  /\ reaudit \in [Requests -> Maybe([flow : Flows, ir : IRs])]
  /\ decision \in [Flows -> Maybe(Decisions)]
  /\ vetoed \in SUBSET Flows

Init ==
  /\ mode = "off"
  /\ closed = FALSE
  /\ store = [s \in Scopes |-> [effect |-> Original, enabled |-> TRUE]]
  /\ hook = [f \in Flows |-> "idle"]
  /\ request = [f \in Flows |-> None]
  /\ wire = [f \in Flows |-> None]
  /\ holder = None
  /\ waiters = <<>>
  /\ paused = [f \in Flows |-> None]
  /\ counting = [f \in Flows |-> None]
  /\ reaudit = [r \in Requests |-> None]
  /\ decision = [f \in Flows |-> None]
  /\ vetoed = {}

-----------------------------------------------------------------------------
(* Operators of the pipeline                                               *)

\* outbound_request_if_changed: the captured bytes go out untouched when the
\* curated request equals the original, a serialization of it otherwise.
Outbound(ir) == [ir |-> ir, form |-> IF ir = Original THEN "captured" ELSE "serialized"]

\* What the overrides of a store entry make of the original request.
Effect(e) == IF e.enabled THEN e.effect ELSE Original

\* run_pipeline: overrides of the flow's scope, unless they are disabled.
Curated(f) == Effect(store[ScopeOf[f]])
PipelineAudit(f) == IF store[ScopeOf[f]].enabled THEN store[ScopeOf[f]].effect ELSE None

\* The PausedFlow that bp.pause registers for the request as the pipeline left it.
FreshPause(f) ==
  [curated |-> request[f].curated, audit |-> request[f].audit, edit |-> None,
   payload |-> None, dropped |-> FALSE, event |-> FALSE, tokens |-> None]

-----------------------------------------------------------------------------
(* The request hook                                                        *)

\* The hook parses the request, runs the pipeline and records its outcome,
\* then suspends while the provisional exchange is written to disk.  A
\* failing override forwards the request unmodified and unaudited.
ReceiveRequest(f) ==
  /\ hook[f] = "idle"
  /\ hook' = [hook EXCEPT ![f] = "persisting"]
  /\ \/ request' = [request EXCEPT ![f] = [curated |-> Curated(f),
                                           audit |-> PipelineAudit(f),
                                           mutated |-> FALSE]]
     \/ request' = [request EXCEPT ![f] = [curated |-> Original,
                                           audit |-> None, mutated |-> FALSE]]
  /\ UNCHANGED <<mode, closed, store, wire, holder, waiters, paused, counting,
                 reaudit, decision, vetoed>>

\* A request no adapter can parse is recorded as raw bytes and passes through.
PassUnparsed(f) ==
  /\ hook[f] = "idle"
  /\ hook' = [hook EXCEPT ![f] = "forwarded"]
  /\ wire' = [wire EXCEPT ![f] = [ir |-> Original, form |-> "captured"]]
  /\ UNCHANGED <<mode, closed, store, request, holder, waiters, paused, counting,
                 reaudit, decision, vetoed>>

MustPause(f) == f \notin SkipFlows /\ mode = "armed_once"

ForwardCurated(f) ==
  /\ hook[f] = "persisting"
  /\ ~MustPause(f)
  /\ hook' = [hook EXCEPT ![f] = "forwarded"]
  /\ wire' = [wire EXCEPT ![f] = Outbound(request[f].curated)]
  /\ UNCHANGED <<mode, closed, store, request, holder, waiters, paused, counting,
                 reaudit, decision, vetoed>>

\* Inside the serializer: register the flow, announce it, start its count.
StartPause(f) ==
  /\ hook' = [hook EXCEPT ![f] = "paused"]
  /\ holder' = f
  /\ paused' = [paused EXCEPT ![f] = FreshPause(f)]
  /\ counting' = IF f \in HttpFlows
                 THEN [counting EXCEPT ![f] = request[f].curated]
                 ELSE counting

\* asyncio.Lock.acquire does not suspend when the lock is free and nobody
\* waits for it, and queues behind every earlier waiter otherwise.
PauseAtOnce(f) ==
  /\ hook[f] = "persisting"
  /\ MustPause(f)
  /\ holder = None
  /\ waiters = <<>>
  /\ StartPause(f)
  /\ UNCHANGED <<mode, closed, store, request, wire, waiters, reaudit, decision, vetoed>>

QueueForPause(f) ==
  /\ hook[f] = "persisting"
  /\ MustPause(f)
  /\ holder # None \/ waiters # <<>>
  /\ hook' = [hook EXCEPT ![f] = "queued"]
  /\ waiters' = Append(waiters, f)
  /\ UNCHANGED <<mode, closed, store, request, wire, holder, paused, counting,
                 reaudit, decision, vetoed>>

\* The armed state is not looked at again once the serializer is obtained.
AcquireSerializer(f) ==
  /\ holder = None
  /\ waiters # <<>>
  /\ f = Head(waiters)
  /\ hook[f] = "queued"
  /\ waiters' = Tail(waiters)
  /\ StartPause(f)
  /\ UNCHANGED <<mode, closed, store, request, wire, reaudit, decision, vetoed>>

-----------------------------------------------------------------------------
(* The end of a pause                                                      *)

FinalIR(p) == IF p.edit = None THEN p.curated ELSE p.edit
MutatedManually(p) == p.edit # None /\ p.edit # p.curated

\* Mutant: the audit of the pipeline survives a manual edit.
ResolvedRequestKeepingAudit(p) ==
  [curated |-> FinalIR(p), audit |-> p.audit, mutated |-> MutatedManually(p)]

\* resolve_paused_flow: the audit is kept only while it describes what is sent.
ResolvedRequest(p) ==
  [curated |-> FinalIR(p),
   audit |-> IF MutatedManually(p) THEN None ELSE p.audit,
   mutated |-> MutatedManually(p)]

\* _release_payload: the payload a route left, else bytes only if changed.
ReleaseWire(p) ==
  IF p.payload = None THEN Outbound(FinalIR(p))
  ELSE [ir |-> p.payload, form |-> "serialized"]

\* Mutant: the serializer is not left when the flow was dropped.
EndPauseLeaking(f) ==
  /\ holder' = IF paused[f].dropped THEN holder ELSE None
  /\ paused' = [paused EXCEPT ![f] = None]
  /\ hook' = [hook EXCEPT ![f] = IF paused[f].dropped THEN "dropped" ELSE "forwarded"]
  /\ UNCHANGED <<mode, closed, store, request, wire, waiters, counting, reaudit,
                 decision, vetoed>>

\* pop_paused, leaving the serializer and acting on the decision run without
\* suspension, whether the event or the timeout ended the wait.
EndPause(f) ==
  /\ holder' = None
  /\ paused' = [paused EXCEPT ![f] = None]
  /\ IF paused[f].dropped
     THEN /\ hook' = [hook EXCEPT ![f] = "dropped"]
          /\ UNCHANGED <<request, wire>>
     ELSE /\ hook' = [hook EXCEPT ![f] = "forwarded"]
          /\ request' = [request EXCEPT ![f] = ResolvedRequest(paused[f])]
          /\ wire' = [wire EXCEPT ![f] = ReleaseWire(paused[f])]
  /\ UNCHANGED <<mode, closed, store, waiters, counting, reaudit, decision, vetoed>>

WakeOnEvent(f) ==
  /\ hook[f] = "paused"
  /\ paused[f].event
  /\ EndPause(f)

\* Mutant: auto-release on a timeout, whatever was decided in the meantime.
TimeOutReleasing(f) ==
  /\ hook[f] = "paused"
  /\ holder' = None
  /\ paused' = [paused EXCEPT ![f] = None]
  /\ hook' = [hook EXCEPT ![f] = "forwarded"]
  /\ request' = [request EXCEPT ![f] = ResolvedRequest(paused[f])]
  /\ wire' = [wire EXCEPT ![f] = ReleaseWire(paused[f])]
  /\ UNCHANGED <<mode, closed, store, waiters, counting, reaudit, decision, vetoed>>

\* breakpoint_timeout_s elapsed; the event may have been set in the meantime.
TimeOut(f) ==
  /\ hook[f] = "paused"
  /\ EndPause(f)

-----------------------------------------------------------------------------
(* The routes of the web UI                                                *)

\* What breakpoint.release and drop, and the audits, leave in a PausedFlow.
Released(p, edit, payload) == [p EXCEPT !.edit = edit, !.payload = payload, !.event = TRUE]
Dropped(p) == [p EXCEPT !.dropped = TRUE, !.event = TRUE]
Audited(p, ir) == [p EXCEPT !.curated = ir, !.audit = ir]
Counted(p, tokens) == [p EXCEPT !.tokens = tokens]

Arm ==
  /\ ~closed
  /\ mode' = "armed_once"
  /\ UNCHANGED <<closed, store, hook, request, wire, holder, waiters, paused,
                 counting, reaudit, decision, vetoed>>

Disarm ==
  /\ ~closed
  /\ mode' = "off"
  /\ UNCHANGED <<closed, store, hook, request, wire, holder, waiters, paused,
                 counting, reaudit, decision, vetoed>>

\* Nothing stops a second decision between the first and the hook's wake-up.
ReleaseEdited(f, ir) ==
  /\ ~closed
  /\ paused[f] # None
  /\ paused' = [paused EXCEPT ![f] = Released(paused[f], ir, ir)]
  /\ decision' = [decision EXCEPT ![f] = [kind |-> "edit", ir |-> ir]]
  /\ UNCHANGED <<mode, closed, store, hook, request, wire, holder, waiters,
                 counting, reaudit, vetoed>>

\* Mutant: the edit of an earlier release is left in place.
ReleaseUnmodifiedKeepingEdit(f) ==
  /\ ~closed
  /\ paused[f] # None
  /\ paused' = [paused EXCEPT ![f] = Released(paused[f], paused[f].edit, paused[f].curated)]
  /\ decision' = [decision EXCEPT ![f] = [kind |-> "unmodified",
                                          ir |-> paused[f].curated]]
  /\ UNCHANGED <<mode, closed, store, hook, request, wire, holder, waiters,
                 counting, reaudit, vetoed>>

ReleaseUnmodified(f) ==
  /\ ~closed
  /\ paused[f] # None
  /\ paused' = [paused EXCEPT ![f] = Released(paused[f], None, paused[f].curated)]
  /\ decision' = [decision EXCEPT ![f] = [kind |-> "unmodified",
                                          ir |-> paused[f].curated]]
  /\ UNCHANGED <<mode, closed, store, hook, request, wire, holder, waiters,
                 counting, reaudit, vetoed>>

DropFlow(f) ==
  /\ ~closed
  /\ paused[f] # None
  /\ paused' = [paused EXCEPT ![f] = Dropped(paused[f])]
  /\ vetoed' = vetoed \cup {f}
  /\ UNCHANGED <<mode, closed, store, hook, request, wire, holder, waiters,
                 counting, reaudit, decision>>

\* re_audit_flow up to its await: only a counted provider suspends it.
ReAudit(r, f) ==
  LET ir == Effect(store[ScopeOf[f]])
      audited == Audited(paused[f], ir)
  IN /\ ~closed
     /\ paused[f] # None
     /\ reaudit[r] = None
     /\ IF f \in HttpFlows
        THEN /\ paused' = [paused EXCEPT ![f] = audited]
             /\ reaudit' = [reaudit EXCEPT ![r] = [flow |-> f, ir |-> ir]]
        ELSE /\ paused' = [paused EXCEPT ![f] = Counted(audited, None)]
             /\ UNCHANGED reaudit
     /\ UNCHANGED <<mode, closed, store, hook, request, wire, holder, waiters,
                    counting, decision, vetoed>>

\* count_tokens answers the re-audit, or fails; the PausedFlow read before the
\* await is written after it, which nobody sees once the flow was popped.
FinishReAudit(r) ==
  /\ reaudit[r] # None
  /\ LET f == reaudit[r].flow
     IN \E t \in {None, reaudit[r].ir} :
          paused' = IF paused[f] = None THEN paused
                    ELSE [paused EXCEPT ![f] = Counted(paused[f], t)]
  /\ reaudit' = [reaudit EXCEPT ![r] = None]
  /\ UNCHANGED <<mode, closed, store, hook, request, wire, holder, waiters,
                 counting, decision, vetoed>>

\* fire_pause_count: the count lands on a flow that is still paused, or fails.
FinishPauseCount(f) ==
  /\ counting[f] # None
  /\ counting' = [counting EXCEPT ![f] = None]
  /\ \/ UNCHANGED paused
     \/ /\ paused[f] # None
        /\ paused' = [paused EXCEPT ![f] = Counted(paused[f], counting[f])]
  /\ UNCHANGED <<mode, closed, store, hook, request, wire, holder, waiters,
                 reaudit, decision, vetoed>>

\* _update_scoped_paused_preview: a route called with a scope refreshes the
\* paused flow of that scope; one called without, whatever flow is paused.
Preview(s, e) ==
  paused' = [f \in Flows |->
               IF paused[f] # None /\ (s = LegacyScope \/ ScopeOf[f] = s)
               THEN Audited(paused[f], Effect(e))
               ELSE paused[f]]

PatchOverrides(s, ir) ==
  LET e == [store[s] EXCEPT !.effect = ir]
  IN /\ ~closed
     /\ store' = [store EXCEPT ![s] = e]
     /\ Preview(s, e)
     /\ UNCHANGED <<mode, closed, hook, request, wire, holder, waiters,
                    counting, reaudit, decision, vetoed>>

ToggleOverrides(s) ==
  LET e == [store[s] EXCEPT !.enabled = ~store[s].enabled]
  IN /\ ~closed
     /\ store' = [store EXCEPT ![s] = e]
     /\ Preview(s, e)
     /\ UNCHANGED <<mode, closed, hook, request, wire, holder, waiters,
                    counting, reaudit, decision, vetoed>>

\* Called without a scope the route clears every scope; it previews nothing.
DeleteOverrides(s) ==
  /\ ~closed
  /\ store' = [t \in Scopes |-> IF s = LegacyScope \/ t = s
                                THEN [effect |-> Original, enabled |-> TRUE]
                                ELSE store[t]]
  /\ UNCHANGED <<mode, closed, hook, request, wire, holder, waiters, paused,
                 counting, reaudit, decision, vetoed>>

\* Mutant: the shutdown wakes the paused flows without marking them dropped.
ShutdownReleasing ==
  /\ ~closed
  /\ closed' = TRUE
  /\ paused' = [f \in Flows |->
                  IF paused[f] = None THEN None ELSE [paused[f] EXCEPT !.event = TRUE]]
  /\ vetoed' = vetoed \cup {f \in Flows : paused[f] # None}
  /\ UNCHANGED <<mode, store, hook, request, wire, holder, waiters,
                 counting, reaudit, decision>>

\* close_runtime: the web server is gone, clear_all drops what is paused.
Shutdown ==
  /\ ~closed
  /\ closed' = TRUE
  /\ paused' = [f \in Flows |->
                  IF paused[f] = None THEN None
                  ELSE Dropped(paused[f])]
  /\ vetoed' = vetoed \cup {f \in Flows : paused[f] # None}
  /\ UNCHANGED <<mode, store, hook, request, wire, holder, waiters,
                 counting, reaudit, decision>>

-----------------------------------------------------------------------------
Hook(f) ==
  \/ ReceiveRequest(f) \/ PassUnparsed(f) \/ ForwardCurated(f)
  \/ PauseAtOnce(f) \/ QueueForPause(f) \/ AcquireSerializer(f)
  \/ WakeOnEvent(f) \/ TimeOut(f)

Routes ==
  \/ Arm \/ Disarm
  \/ \E f \in Flows :
       \/ ReleaseUnmodified(f) \/ DropFlow(f)
       \/ \E ir \in IRs : ReleaseEdited(f, ir)
       \/ \E r \in Requests : ReAudit(r, f)
  \/ \E s \in Scopes :
       \/ ToggleOverrides(s) \/ DeleteOverrides(s)
       \/ \E ir \in IRs : PatchOverrides(s, ir)

Next ==
  \/ \E f \in Flows : Hook(f)
  \/ Routes
  \/ \E r \in Requests : FinishReAudit(r)
  \/ \E f \in Flows : FinishPauseCount(f)
  \/ Shutdown

Spec == Init /\ [][Next]_vars

\* The steps a hook takes by itself once its request was received: the disk
\* write ends, the lock is handed on in order, the timeout fires.  Nothing is
\* assumed of the operator.
HookProgress(f) ==
  ForwardCurated(f) \/ PauseAtOnce(f) \/ QueueForPause(f) \/ AcquireSerializer(f)
    \/ TimeOut(f)

FairSpec == Spec /\ \A f \in Flows : WF_vars(HookProgress(f))

-----------------------------------------------------------------------------
(* Properties                                                              *)

\* One request at a time is in front of the operator, and it is the one that
\* holds the serializer: pause, wait and pop happen under _pause_serializer.
OnePresented ==
  \A f \in Flows : /\ hook[f] = "paused" <=> paused[f] # None
                   /\ hook[f] = "paused" <=> holder = f

\* A drop that was acknowledged is binding: whatever release, timeout or
\* re-audit came before or after it, the request never goes upstream; and
\* only such a request is dropped.
DropIsBinding ==
  \A f \in Flows : /\ f \in vetoed => hook[f] \in {"paused", "dropped"}
                   /\ hook[f] = "dropped" => f \in vetoed /\ wire[f] = None

\* The audit persisted with an exchange describes the curated request
\* persisted with it, however the overrides changed during the pause.
AuditDescribesRecord ==
  \A f \in Flows : request[f] # None /\ request[f].audit # None
                     => request[f].audit = request[f].curated

\* An acknowledged edit is what goes upstream and what is recorded, unless a
\* later decision replaced it; a manual mutation is recorded only then.
EditIsHonoured ==
  \A f \in Flows : hook[f] = "forwarded" =>
    /\ decision[f] # None /\ decision[f].kind = "edit"
         => /\ wire[f] = [ir |-> decision[f].ir, form |-> "serialized"]
            /\ request[f].curated = decision[f].ir
    /\ request[f] # None /\ request[f].mutated
         => decision[f] # None /\ decision[f].kind = "edit"

\* Every request the hook takes up is let go again, though the operator may
\* never answer and other requests are waiting for the same serializer.
HookReturns ==
  \A f \in Flows : hook[f] = "persisting" ~> hook[f] \in {"forwarded", "dropped"}

\* The gate this module implements.
GatePlace(f) ==
  CASE hook[f] \in {"idle", "persisting"} -> "outside"
    [] hook[f] = "queued" -> "held"
    [] hook[f] = "paused" -> "presented"
    [] hook[f] = "forwarded" -> "forwarded"
    [] hook[f] = "dropped" -> "dropped"

Gate == INSTANCE RequestGate WITH
          gate <- [f \in Flows |-> GatePlace(f)], vetoed <- vetoed

\* Refinement: the breakpoint implements the request gate.
GateSpec == Gate!Spec
=============================================================================
