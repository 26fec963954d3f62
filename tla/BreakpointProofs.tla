-------------------------- MODULE BreakpointProofs --------------------------
(* Proofs about Breakpoint, for any number of requests, scopes and variants. *)
EXTENDS Breakpoint, TLAPS

\* A request on its way through the hook was recorded.
Recorded ==
  \A f \in Flows : hook[f] \in {"persisting", "queued", "paused"} => request[f] # None

\* The types, and the agreement of hook, _paused and serializer they need.
Base == TypeOK /\ Recorded /\ OnePresented

-----------------------------------------------------------------------------
(* Types of what the actions build                                         *)

LEMMA FreshPauseType ==
  ASSUME TypeOK, NEW f \in Flows, request[f] # None
  PROVE  FreshPause(f) \in PausedFlows
BY DEF TypeOK, FreshPause, PausedFlows, RequestStates, Maybe

LEMMA ResolvedType ==
  ASSUME NEW p \in PausedFlows
  PROVE  ResolvedRequest(p) \in RequestStates /\ ReleaseWire(p) \in Wires
BY DEF PausedFlows, ResolvedRequest, ReleaseWire, RequestStates, Wires, WireForms,
       FinalIR, MutatedManually, Outbound, Maybe

LEMMA EffectType ==
  ASSUME NEW e \in StoreEntries
  PROVE  Effect(e) \in IRs
BY ConstantsAssumption DEF ConstantsAssumption, StoreEntries, Effect

LEMMA UpdateTypes ==
  ASSUME NEW p \in PausedFlows, NEW ir \in IRs, NEW edit \in Maybe(IRs)
  PROVE  /\ Released(p, edit, ir) \in PausedFlows
         /\ Dropped(p) \in PausedFlows
         /\ Audited(p, ir) \in PausedFlows
         /\ Counted(p, edit) \in PausedFlows
BY DEF PausedFlows, Released, Dropped, Audited, Counted, Maybe

-----------------------------------------------------------------------------
(* Base is inductive                                                       *)

LEMMA BaseInit == Init => Base
<1> SUFFICES ASSUME Init PROVE Base
  OBVIOUS
<1>1. store \in [Scopes -> StoreEntries]
  <2>1. [effect |-> Original, enabled |-> TRUE] \in StoreEntries
    BY ConstantsAssumption DEF ConstantsAssumption, StoreEntries
  <2> QED BY <2>1 DEF Init
<1>2. waiters \in Seq(Flows)
  BY DEF Init
<1>3. /\ hook \in [Flows -> HookStates]
      /\ request \in [Flows -> Maybe(RequestStates)]
      /\ wire \in [Flows -> Maybe(Wires)]
      /\ paused \in [Flows -> Maybe(PausedFlows)]
      /\ counting \in [Flows -> Maybe(IRs)]
      /\ reaudit \in [Requests -> Maybe([flow : Flows, ir : IRs])]
      /\ decision \in [Flows -> Maybe(Decisions)]
  BY DEF Init, HookStates, Maybe
<1>4. TypeOK
  BY <1>1, <1>2, <1>3 DEF Init, TypeOK, Maybe
<1>5. OnePresented /\ Recorded
  BY ConstantsAssumption DEF ConstantsAssumption, Init, OnePresented, Recorded
<1> QED BY <1>4, <1>5 DEF Base

\* Steps that leave the hook, the serializer and what is recorded alone keep
\* Base when they keep the types and pause or resume no flow.
LEMMA BaseFrame ==
  ASSUME Base, TypeOK', UNCHANGED <<hook, request, holder>>,
         \A f \in Flows : paused[f] = None <=> paused'[f] = None
  PROVE  Base'
BY DEF Base, Recorded, OnePresented

LEMMA HookBase ==
  ASSUME Base, NEW f \in Flows, Hook(f)
  PROVE  Base'
<1> USE ConstantsAssumption, NoneAssumption
    DEF ConstantsAssumption, NoneAssumption, Base, TypeOK, Recorded, OnePresented,
        Maybe, HookStates
<1>1. CASE ReceiveRequest(f)
  <2>1. Curated(f) \in IRs /\ PipelineAudit(f) \in Maybe(IRs)
    <3>1. store[ScopeOf[f]] \in StoreEntries
      OBVIOUS
    <3>2. Effect(store[ScopeOf[f]]) \in IRs
      BY <3>1, EffectType
    <3> QED BY <3>1, <3>2 DEF Curated, PipelineAudit, Effect
  <2>2. PICK r \in RequestStates : request' = [request EXCEPT ![f] = r]
    BY <1>1, <2>1 DEF ReceiveRequest, RequestStates
  <2> QED BY <1>1, <2>2 DEF ReceiveRequest
<1>2. CASE PassUnparsed(f)
  BY <1>2 DEF PassUnparsed, Wires, WireForms
<1>3. CASE ForwardCurated(f)
  BY <1>3 DEF ForwardCurated, Outbound, Wires, WireForms, RequestStates
<1>4. ASSUME StartPause(f), holder = None, hook[f] # "paused", request[f] # None,
             waiters' \in Seq(Flows),
             UNCHANGED <<mode, closed, store, request, wire, reaudit, decision, vetoed>>
      PROVE  Base'
  <2>1. FreshPause(f) \in PausedFlows
    BY <1>4, FreshPauseType
  <2>2. paused' = [paused EXCEPT ![f] = FreshPause(f)] /\ paused'[f] # None
    BY <1>4, <2>1 DEF StartPause
  <2>3. counting' \in [Flows -> Maybe(IRs)]
    BY <1>4 DEF StartPause, RequestStates
  <2> HIDE DEF NoneAssumption
  <2> QED BY <1>4, <2>1, <2>2, <2>3 DEF StartPause
<1>5. CASE PauseAtOnce(f)
  BY <1>4, <1>5 DEF PauseAtOnce
<1>6. CASE QueueForPause(f)
  BY <1>6 DEF QueueForPause
<1>7. CASE AcquireSerializer(f)
  BY <1>4, <1>7 DEF AcquireSerializer
<1>8. ASSUME hook[f] = "paused", EndPause(f)
      PROVE  Base'
  <2>1. paused[f] \in PausedFlows
    BY <1>8
  <2>2. ResolvedRequest(paused[f]) \in RequestStates /\ ReleaseWire(paused[f]) \in Wires
    BY <2>1, ResolvedType
  <2>3. CASE paused[f].dropped
    BY <1>8, <2>1, <2>3 DEF EndPause
  <2>4. CASE ~paused[f].dropped
    <3> DEFINE r == ResolvedRequest(paused[f])
               w == ReleaseWire(paused[f])
    <3>1. /\ request' = [request EXCEPT ![f] = r]
          /\ wire' = [wire EXCEPT ![f] = w]
          /\ r \in RequestStates /\ w \in Wires
      BY <1>8, <2>2, <2>4 DEF EndPause
    <3> HIDE DEF r, w
    <3> QED BY <1>8, <2>4, <3>1 DEF EndPause
  <2> QED BY <2>3, <2>4
<1>9. CASE WakeOnEvent(f)
  BY <1>8, <1>9 DEF WakeOnEvent
<1>10. CASE TimeOut(f)
  BY <1>8, <1>10 DEF TimeOut
<1> QED
  BY <1>1, <1>2, <1>3, <1>5, <1>6, <1>7, <1>9, <1>10 DEF Hook

LEMMA RoutesBase ==
  ASSUME Base, Routes
  PROVE  Base'
<1> USE DEF Maybe
<1>1. ASSUME NEW f \in Flows, paused[f] # None, NEW p \in PausedFlows,
             paused' = [paused EXCEPT ![f] = p]
      PROVE  /\ paused' \in [Flows -> Maybe(PausedFlows)]
             /\ \A g \in Flows : paused[g] = None <=> paused'[g] = None
  BY <1>1, NoneAssumption DEF NoneAssumption, Base, TypeOK
<1>2. ASSUME NEW f \in Flows, paused[f] # None
      PROVE  paused[f] \in PausedFlows /\ paused[f].curated \in IRs
  BY <1>2 DEF Base, TypeOK, PausedFlows
<1>3. CASE Arm \/ Disarm
  <2>1. TypeOK'
    BY <1>3 DEF Arm, Disarm, Base, TypeOK
  <2> QED BY <1>3, <2>1, BaseFrame DEF Arm, Disarm
<1>4. ASSUME NEW f \in Flows, NEW ir \in IRs, ReleaseEdited(f, ir)
      PROVE  Base'
  <2>1. Released(paused[f], ir, ir) \in PausedFlows
    BY <1>2, <1>4, UpdateTypes DEF ReleaseEdited
  <2>2. decision' \in [Flows -> Maybe(Decisions)]
    BY <1>4 DEF ReleaseEdited, Decisions, Base, TypeOK
  <2> QED BY <1>1, <1>4, <2>1, <2>2, BaseFrame DEF ReleaseEdited, Base, TypeOK
<1>5. ASSUME NEW f \in Flows, ReleaseUnmodified(f)
      PROVE  Base'
  <2>1. Released(paused[f], None, paused[f].curated) \in PausedFlows
    BY <1>2, <1>5, UpdateTypes DEF ReleaseUnmodified
  <2>2. decision' \in [Flows -> Maybe(Decisions)]
    BY <1>2, <1>5 DEF ReleaseUnmodified, Decisions, Base, TypeOK
  <2> QED BY <1>1, <1>5, <2>1, <2>2, BaseFrame DEF ReleaseUnmodified, Base, TypeOK
<1>6. ASSUME NEW f \in Flows, DropFlow(f)
      PROVE  Base'
  <2>1. Dropped(paused[f]) \in PausedFlows
    BY <1>2, <1>6, UpdateTypes DEF DropFlow
  <2> QED BY <1>1, <1>6, <2>1, BaseFrame DEF DropFlow, Base, TypeOK
<1>7. ASSUME NEW f \in Flows, NEW r \in Requests, ReAudit(r, f)
      PROVE  Base'
  <2> DEFINE ir == Effect(store[ScopeOf[f]])
             audited == Audited(paused[f], ir)
  <2>1. store[ScopeOf[f]] \in StoreEntries
    BY ConstantsAssumption DEF ConstantsAssumption, Base, TypeOK
  <2>2. ir \in IRs
    BY <2>1, EffectType
  <2>3. audited \in PausedFlows /\ Counted(audited, None) \in PausedFlows
    BY <1>2, <1>7, <2>2, UpdateTypes DEF ReAudit
  <2>4. paused' = [paused EXCEPT ![f] = IF f \in HttpFlows THEN audited
                                        ELSE Counted(audited, None)]
    BY <1>7 DEF ReAudit
  <2>5. reaudit' \in [Requests -> Maybe([flow : Flows, ir : IRs])]
    BY <1>7, <2>2 DEF ReAudit, Base, TypeOK
  <2> HIDE DEF ir, audited
  <2>6. PICK p \in PausedFlows : paused' = [paused EXCEPT ![f] = p]
    BY <2>3, <2>4
  <2> QED BY <1>1, <1>7, <2>5, <2>6, BaseFrame DEF ReAudit, Base, TypeOK
<1>8. ASSUME NEW s \in Scopes, NEW e \in StoreEntries, Preview(s, e)
      PROVE  /\ paused' \in [Flows -> Maybe(PausedFlows)]
             /\ \A g \in Flows : paused[g] = None <=> paused'[g] = None
  <2>1. \A g \in Flows : paused[g] # None => Audited(paused[g], Effect(e)) \in PausedFlows
    BY <1>2, EffectType, UpdateTypes
  <2> QED BY <1>8, <2>1, NoneAssumption DEF Preview, NoneAssumption, Base, TypeOK
<1>9. ASSUME NEW s \in Scopes, NEW ir \in IRs, PatchOverrides(s, ir)
      PROVE  Base'
  <2>1. [store[s] EXCEPT !.effect = ir] \in StoreEntries
    BY DEF Base, TypeOK, StoreEntries
  <2> QED BY <1>8, <1>9, <2>1, BaseFrame DEF PatchOverrides, Base, TypeOK
<1>10. ASSUME NEW s \in Scopes, ToggleOverrides(s)
      PROVE  Base'
  <2>1. [store[s] EXCEPT !.enabled = ~store[s].enabled] \in StoreEntries
    BY DEF Base, TypeOK, StoreEntries
  <2> QED BY <1>8, <1>10, <2>1, BaseFrame DEF ToggleOverrides, Base, TypeOK
<1>11. ASSUME NEW s \in Scopes, DeleteOverrides(s)
      PROVE  Base'
  <2>1. [effect |-> Original, enabled |-> TRUE] \in StoreEntries
    BY ConstantsAssumption DEF ConstantsAssumption, StoreEntries
  <2>2. store' \in [Scopes -> StoreEntries]
    BY <1>11, <2>1 DEF DeleteOverrides, Base, TypeOK
  <2> QED BY <1>11, <2>2, BaseFrame DEF DeleteOverrides, Base, TypeOK
<1> QED
  BY <1>3, <1>4, <1>5, <1>6, <1>7, <1>9, <1>10, <1>11 DEF Routes

LEMMA TasksBase ==
  ASSUME Base, \/ \E r \in Requests : FinishReAudit(r)
               \/ \E f \in Flows : FinishPauseCount(f)
               \/ Shutdown
  PROVE  Base'
<1> USE DEF Maybe
<1>1. \A f \in Flows, t \in Maybe(IRs) :
        paused[f] # None => /\ Counted(paused[f], t) \in PausedFlows
                            /\ Dropped(paused[f]) \in PausedFlows
  BY UpdateTypes, ConstantsAssumption DEF ConstantsAssumption, Base, TypeOK
<1>2. ASSUME NEW r \in Requests, FinishReAudit(r)
      PROVE  Base'
  <2> DEFINE f == reaudit[r].flow
  <2>1. f \in Flows /\ reaudit[r].ir \in IRs
    BY <1>2 DEF FinishReAudit, Base, TypeOK
  <2>2. PICK t \in {None, reaudit[r].ir} :
          paused' = IF paused[f] = None THEN paused
                    ELSE [paused EXCEPT ![f] = Counted(paused[f], t)]
    BY <1>2 DEF FinishReAudit
  <2>3. t \in Maybe(IRs)
    BY <2>1
  <2> HIDE DEF f
  <2>4. /\ paused' \in [Flows -> Maybe(PausedFlows)]
        /\ \A g \in Flows : paused[g] = None <=> paused'[g] = None
    BY <1>1, <2>1, <2>2, <2>3, NoneAssumption DEF NoneAssumption, Base, TypeOK
  <2>5. reaudit' \in [Requests -> Maybe([flow : Flows, ir : IRs])]
    BY <1>2 DEF FinishReAudit, Base, TypeOK
  <2> QED BY <1>2, <2>4, <2>5, BaseFrame DEF FinishReAudit, Base, TypeOK
<1>3. ASSUME NEW f \in Flows, FinishPauseCount(f)
      PROVE  Base'
  <2>1. counting[f] \in Maybe(IRs)
    BY DEF Base, TypeOK
  <2>2. /\ paused' \in [Flows -> Maybe(PausedFlows)]
        /\ \A g \in Flows : paused[g] = None <=> paused'[g] = None
    BY <1>1, <1>3, <2>1, NoneAssumption
       DEF FinishPauseCount, NoneAssumption, Base, TypeOK
  <2> QED BY <1>3, <2>2, BaseFrame DEF FinishPauseCount, Base, TypeOK
<1>4. CASE Shutdown
  <2>1. /\ paused' \in [Flows -> Maybe(PausedFlows)]
        /\ \A g \in Flows : paused[g] = None <=> paused'[g] = None
    BY <1>1, <1>4, NoneAssumption DEF Shutdown, NoneAssumption, Base, TypeOK
  <2> QED BY <1>4, <2>1, BaseFrame DEF Shutdown, Base, TypeOK
<1> QED
  BY <1>2, <1>3, <1>4

LEMMA BaseStep == Base /\ [Next]_vars => Base'
<1>1. ASSUME Base, UNCHANGED vars PROVE Base'
  BY <1>1 DEF vars, Base, TypeOK, Recorded, OnePresented
<1> QED
  BY <1>1, HookBase, RoutesBase, TasksBase DEF Next

\* Every variable keeps the shape the code gives it, and exactly the flow that
\* holds _pause_serializer is registered in _paused.
THEOREM BaseInvariant == Spec => [](TypeOK /\ OnePresented)
<1>1. Base => TypeOK /\ OnePresented
  BY DEF Base
<1> QED
  BY <1>1, BaseInit, BaseStep, PTL DEF Spec

-----------------------------------------------------------------------------
(* What the routes and tasks do to a paused flow                           *)

LEMMA UpdateFields ==
  ASSUME NEW p \in PausedFlows, NEW ir, NEW edit
  PROVE  /\ Released(p, edit, ir).dropped = p.dropped
         /\ Released(p, edit, ir).curated = p.curated
         /\ Released(p, edit, ir).audit = p.audit
         /\ Released(p, edit, ir).edit = edit
         /\ Released(p, edit, ir).payload = ir
         /\ Dropped(p).dropped
         /\ Dropped(p).curated = p.curated
         /\ Dropped(p).audit = p.audit
         /\ Dropped(p).edit = p.edit
         /\ Dropped(p).payload = p.payload
         /\ Audited(p, ir).dropped = p.dropped
         /\ Audited(p, ir).curated = ir
         /\ Audited(p, ir).audit = ir
         /\ Audited(p, ir).edit = p.edit
         /\ Audited(p, ir).payload = p.payload
         /\ Counted(p, ir).dropped = p.dropped
         /\ Counted(p, ir).curated = p.curated
         /\ Counted(p, ir).audit = p.audit
         /\ Counted(p, ir).edit = p.edit
         /\ Counted(p, ir).payload = p.payload
BY DEF PausedFlows, Released, Dropped, Audited, Counted

\* A paused flow whose decision is not the subject of a step: only its curated
\* request, its audit and its token count can change, the first two together.
Touched(p, q) ==
  /\ q.dropped = p.dropped
  /\ q.edit = p.edit
  /\ q.payload = p.payload
  /\ q.audit = q.curated \/ (q.audit = p.audit /\ q.curated = p.curated)

Retouch ==
  /\ UNCHANGED <<hook, request, wire, decision, vetoed>>
  /\ \A f \in Flows : \/ paused'[f] = paused[f]
                      \/ paused[f] # None /\ paused'[f] # None
                           /\ Touched(paused[f], paused'[f])

\* The steps that neither move a request nor decide about one.
LEMMA Retouches ==
  ASSUME Base, Base',
         \/ UNCHANGED vars
         \/ Arm \/ Disarm
         \/ \E f \in Flows, r \in Requests : ReAudit(r, f)
         \/ \E s \in Scopes : \/ ToggleOverrides(s) \/ DeleteOverrides(s)
                              \/ \E ir \in IRs : PatchOverrides(s, ir)
         \/ \E r \in Requests : FinishReAudit(r)
         \/ \E f \in Flows : FinishPauseCount(f)
  PROVE  Retouch
<1>1. ASSUME NEW f \in Flows, paused[f] # None
      PROVE  paused[f] \in PausedFlows
  BY <1>1 DEF Base, TypeOK, Maybe
<1>2. ASSUME NEW f \in Flows, paused[f] # None, NEW ir
      PROVE  /\ Touched(paused[f], Audited(paused[f], ir))
             /\ Touched(paused[f], Counted(paused[f], ir))
  BY <1>1, <1>2, UpdateFields DEF Touched
<1>3. ASSUME UNCHANGED <<hook, request, wire, decision, vetoed>>,
             \A f \in Flows : \/ paused'[f] = paused[f]
                              \/ paused[f] # None /\ Touched(paused[f], paused'[f])
      PROVE  Retouch
  BY <1>3 DEF Retouch, Base, OnePresented
<1>4. CASE UNCHANGED vars \/ Arm \/ Disarm
  BY <1>3, <1>4 DEF vars, Arm, Disarm
<1>5. ASSUME NEW f \in Flows, NEW r \in Requests, ReAudit(r, f)
      PROVE  Retouch
  <2> DEFINE ir == Effect(store[ScopeOf[f]])
             audited == Audited(paused[f], ir)
  <2>1. ir \in IRs
    BY EffectType, ConstantsAssumption DEF ConstantsAssumption, Base, TypeOK
  <2>2. audited \in PausedFlows
    BY <1>1, <1>5, <2>1, UpdateTypes, ConstantsAssumption DEF ReAudit, Maybe
  <2>3. /\ paused[f] # None
        /\ paused' = [paused EXCEPT ![f] = IF f \in HttpFlows THEN audited
                                           ELSE Counted(audited, None)]
        /\ UNCHANGED <<hook, request, wire, decision, vetoed>>
    BY <1>5 DEF ReAudit
  <2>4. Touched(paused[f], audited)
    BY <1>2, <2>3
  <2> HIDE DEF audited, ir
  <2>5. Touched(paused[f], Counted(audited, None))
    BY <2>2, <2>4, UpdateFields DEF Touched
  <2> QED BY <1>3, <2>3, <2>4, <2>5 DEF Base, TypeOK
<1>6. ASSUME NEW s \in Scopes, NEW e, Preview(s, e),
             UNCHANGED <<hook, request, wire, decision, vetoed>>
      PROVE  Retouch
  BY <1>2, <1>3, <1>6 DEF Preview
<1>7. ASSUME NEW s \in Scopes, ToggleOverrides(s)
      PROVE  Retouch
  BY <1>6, <1>7 DEF ToggleOverrides
<1>8. ASSUME NEW s \in Scopes, DeleteOverrides(s)
      PROVE  Retouch
  BY <1>3, <1>8 DEF DeleteOverrides
<1>9. ASSUME NEW s \in Scopes, NEW ir \in IRs, PatchOverrides(s, ir)
      PROVE  Retouch
  BY <1>6, <1>9 DEF PatchOverrides
<1>10. ASSUME NEW r \in Requests, FinishReAudit(r)
       PROVE  Retouch
  <2> DEFINE f == reaudit[r].flow
  <2>1. f \in Flows
    BY <1>10 DEF FinishReAudit, Base, TypeOK, Maybe
  <2>2. PICK t : paused' = IF paused[f] = None THEN paused
                           ELSE [paused EXCEPT ![f] = Counted(paused[f], t)]
    BY <1>10 DEF FinishReAudit
  <2>3. UNCHANGED <<hook, request, wire, decision, vetoed>>
    BY <1>10 DEF FinishReAudit
  <2> HIDE DEF f
  <2> QED BY <1>2, <1>3, <2>1, <2>2, <2>3 DEF Base, TypeOK
<1>11. ASSUME NEW f \in Flows, FinishPauseCount(f)
       PROVE  Retouch
  BY <1>2, <1>3, <1>11 DEF FinishPauseCount, Base, TypeOK
<1> QED
  BY <1>4, <1>5, <1>7, <1>8, <1>9, <1>10, <1>11

\* Every other step is one of these.
LEMMA OtherSteps ==
  ASSUME Base, Base', [Next]_vars
  PROVE  \/ Retouch
         \/ \E f \in Flows : \/ Hook(f) \/ ReleaseUnmodified(f) \/ DropFlow(f)
                             \/ \E ir \in IRs : ReleaseEdited(f, ir)
         \/ Shutdown
BY Retouches DEF Next, Routes

-----------------------------------------------------------------------------
(* A drop that was acknowledged is binding                                 *)

\* A vetoed request is still paused and marked dropped, or was dropped; nothing
\* is on the wire before its hook returned.
VetoInv ==
  \A f \in Flows :
    /\ hook[f] # "forwarded" => wire[f] = None
    /\ f \in vetoed => \/ hook[f] = "dropped"
                       \/ hook[f] = "paused" /\ paused[f].dropped
    /\ paused[f] # None /\ paused[f].dropped => f \in vetoed
    /\ hook[f] = "dropped" => f \in vetoed

LEMMA VetoInit == Init => VetoInv
BY DEF Init, VetoInv

LEMMA VetoHook ==
  ASSUME Base, VetoInv, NEW f \in Flows, Hook(f)
  PROVE  VetoInv'
<1> USE DEF VetoInv, Base, TypeOK, OnePresented
<1>1. CASE ReceiveRequest(f)
  BY <1>1 DEF ReceiveRequest
<1>2. CASE PassUnparsed(f)
  BY <1>2 DEF PassUnparsed
<1>3. CASE ForwardCurated(f)
  BY <1>3 DEF ForwardCurated
<1>4. CASE PauseAtOnce(f) \/ AcquireSerializer(f)
  <2>1. /\ hook[f] \in {"persisting", "queued"}
        /\ hook' = [hook EXCEPT ![f] = "paused"]
        /\ paused' = [paused EXCEPT ![f] = FreshPause(f)]
        /\ UNCHANGED <<wire, vetoed>>
    BY <1>4 DEF PauseAtOnce, AcquireSerializer, StartPause
  <2>2. ~FreshPause(f).dropped
    BY DEF FreshPause
  <2> QED BY <2>1, <2>2
<1>5. CASE QueueForPause(f)
  BY <1>5 DEF QueueForPause
<1>6. CASE WakeOnEvent(f) \/ TimeOut(f)
  BY <1>6 DEF WakeOnEvent, TimeOut, EndPause
<1> QED
  BY <1>1, <1>2, <1>3, <1>4, <1>5, <1>6 DEF Hook

LEMMA VetoStep == Base /\ Base' /\ VetoInv /\ [Next]_vars => VetoInv'
<1> SUFFICES ASSUME Base, Base', VetoInv, [Next]_vars PROVE VetoInv'
  OBVIOUS
<1>1. \A f \in Flows : paused[f] # None => paused[f] \in PausedFlows
  BY DEF Base, TypeOK, Maybe
<1>2. CASE Retouch
  BY <1>2 DEF Retouch, Touched, VetoInv, Base, OnePresented
<1>3. ASSUME NEW f \in Flows, ReleaseUnmodified(f)
      PROVE  VetoInv'
  BY <1>1, <1>3, UpdateFields DEF ReleaseUnmodified, VetoInv, Base, TypeOK
<1>4. ASSUME NEW f \in Flows, NEW ir \in IRs, ReleaseEdited(f, ir)
      PROVE  VetoInv'
  BY <1>1, <1>4, UpdateFields DEF ReleaseEdited, VetoInv, Base, TypeOK
<1>5. ASSUME NEW f \in Flows, DropFlow(f)
      PROVE  VetoInv'
  BY <1>1, <1>5, UpdateFields DEF DropFlow, VetoInv, Base, TypeOK, OnePresented
<1>6. CASE Shutdown
  BY <1>1, <1>6, UpdateFields DEF Shutdown, VetoInv, Base, TypeOK, OnePresented
<1> QED
  BY <1>2, <1>3, <1>4, <1>5, <1>6, VetoHook, OtherSteps

\* A request whose drop the API acknowledged never goes upstream, whatever
\* release, timeout, re-audit or override change came before or after the drop.
THEOREM DropTheorem == Spec => []DropIsBinding
<1>1. VetoInv => DropIsBinding
  BY DEF VetoInv, DropIsBinding
<1> QED
  BY <1>1, VetoInit, BaseInit, BaseStep, VetoStep, PTL DEF Spec

-----------------------------------------------------------------------------
(* The audit that is persisted describes the request that is persisted     *)

\* The record and the paused flow each carry their curated request's own audit.
AuditInv ==
  /\ AuditDescribesRecord
  /\ \A f \in Flows : paused[f] # None /\ paused[f].audit # None
                        => paused[f].audit = paused[f].curated

LEMMA AuditStep == Base /\ Base' /\ AuditInv /\ [Next]_vars => AuditInv'
<1> SUFFICES ASSUME Base, Base', AuditInv, [Next]_vars PROVE AuditInv'
  OBVIOUS
<1> USE DEF AuditInv, AuditDescribesRecord
<1>1. \A f \in Flows : paused[f] # None => paused[f] \in PausedFlows
  BY DEF Base, TypeOK, Maybe
<1>2. CASE Retouch
  BY <1>2 DEF Retouch, Touched
<1>3. ASSUME NEW f \in Flows, NEW p, paused[f] # None,
             p.audit = paused[f].audit, p.curated = paused[f].curated,
             paused' = [paused EXCEPT ![f] = p], UNCHANGED request
      PROVE  AuditInv'
  BY <1>3 DEF Base, TypeOK
<1>9. ASSUME NEW f \in Flows, ReleaseUnmodified(f)
      PROVE  AuditInv'
  <2> DEFINE p == Released(paused[f], None, paused[f].curated)
  <2>1. p.audit = paused[f].audit /\ p.curated = paused[f].curated
    BY <1>1, <1>9, UpdateFields DEF ReleaseUnmodified
  <2>2. paused[f] # None /\ paused' = [paused EXCEPT ![f] = p] /\ UNCHANGED request
    BY <1>9 DEF ReleaseUnmodified
  <2> HIDE DEF p
  <2> QED BY <1>3, <2>1, <2>2
<1>10. ASSUME NEW f \in Flows, NEW ir \in IRs, ReleaseEdited(f, ir)
      PROVE  AuditInv'
  <2> DEFINE p == Released(paused[f], ir, ir)
  <2>1. p.audit = paused[f].audit /\ p.curated = paused[f].curated
    BY <1>1, <1>10, UpdateFields DEF ReleaseEdited
  <2>2. paused[f] # None /\ paused' = [paused EXCEPT ![f] = p] /\ UNCHANGED request
    BY <1>10 DEF ReleaseEdited
  <2> HIDE DEF p
  <2> QED BY <1>3, <2>1, <2>2
<1>11. ASSUME NEW f \in Flows, DropFlow(f)
      PROVE  AuditInv'
  <2> DEFINE p == Dropped(paused[f])
  <2>1. p.audit = paused[f].audit /\ p.curated = paused[f].curated
    BY <1>1, <1>11, UpdateFields DEF DropFlow
  <2>2. paused[f] # None /\ paused' = [paused EXCEPT ![f] = p] /\ UNCHANGED request
    BY <1>11 DEF DropFlow
  <2> HIDE DEF p
  <2> QED BY <1>3, <2>1, <2>2
<1>4. CASE Shutdown
  <2>1. \A g \in Flows : paused'[g] # None => paused[g] # None /\ paused'[g] = Dropped(paused[g])
    BY <1>4 DEF Shutdown
  <2> QED BY <1>1, <1>4, <2>1, UpdateFields DEF Shutdown
<1>5. ASSUME NEW f \in Flows, ReceiveRequest(f)
      PROVE  AuditInv'
  BY <1>5 DEF ReceiveRequest, PipelineAudit, Curated, Effect, Base, TypeOK
<1>6. ASSUME NEW f \in Flows, \/ PassUnparsed(f) \/ ForwardCurated(f) \/ QueueForPause(f)
      PROVE  AuditInv'
  BY <1>6 DEF PassUnparsed, ForwardCurated, QueueForPause
<1>7. ASSUME NEW f \in Flows, PauseAtOnce(f) \/ AcquireSerializer(f)
      PROVE  AuditInv'
  <2>1. /\ request[f] # None
        /\ paused' = [paused EXCEPT ![f] = FreshPause(f)]
        /\ UNCHANGED request
    BY <1>7 DEF PauseAtOnce, AcquireSerializer, StartPause, Base, Recorded
  <2>2. /\ FreshPause(f).audit = request[f].audit
        /\ FreshPause(f).curated = request[f].curated
    BY DEF FreshPause
  <2> QED BY <2>1, <2>2 DEF Base, TypeOK
<1>8. ASSUME NEW f \in Flows, WakeOnEvent(f) \/ TimeOut(f)
      PROVE  AuditInv'
  <2>1. /\ paused[f] # None
        /\ paused' = [paused EXCEPT ![f] = None]
        /\ \/ UNCHANGED request
           \/ request' = [request EXCEPT ![f] = ResolvedRequest(paused[f])]
    BY <1>8 DEF WakeOnEvent, TimeOut, EndPause, Base, OnePresented
  <2>2. LET r == ResolvedRequest(paused[f])
        IN  r.audit # None => r.audit = r.curated
    BY <1>1, <2>1 DEF ResolvedRequest, FinalIR, MutatedManually
  <2> QED BY <2>1, <2>2 DEF Base, TypeOK
<1> QED
  BY <1>2, <1>4, <1>5, <1>6, <1>7, <1>8, <1>9, <1>10, <1>11, OtherSteps DEF Hook

\* However the overrides changed while a request was paused, an audit is
\* persisted only next to the curated request it describes.
THEOREM AuditTheorem == Spec => []AuditDescribesRecord
<1>1. Init => AuditInv
  BY DEF Init, AuditInv, AuditDescribesRecord
<1>2. AuditInv => AuditDescribesRecord
  BY DEF AuditInv
<1> QED
  BY <1>1, <1>2, BaseInit, BaseStep, AuditStep, PTL DEF Spec

-----------------------------------------------------------------------------
(* An acknowledged edit is honoured                                        *)

\* The decision the API acknowledged is the one the paused flow carries.
EditInv ==
  \A f \in Flows :
    /\ hook[f] \in {"idle", "persisting", "queued"} => decision[f] = None
    /\ hook[f] # "forwarded" /\ request[f] # None => ~request[f].mutated
    /\ hook[f] = "paused" /\ decision[f] # None /\ decision[f].kind = "edit"
         => paused[f].edit = decision[f].ir /\ paused[f].payload = decision[f].ir
    /\ hook[f] = "paused" /\ paused[f].edit # None
         => decision[f] # None /\ decision[f].kind = "edit"

EditStrong == EditInv /\ EditIsHonoured

LEMMA EditHook ==
  ASSUME Base, EditStrong, NEW f \in Flows, Hook(f)
  PROVE  EditStrong'
<1> USE DEF EditStrong, EditInv, EditIsHonoured
<1>1. CASE ReceiveRequest(f)
  BY <1>1 DEF ReceiveRequest, Base, TypeOK
<1>2. CASE PassUnparsed(f)
  BY <1>2 DEF PassUnparsed, Base, TypeOK
<1>3. CASE ForwardCurated(f)
  BY <1>3 DEF ForwardCurated, Base, TypeOK, Recorded
<1>4. CASE PauseAtOnce(f) \/ AcquireSerializer(f)
  <2>1. /\ hook[f] \in {"persisting", "queued"}
        /\ hook' = [hook EXCEPT ![f] = "paused"]
        /\ paused' = [paused EXCEPT ![f] = FreshPause(f)]
        /\ UNCHANGED <<request, wire, decision>>
    BY <1>4 DEF PauseAtOnce, AcquireSerializer, StartPause
  <2>2. FreshPause(f).edit = None
    BY DEF FreshPause
  <2> QED BY <2>1, <2>2 DEF Base, TypeOK
<1>5. CASE QueueForPause(f)
  BY <1>5 DEF QueueForPause, Base, TypeOK
<1>6. CASE WakeOnEvent(f) \/ TimeOut(f)
  <2>1. hook[f] = "paused" /\ paused[f] # None /\ EndPause(f)
    BY <1>6 DEF WakeOnEvent, TimeOut, Base, OnePresented
  <2>2. paused[f] \in PausedFlows
    BY <2>1 DEF Base, TypeOK, Maybe
  <2>3. CASE paused[f].dropped
    BY <2>1, <2>3 DEF EndPause, Base, TypeOK
  <2>4. CASE ~paused[f].dropped
    <3> DEFINE r == ResolvedRequest(paused[f])
               w == ReleaseWire(paused[f])
    <3>1. /\ request' = [request EXCEPT ![f] = r]
          /\ wire' = [wire EXCEPT ![f] = w]
          /\ hook' = [hook EXCEPT ![f] = "forwarded"]
          /\ paused' = [paused EXCEPT ![f] = None]
          /\ UNCHANGED decision
      BY <2>1, <2>4 DEF EndPause
    <3>2. decision[f] # None => decision[f] \in Decisions
      BY DEF Base, TypeOK, Maybe
    <3>3. decision[f] # None /\ decision[f].kind = "edit"
            => /\ w = [ir |-> decision[f].ir, form |-> "serialized"]
               /\ r.curated = decision[f].ir
      BY <2>1, <3>2, ConstantsAssumption
         DEF ConstantsAssumption, ReleaseWire, ResolvedRequest, FinalIR, Decisions
    <3>4. r.mutated => decision[f] # None /\ decision[f].kind = "edit"
      BY <2>1 DEF ResolvedRequest, MutatedManually
    <3> HIDE DEF r, w
    <3> QED BY <3>1, <3>3, <3>4 DEF Base, TypeOK
  <2> QED BY <2>3, <2>4
<1> QED
  BY <1>1, <1>2, <1>3, <1>4, <1>5, <1>6 DEF Hook

LEMMA EditStep == Base /\ Base' /\ EditStrong /\ [Next]_vars => EditStrong'
<1> SUFFICES ASSUME Base, Base', EditStrong, [Next]_vars PROVE EditStrong'
  OBVIOUS
<1> USE DEF EditStrong, EditInv, EditIsHonoured
<1>1. \A f \in Flows : hook[f] = "paused" => paused[f] \in PausedFlows
  BY DEF Base, TypeOK, OnePresented, Maybe
<1>0. ASSUME UNCHANGED <<hook, request, wire, decision>>,
             \A f \in Flows : hook[f] = "paused" =>
               paused'[f].edit = paused[f].edit /\ paused'[f].payload = paused[f].payload
      PROVE  EditStrong'
  BY <1>0
<1>2. CASE Retouch
  BY <1>2, <1>0 DEF Retouch, Touched
<1>3. ASSUME NEW f \in Flows, NEW edit \in Maybe(IRs), NEW ir \in IRs,
             paused[f] # None,
             edit # None => edit = ir,
             paused' = [paused EXCEPT ![f] = Released(paused[f], edit, ir)],
             decision' = [decision EXCEPT ![f] =
               [kind |-> IF edit = None THEN "unmodified" ELSE "edit", ir |-> ir]],
             UNCHANGED <<hook, request, wire>>
      PROVE  EditStrong'
  <2> DEFINE d == [kind |-> IF edit = None THEN "unmodified" ELSE "edit", ir |-> ir]
             p == Released(paused[f], edit, ir)
  <2>1. hook[f] = "paused"
    BY <1>3 DEF Base, OnePresented
  <2>2. /\ d \in Decisions /\ d # None
        /\ d.kind = "edit" <=> edit # None
        /\ d.ir = ir
    BY NoneAssumption DEF NoneAssumption, Decisions
  <2>3. p.edit = edit /\ p.payload = ir
    BY <1>1, <2>1, UpdateFields
  <2>4. paused' = [paused EXCEPT ![f] = p] /\ decision' = [decision EXCEPT ![f] = d]
    BY <1>3
  <2> HIDE DEF d, p
  <2> QED BY <1>3, <2>1, <2>2, <2>3, <2>4 DEF Base, TypeOK
<1>4. ASSUME NEW f \in Flows, ReleaseUnmodified(f)
      PROVE  EditStrong'
  <2>1. paused[f].curated \in IRs
    BY <1>4 DEF ReleaseUnmodified, Base, TypeOK, Maybe, PausedFlows
  <2> QED BY <1>3, <1>4, <2>1 DEF ReleaseUnmodified, Maybe
<1>5. ASSUME NEW f \in Flows, NEW ir \in IRs, ReleaseEdited(f, ir)
      PROVE  EditStrong'
  <2>1. ir # None
    BY ConstantsAssumption DEF ConstantsAssumption
  <2> QED BY <1>3, <1>5, <2>1 DEF ReleaseEdited, Maybe
<1>6. ASSUME NEW f \in Flows, DropFlow(f)
      PROVE  EditStrong'
  <2>1. hook[f] = "paused" /\ paused' = [paused EXCEPT ![f] = Dropped(paused[f])]
    BY <1>6 DEF DropFlow, Base, OnePresented
  <2>2. \A g \in Flows : paused'[g] = IF g = f THEN Dropped(paused[f]) ELSE paused[g]
    BY <2>1 DEF Base, TypeOK
  <2> QED BY <1>1, <1>6, <1>0, <2>1, <2>2, UpdateFields DEF DropFlow
<1>7. CASE Shutdown
  <2>1. \A g \in Flows : hook[g] = "paused" => paused'[g] = Dropped(paused[g])
    BY <1>7 DEF Shutdown, Base, OnePresented
  <2> QED BY <1>1, <1>7, <1>0, <2>1, UpdateFields DEF Shutdown
<1> QED
  BY <1>2, <1>4, <1>5, <1>6, <1>7, EditHook, OtherSteps

\* The last edit the API acknowledged for a request is what goes upstream and
\* what is recorded, and a manual mutation is recorded only for such an edit.
THEOREM EditTheorem == Spec => []EditIsHonoured
<1>1. Init => EditStrong
  BY DEF Init, EditStrong, EditInv, EditIsHonoured
<1>2. EditStrong => EditIsHonoured
  BY DEF EditStrong
<1> QED
  BY <1>1, <1>2, BaseInit, BaseStep, EditStep, PTL DEF Spec

-----------------------------------------------------------------------------
(* The breakpoint implements the request gate                              *)

LEMMA GateInit == Init => Gate!Init
BY DEF Init, Gate!Init, GatePlace

LEMMA GateStep == Base /\ VetoInv /\ Base' /\ [Next]_vars => [Gate!Next]_(Gate!gateVars)
<1> SUFFICES ASSUME Base, VetoInv, Base', [Next]_vars
             PROVE  [Gate!Next]_(Gate!gateVars)
  OBVIOUS
<1> DEFINE place == [f \in Flows |-> GatePlace(f)]
<1> USE DEF GatePlace, Base, TypeOK, HookStates
\* Steps that move no request and veto none map to stutters.
<1>1. ASSUME UNCHANGED <<hook, vetoed>>
      PROVE  UNCHANGED Gate!gateVars
  BY <1>1 DEF Gate!gateVars
<1>2. CASE Retouch
  BY <1>1, <1>2 DEF Retouch
<1>3. ASSUME NEW f \in Flows, ReleaseUnmodified(f) \/ \E ir \in IRs : ReleaseEdited(f, ir)
      PROVE  UNCHANGED Gate!gateVars
  BY <1>1, <1>3 DEF ReleaseUnmodified, ReleaseEdited
<1>4. ASSUME NEW f \in Flows, ReceiveRequest(f)
      PROVE  UNCHANGED Gate!gateVars
  BY <1>4 DEF ReceiveRequest, Gate!gateVars
<1>5. ASSUME NEW f \in Flows, DropFlow(f)
      PROVE  Gate!Veto({f})
  BY <1>5 DEF DropFlow, Gate!Veto, OnePresented
<1>6. ASSUME Shutdown
      PROVE  Gate!Veto({f \in Flows : paused[f] # None})
  BY <1>6 DEF Shutdown, Gate!Veto, OnePresented
\* The hook's own steps: each is a step of the gate.
<1>7. ASSUME NEW f \in Flows, PassUnparsed(f) \/ ForwardCurated(f)
      PROVE  Gate!Pass(f)
  BY <1>7 DEF PassUnparsed, ForwardCurated, Gate!Pass
<1>8. ASSUME NEW f \in Flows, QueueForPause(f)
      PROVE  Gate!Hold(f)
  BY <1>8 DEF QueueForPause, Gate!Hold
<1>9. ASSUME NEW f \in Flows, PauseAtOnce(f) \/ AcquireSerializer(f)
      PROVE  Gate!Present(f)
  <2>1. /\ hook[f] \in {"persisting", "queued"}
        /\ hook' = [hook EXCEPT ![f] = "paused"]
        /\ holder = None
        /\ UNCHANGED vetoed
    BY <1>9 DEF PauseAtOnce, AcquireSerializer, StartPause
  <2>2. \A g \in Flows : hook[g] # "paused"
    BY <2>1, ConstantsAssumption DEF ConstantsAssumption, OnePresented
  <2> QED BY <2>1, <2>2 DEF Gate!Present
<1>10. ASSUME NEW f \in Flows, WakeOnEvent(f) \/ TimeOut(f)
       PROVE  Gate!Forward(f) \/ Gate!Drop(f)
  <2>1. hook[f] = "paused" /\ paused[f] # None /\ UNCHANGED vetoed
    BY <1>10 DEF WakeOnEvent, TimeOut, EndPause, OnePresented
  <2>2. CASE paused[f].dropped
    <3>1. f \in vetoed /\ hook' = [hook EXCEPT ![f] = "dropped"]
      BY <1>10, <2>1, <2>2 DEF WakeOnEvent, TimeOut, EndPause, VetoInv
    <3> QED BY <2>1, <3>1 DEF Gate!Drop
  <2>3. CASE ~paused[f].dropped
    <3>1. f \notin vetoed /\ hook' = [hook EXCEPT ![f] = "forwarded"]
      BY <1>10, <2>1, <2>3 DEF WakeOnEvent, TimeOut, EndPause, VetoInv
    <3> QED BY <2>1, <3>1 DEF Gate!Forward
  <2> QED BY <2>2, <2>3
<1> QED
  <2>1. CASE \E f \in Flows : Hook(f)
    BY <2>1, <1>4, <1>7, <1>8, <1>9, <1>10 DEF Hook, Gate!Next
  <2>2. CASE \E f \in Flows : DropFlow(f)
    <3>1. PICK f \in Flows : Gate!Veto({f})
      BY <2>2, <1>5
    <3> QED BY <3>1 DEF Gate!Next
  <2>3. CASE Shutdown
    <3>1. {f \in Flows : paused[f] # None} \in SUBSET Flows
      OBVIOUS
    <3> QED BY <2>3, <3>1, <1>6 DEF Gate!Next
  <2> HIDE DEF Base
  <2> QED BY <1>2, <1>3, <2>1, <2>2, <2>3, OtherSteps

\* The breakpoint implements the request gate: one request is presented at a
\* time, every request is let out of the gate as it was decided.
THEOREM GateTheorem == Spec => GateSpec
  BY BaseInit, BaseStep, VetoStep, GateInit, GateStep, VetoInit, PTL
     DEF Spec, GateSpec, Gate!Spec
=============================================================================
