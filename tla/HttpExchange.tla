---------------------------- MODULE HttpExchange ----------------------------
(***************************************************************************)
(* What becomes of one HTTP request in the exchange store, from the        *)
(* request hook (a provisional exchange, stored before the breakpoint) to  *)
(* the response or error hook (exchange_recorder.py, addon.py,             *)
(* addon_handlers.py), and what the browsers were told of it.  Composed    *)
(* with ExchangeStore: a hook starts an operation and waits for it.        *)
(***************************************************************************)
EXTENDS ExchangeStore

CONSTANT Flows  \* the requests; each may use two exchange ids

ASSUME HttpConstants == Exchanges = Flows \X {"first", "again"}

VARIABLES
  flow,     \* where each flow is
  prov,     \* prov[f]: provisional_exchange_id is set
  shown     \* the exchanges the browsers were told of

httpVars == <<flow, prov, shown>>
vars == <<storeVars, httpVars>>

First(f) == <<f, "first">>
Again(f) == <<f, "again">>

Places == {"new", "request", "sent", "dropped", "finding", "finalizing", "afresh",
           "deleting", "recorded", "unrecorded", "discarded", "gone"}
Ended(f) == flow[f] \in {"recorded", "unrecorded", "discarded", "gone"}

TypeOK ==
  /\ StoreTypeOK
  /\ flow \in [Flows -> Places] /\ prov \in [Flows -> BOOLEAN]
  /\ shown \subseteq Exchanges

Init ==
  /\ StoreInit
  /\ flow = [f \in Flows |-> "new"] /\ prov = [f \in Flows |-> FALSE]
  /\ shown = {}

At(f, place) == flow[f] = place
Go(f, place) == flow' = [flow EXCEPT ![f] = place]

\* emit_exchange and emit_exchange_deleted, which follow what was stored or deleted.
Emit(told, es) == shown' = IF told THEN shown \cup es ELSE shown \ es

-----------------------------------------------------------------------------
\* handle_http_request: the provisional exchange comes before the breakpoint.
Request(f) ==
  /\ At(f, "new") /\ Go(f, "request")
  /\ Persist(First(f), Provisional)
  /\ UNCHANGED <<prov, shown>>

\* The breakpoint, or nobody, decides; a failed write leaves no id.
Decided(f, place) ==
  /\ At(f, "request") /\ result[First(f)] # None /\ op[First(f)] = None
  /\ Go(f, place)
  /\ prov' = [prov EXCEPT ![f] = result[First(f)] = "ok"]
  /\ IF result[First(f)] = "ok" THEN Emit(TRUE, {First(f)}) ELSE UNCHANGED shown
  /\ UNCHANGED storeVars
Forward(f) == Decided(f, "sent")
Drop(f) == Decided(f, "dropped")

\* The response hook of a forwarded flow: finalize, or store it afresh.
Response(f) ==
  /\ At(f, "sent") /\ ~prov[f] /\ Go(f, "afresh")
  /\ Persist(Again(f), Final)
  /\ UNCHANGED <<prov, shown>>
LookUp(f) ==
  /\ At(f, "sent") /\ prov[f] /\ Go(f, "finding")
  /\ lock = None
  /\ Ensure /\ cache' = Entries /\ stale' = FALSE
  /\ UNCHANGED <<tmp, bak, lock, op, result, kept, visitor, faults, crashes, prov, shown>>
Finalize(f) ==
  /\ At(f, "finding")
  /\ IF cache[First(f)] # None
     THEN Go(f, "finalizing") /\ Persist(First(f), Final)
     ELSE Go(f, "afresh") /\ Persist(Again(f), Final)
  /\ UNCHANGED <<prov, shown>>

\* persist_http_exchange goes on with a fresh id when finalizing failed.
Finalized(f) ==
  /\ At(f, "finalizing") /\ op[First(f)] = None
  /\ IF result[First(f)] = "ok"
     THEN Go(f, "recorded") /\ Emit(TRUE, {First(f)}) /\ UNCHANGED storeVars
     ELSE Go(f, "afresh") /\ Persist(Again(f), Final) /\ UNCHANGED shown
  /\ UNCHANGED prov
StoredAfresh(f) ==
  /\ At(f, "afresh") /\ op[Again(f)] = None
  /\ IF result[Again(f)] = "ok"
     THEN Go(f, "recorded") /\ Emit(TRUE, {Again(f)})
     ELSE Go(f, "unrecorded") /\ UNCHANGED shown
  /\ UNCHANGED <<storeVars, prov>>

\* Mutant of Discard: only the response hook of a dropped flow deletes.
DiscardDropped(f) ==
  /\ At(f, "sent") \/ At(f, "dropped")
  /\ IF prov[f] /\ At(f, "dropped") THEN Go(f, "deleting") /\ Delete(First(f))
                                   ELSE Go(f, "discarded") /\ UNCHANGED storeVars
  /\ UNCHANGED <<prov, shown>>

\* The response hook of a dropped flow, and the error hook of any flow.
Discard(f) ==
  /\ At(f, "sent") \/ At(f, "dropped")
  /\ IF prov[f] THEN Go(f, "deleting") /\ Delete(First(f))
                ELSE Go(f, "discarded") /\ UNCHANGED storeVars
  /\ UNCHANGED <<prov, shown>>
Discarded(f) ==
  /\ At(f, "deleting") /\ op[First(f)] = None
  /\ Go(f, "discarded")
  /\ IF result[First(f)] = "ok"
     THEN prov' = [prov EXCEPT ![f] = FALSE] /\ Emit(FALSE, {First(f)})
     ELSE UNCHANGED <<prov, shown>>
  /\ UNCHANGED storeVars

\* The proxy dies with its flows; the browsers read the store again.
Crash ==
  /\ StoreCrash
  /\ flow' = [f \in Flows |-> IF At(f, "new") \/ Ended(f) THEN flow[f] ELSE "gone"]
  /\ shown' = {e \in Exchanges : Recovered(e) # None}
  /\ UNCHANGED prov

Hook(f) ==
  \/ Forward(f) \/ Drop(f) \/ Response(f) \/ LookUp(f) \/ Finalize(f)
  \/ Finalized(f) \/ StoredAfresh(f) \/ Discard(f) \/ Discarded(f)

Next ==
  \/ \E f \in Flows : Request(f) \/ Hook(f)
  \/ \E e \in Exchanges : StoreStep(e) /\ UNCHANGED httpVars
  \/ Crash
  \/ (VisitOpens \/ VisitRebuilds \/ VisitStamps) /\ UNCHANGED httpVars

Spec == Init /\ [][Next]_vars

-----------------------------------------------------------------------------
(* Properties                                                              *)

\* A flow leaves one finished exchange when it was answered and none when it
\* was dropped or broke off, unless a write failed; and whatever failed, the
\* exchanges the browsers were told of are those that are stored, and their rows
\* describe what is stored unless the proxy died or another process wrote them.
OneRecord ==
  \A f \in Flows : {First(f), Again(f)} \cap touched = {} =>
    LET stored == {e \in {First(f), Again(f)} : live[e] # None} IN
      /\ faults = 0 /\ At(f, "recorded") => \E e \in stored : stored = {e} /\ live[e] = Final
      /\ faults = 0 /\ At(f, "discarded") => stored = {}
      /\ Ended(f) /\ ~At(f, "gone") => shown \cap {First(f), Again(f)} = stored
      /\ Ended(f) /\ crashes = 0 /\ visits = 0 => \A e \in stored : index[e] = live[e]

=============================================================================
