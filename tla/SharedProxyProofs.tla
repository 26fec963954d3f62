-------------------------- MODULE SharedProxyProofs --------------------------
(* Proofs about SharedProxy, for any number of runs, ports, connections and  *)
(* control requests at work.                                                 *)
EXTENDS SharedProxy, TLAPS

\* Only a call with a request of its own gets as far as making it.
OwnIsRequest == op # None /\ op.at = "own" => op.req # None

Typed == TypeOK /\ OwnIsRequest

-----------------------------------------------------------------------------
(* Types of what the actions build                                         *)

LEMMA RequestTypes ==
  ASSUME NEW r \in Runs
  PROVE  /\ Register(r) \in Requests /\ Deregister(r) \in Requests
         /\ \A s \in Snapshots : Set(r, s) \in [kind : {"set"}, run : Runs, to : Snapshots]
BY DEF Register, Deregister, Set, Requests

LEMMA SetType ==
  ASSUME NEW req \in [kind : {"set"}, run : Runs, to : Snapshots]
  PROVE  req \in Requests
BY DEF Requests

LEMMA RequestFields ==
  ASSUME NEW req \in Requests
  PROVE  req.run \in Runs /\ (req.kind = "set" => req.to \in Snapshots)
BY DEF Requests

LEMMA KnownType == TypeOK => Known \subseteq Requests
BY DEF TypeOK, Known, Register, Set, Requests, Maybe

LEMMA OpTypes ==
  ASSUME NEW o \in Ops
  PROVE  /\ [o EXCEPT !.at = "ready"] \in Ops
         /\ [o EXCEPT !.at = "own"] \in Ops
         /\ \A todo \in SUBSET Requests :
              [o EXCEPT !.at = "rehydrate", !.todo = todo] \in Ops
         /\ \A h \in Handlers : [o EXCEPT !.wait = h] \in Ops
         /\ \A req \in Requests : [o EXCEPT !.todo = @ \ {req}, !.wait = None] \in Ops
BY DEF Ops, Maybe

LEMMA OpFields ==
  ASSUME NEW o \in Ops
  PROVE  /\ [o EXCEPT !.at = "own"].req = o.req
         /\ [o EXCEPT !.at = "ready"].at = "ready"
         /\ \A todo : [o EXCEPT !.at = "rehydrate", !.todo = todo].at = "rehydrate"
         /\ \A h : /\ [o EXCEPT !.wait = h].at = o.at
                   /\ [o EXCEPT !.wait = h].req = o.req
         /\ \A req : /\ [o EXCEPT !.todo = @ \ {req}, !.wait = None].at = o.at
                     /\ [o EXCEPT !.todo = @ \ {req}, !.wait = None].req = o.req
BY DEF Ops

LEMMA StartType ==
  ASSUME NEW req \in Maybe(Requests), Start(req)
  PROVE  op' \in Ops /\ op'.at = "ensure"
BY DEF Start, Ops, Maybe

LEMMA TaskTypes ==
  /\ \A req \in Requests : Sent(req) \in Tasks /\ Sent(req).prev = {}
  /\ TypeOK => \A t \in Tasks : /\ Probing(t) \in Tasks /\ Probing(t).prev = table
                                /\ Registering(t) \in Tasks
                                /\ Registering(t).prev = t.prev
BY DEF Sent, Probing, Registering, Tasks, TypeOK

-----------------------------------------------------------------------------
(* Typed is inductive                                                      *)

LEMMA TypedInit == Init => Typed
<1> SUFFICES ASSUME Init PROVE Typed
  OBVIOUS
<1>1. faults \in 0..MaxFaults
  BY ProxyConstants DEF ProxyConstants, Init
<1>2. /\ bound \in [Flows -> Maybe(Runs)] /\ stamp \in [Flows -> Maybe(Runs)]
      /\ flow \in [Flows -> {"new", "open", "over", "refused"}]
      /\ captured \in [Flows -> SUBSET Runs]
  BY DEF Init, Maybe
<1>3. /\ overrides \in [Runs -> Maybe(Snapshots)] /\ store \in [Runs -> Maybe(Snapshots)]
      /\ life \in [Runs -> {"new", "held", "closed"}]
      /\ handler \in [Handlers -> Maybe(Tasks)]
  BY DEF Init, Maybe
<1>4. OwnIsRequest
  BY DEF Init, OwnIsRequest
<1> QED BY <1>1, <1>2, <1>3, <1>4 DEF Init, Typed, TypeOK, Maybe

LEMMA FailTyped ==
  ASSUME Typed, op # None, Fail
  PROVE  mirror' \in SUBSET Runs /\ op' = None
BY DEF Typed, TypeOK, Fail

LEMMA FaultTyped ==
  ASSUME Typed, Fault
  PROVE  faults' \in 0..MaxFaults
BY ProxyConstants DEF ProxyConstants, Typed, TypeOK, Fault

LEMMA CallsTyped ==
  ASSUME Typed,
         \/ \E r \in Runs : \/ CallRegister(r) \/ CallDeregister(r)
                            \/ \E s \in Snapshots : AskSet(r, s)
         \/ \E req \in asked : CallSet(req)
         \/ Supervise
  PROVE  Typed'
<1> USE DEF Typed, TypeOK, OwnIsRequest, managerVars, flowVars
<1>1. ASSUME NEW r \in Runs, CallRegister(r) PROVE Typed'
  <2>1. op' \in Ops /\ op'.at = "ensure"
    BY <1>1, RequestTypes, StartType DEF CallRegister, Maybe
  <2> QED BY <1>1, <2>1 DEF CallRegister, Maybe
<1>2. ASSUME NEW r \in Runs, CallDeregister(r) PROVE Typed'
  <2>1. op' \in Ops /\ op'.at = "ensure"
    BY <1>2, RequestTypes, StartType DEF CallDeregister, Maybe
  <2> QED BY <1>2, <2>1 DEF CallDeregister, Maybe
<1>3. ASSUME NEW r \in Runs, NEW s \in Snapshots, AskSet(r, s) PROVE Typed'
  BY <1>3, RequestTypes DEF AskSet
<1>4. ASSUME NEW req \in asked, CallSet(req) PROVE Typed'
  <2>1. op' \in Ops /\ op'.at = "ensure"
    BY <1>4, SetType, StartType DEF CallSet, Maybe
  <2> QED BY <1>4, <2>1 DEF CallSet, Maybe
<1>5. CASE Supervise
  <2>1. op' \in Ops /\ op'.at = "ensure"
    BY <1>5, StartType DEF Supervise, Maybe
  <2> QED BY <1>5, <2>1 DEF Supervise, Maybe
<1> QED BY <1>1, <1>2, <1>3, <1>4, <1>5

LEMMA SendTyped ==
  ASSUME Typed, op # None, NEW req \in Requests, Send(req)
  PROVE  Typed'
<1>1. PICK h \in Free : /\ handler' = [handler EXCEPT ![h] = Sent(req)]
                        /\ op' = [op EXCEPT !.wait = h]
  BY DEF Send
<1>2. op \in Ops /\ h \in Handlers
  BY DEF Typed, TypeOK, Maybe, Free
<1>3. op' \in Ops /\ OwnIsRequest'
  BY <1>1, <1>2, OpTypes, OpFields DEF Typed, OwnIsRequest
<1>4. handler' \in [Handlers -> Maybe(Tasks)]
  BY <1>1, <1>2, TaskTypes DEF Typed, TypeOK, Maybe
<1> QED BY <1>3, <1>4 DEF Typed, TypeOK, Send, managerVars, flowVars, Maybe

LEMMA OpTyped ==
  ASSUME Typed, OpStep \/ EnsureFails \/ \E h \in Late : GiveUp(h)
  PROVE  Typed'
<1>0. /\ op # None => op \in Ops
      /\ op # None /\ op.req # None => op.req.run \in Runs
  BY RequestFields DEF Typed, TypeOK, Maybe, Ops
<1>1. CASE EnsureProcess
  <2>1. op' \in Ops /\ op'.at = "ready"
    BY <1>0, <1>1, OpTypes, OpFields DEF EnsureProcess
  <2> QED BY <1>1, <2>1 DEF EnsureProcess, Typed, TypeOK, OwnIsRequest, Maybe, flowVars
<1>2. CASE ProxyReady
  <2>1. op' \in Maybe(Ops) /\ OwnIsRequest'
    <3>1. CASE stale
      BY <1>0, <1>2, <3>1, OpTypes, OpFields, KnownType
         DEF ProxyReady, Typed, OwnIsRequest, Maybe
    <3>2. CASE ~stale
      BY <1>0, <1>2, <3>2, OpTypes, OpFields DEF ProxyReady, OwnIsRequest, Maybe
    <3> QED BY <3>1, <3>2
  <2>2. mirror' \in SUBSET Runs
    BY <1>0, <1>2 DEF ProxyReady, Typed, TypeOK
  <2> QED BY <1>2, <2>1, <2>2 DEF ProxyReady, Typed, TypeOK, flowVars
<1>3. CASE Rehydrate
  <2>1. PICK req \in op.todo : Send(req)
    BY <1>3 DEF Rehydrate
  <2>2. op # None /\ req \in Requests
    BY <1>0, <1>3, <2>1 DEF Rehydrate, Ops
  <2> QED BY <2>1, <2>2, SendTyped
<1>4. CASE Rehydrated
  <2>1. op' \in Maybe(Ops) /\ OwnIsRequest'
    BY <1>0, <1>4, OpTypes, OpFields DEF Rehydrated, OwnIsRequest, Maybe
  <2>2. mirror' \in SUBSET Runs
    BY <1>0, <1>4 DEF Rehydrated, Typed, TypeOK
  <2> QED BY <1>4, <2>1, <2>2 DEF Rehydrated, Typed, TypeOK, flowVars
<1>5. CASE SendOwn
  <2>1. op # None /\ op.req \in Requests
    BY <1>0, <1>5 DEF SendOwn, Typed, OwnIsRequest, Ops, Maybe
  <2> QED BY <1>5, <2>1, SendTyped DEF SendOwn
<1>6. CASE RequestLost
  BY <1>6, FailTyped DEF RequestLost, Fail, Typed, TypeOK, OwnIsRequest, Maybe, flowVars
<1>7. CASE EnsureFails
  BY <1>7, FailTyped, FaultTyped
     DEF EnsureFails, Fail, Typed, TypeOK, OwnIsRequest, Maybe, flowVars
<1>8. CASE \E h \in Late : GiveUp(h)
  BY <1>8, FailTyped, FaultTyped
     DEF GiveUp, Fail, Typed, TypeOK, OwnIsRequest, Maybe, flowVars
<1> QED BY <1>1, <1>2, <1>3, <1>4, <1>5, <1>6, <1>7, <1>8 DEF OpStep

\* What the manager's side becomes when a task answers.
LEMMA AnswerTyped ==
  ASSUME Typed, NEW h \in Handlers, handler[h] # None, NEW ok \in BOOLEAN, Answer(h, ok)
  PROVE  /\ handler' \in [Handlers -> Maybe(Tasks)]
         /\ mirror' \in SUBSET Runs
         /\ overrides' \in [Runs -> Maybe(Snapshots)]
         /\ op' \in Maybe(Ops)
         /\ OwnIsRequest'
         /\ UNCHANGED <<stale, life, asked>>
<1>1. handler[h] \in Tasks /\ handler[h].req \in Requests
  BY DEF Typed, TypeOK, Maybe, Tasks
<1>2. handler' \in [Handlers -> Maybe(Tasks)]
  BY DEF Answer, Typed, TypeOK, Maybe
<1>3. CASE op = None \/ op.wait # h
  BY <1>2, <1>3 DEF Answer, Typed, TypeOK, OwnIsRequest, managerVars
<1>4. CASE op # None /\ op.wait = h /\ ~ok
  BY <1>2, <1>4, FailTyped DEF Answer, Fail, Typed, TypeOK, OwnIsRequest, Maybe
<1>5. CASE op # None /\ op.wait = h /\ ok
  <2> DEFINE req == handler[h].req
  <2>0. op \in Ops
    BY <1>5 DEF Typed, TypeOK, Maybe
  <2>1. Acknowledged(req)
    BY <1>5 DEF Answer
  <2>2. CASE op.at = "rehydrate"
    <3>1. op' = [op EXCEPT !.todo = @ \ {req}, !.wait = None] /\ UNCHANGED managerVars
      BY <2>1, <2>2 DEF Acknowledged
    <3>2. op' \in Ops /\ OwnIsRequest'
      BY <1>1, <2>0, <2>2, <3>1, OpTypes, OpFields DEF OwnIsRequest
    <3> QED BY <1>2, <3>1, <3>2 DEF managerVars, Typed, TypeOK, Maybe
  <2>3. CASE op.at # "rehydrate"
    <3>1. req.run \in Runs /\ (req.kind = "set" => req.to \in Snapshots)
      BY <1>1, RequestFields
    <3>2. op' = None /\ mirror' \in SUBSET Runs /\ UNCHANGED <<stale, life, asked>>
      BY <2>1, <2>3, <3>1 DEF Acknowledged, Typed, TypeOK
    <3>3. overrides' \in [Runs -> Maybe(Snapshots)]
      BY <2>1, <2>3, <3>1 DEF Acknowledged, Typed, TypeOK, Maybe
    <3> QED BY <1>2, <3>2, <3>3 DEF OwnIsRequest, Maybe
  <2> QED BY <2>2, <2>3
<1> QED BY <1>3, <1>4, <1>5

LEMMA BeginTyped ==
  ASSUME Typed, NEW h \in Handlers, Begin(h)
  PROVE  Typed'
<1> DEFINE req == handler[h].req
           probing == [handler EXCEPT ![h] = Probing(handler[h])]
<1>1. handler[h] # None /\ handler[h] \in Tasks /\ req \in Requests
  BY DEF Begin, Task, Typed, TypeOK, Maybe, Tasks
<1>2. req.run \in Runs /\ (req.kind = "set" => req.to \in Snapshots)
  BY <1>1, RequestFields
<1>3. UNCHANGED <<proxy, flowVars, faults>>
  BY DEF Begin
<1>4. CASE /\ handler' = probing
           /\ table' \in {table \cup {req.run}, table \ {req.run}}
           /\ UNCHANGED <<op, managerVars, store>>
  <2>1. handler' \in [Handlers -> Maybe(Tasks)]
    BY <1>1, <1>4, TaskTypes DEF Typed, TypeOK, Maybe
  <2> QED BY <1>2, <1>3, <1>4, <2>1
          DEF Typed, TypeOK, OwnIsRequest, managerVars, flowVars
<1>5. CASE /\ \E ok \in BOOLEAN : Answer(h, ok)
           /\ store' \in {store, [store EXCEPT ![req.run] = req.to]}
           /\ store' # store => req.kind = "set"
           /\ UNCHANGED table
  <2>1. store' \in [Runs -> Maybe(Snapshots)]
    BY <1>2, <1>5 DEF Typed, TypeOK, Maybe
  <2> QED BY <1>1, <1>3, <1>5, <2>1, AnswerTyped DEF Typed, TypeOK, flowVars
<1>6. \/ /\ handler' = probing
         /\ table' \in {table \cup {req.run}, table \ {req.run}}
         /\ UNCHANGED <<op, managerVars, store>>
      \/ /\ \E ok \in BOOLEAN : Answer(h, ok)
         /\ store' \in {store, [store EXCEPT ![req.run] = req.to]}
         /\ store' # store => req.kind = "set"
         /\ UNCHANGED table
  BY DEF Begin
<1> QED BY <1>4, <1>5, <1>6

LEMMA TasksTyped ==
  ASSUME Typed, NEW h \in Handlers, TaskStep(h) \/ RollBack(h)
  PROVE  Typed'
<1>0. /\ handler[h] # None => handler[h] \in Tasks /\ handler[h].prev \in SUBSET Runs
      /\ TaskStep(h) \/ RollBack(h) => handler[h] # None
  BY DEF Typed, TypeOK, Maybe, Tasks, TaskStep, RollBack, Begin, Probed, Registered, Task
<1>1. CASE Begin(h)
  BY <1>1, BeginTyped
<1>2. CASE Probed(h)
  <2>1. UNCHANGED <<proxy, table, store, flowVars, faults>>
    BY <1>2 DEF Probed
  <2>2. CASE Answer(h, TRUE)
    BY <1>0, <1>2, <2>1, <2>2, AnswerTyped DEF Typed, TypeOK, flowVars
  <2>3. CASE /\ handler' = [handler EXCEPT ![h] = Registering(handler[h])]
             /\ UNCHANGED <<op, managerVars>>
    <3>1. handler' \in [Handlers -> Maybe(Tasks)]
      BY <1>0, <1>2, <2>3, TaskTypes DEF Typed, TypeOK, Maybe, TaskStep
    <3> QED BY <2>1, <2>3, <3>1 DEF Typed, TypeOK, OwnIsRequest, managerVars, flowVars
  <2> QED BY <1>2, <2>2, <2>3 DEF Probed
<1>3. CASE Registered(h)
  BY <1>0, <1>3, AnswerTyped DEF Registered, TaskStep, Typed, TypeOK, flowVars
<1>4. CASE RollBack(h)
  <2>1. table' \in SUBSET Runs /\ UNCHANGED <<proxy, store, stamp, flow, captured>>
    BY <1>0, <1>4 DEF RollBack
  <2>2. bound' \in [Flows -> Maybe(Runs)]
    BY <1>4 DEF RollBack, Typed, TypeOK, Maybe
  <2> QED BY <1>0, <1>4, <2>1, <2>2, AnswerTyped, FaultTyped DEF RollBack, Typed, TypeOK
<1> QED BY <1>1, <1>2, <1>3, <1>4 DEF TaskStep

LEMMA FlowsTyped ==
  ASSUME Typed, Crash \/ \E f \in Flows : FlowOpens(f) \/ FlowGoesOn(f) \/ FlowKilled(f)
  PROVE  Typed'
<1> USE DEF Typed, TypeOK, OwnIsRequest, managerVars, flowVars
<1>1. CASE Crash
  BY <1>1, FaultTyped DEF Crash, Maybe
<1>2. ASSUME NEW f \in Flows, FlowOpens(f) PROVE Typed'
  BY <1>2 DEF FlowOpens, OnPort, Maybe
<1>3. ASSUME NEW f \in Flows, FlowGoesOn(f) PROVE Typed'
  <2>1. Resolved(f) \subseteq Runs
    BY <1>3 DEF Resolved, Maybe
  <2> QED BY <1>3, <2>1 DEF FlowGoesOn, Maybe
<1>4. ASSUME NEW f \in Flows, FlowKilled(f) PROVE Typed'
  BY <1>4 DEF FlowKilled
<1> QED BY <1>1, <1>2, <1>3, <1>4

LEMMA TypedStep == Typed /\ [Next]_vars => Typed'
<1>1. ASSUME Typed, UNCHANGED vars PROVE Typed'
  BY <1>1 DEF vars, Typed, TypeOK, OwnIsRequest
<1> QED BY <1>1, CallsTyped, OpTyped, TasksTyped, FlowsTyped DEF Next

\* The types, for every instance.
THEOREM TypeTheorem == Spec => []TypeOK
<1>1. Spec => []Typed
  BY TypedInit, TypedStep, PTL DEF Spec
<1>2. Typed => TypeOK
  BY DEF Typed
<1> QED BY <1>1, <1>2, PTL

-----------------------------------------------------------------------------
(* A flow is captured for one run                                          *)

\* What a flow is bound to, and every run it was captured for, is the run that
\* was stamped on it when it opened.
StampRules ==
  \A f \in Flows : captured[f] \subseteq {stamp[f]} /\ bound[f] \in {None, stamp[f]}

LEMMA StampInit == Init => StampRules
BY DEF Init, StampRules

LEMMA StampStep == Typed /\ StampRules /\ [Next]_vars => StampRules'
<1> SUFFICES ASSUME Typed, StampRules, [Next]_vars PROVE StampRules'
  OBVIOUS
<1>0. /\ bound \in [Flows -> Maybe(Runs)] /\ stamp \in [Flows -> Maybe(Runs)]
      /\ captured \in [Flows -> SUBSET Runs]
  BY DEF Typed, TypeOK
<1>1. CASE UNCHANGED flowVars
  BY <1>1 DEF flowVars, StampRules
<1>2. ASSUME NEW h \in Handlers, RollBack(h) PROVE StampRules'
  BY <1>2 DEF RollBack, StampRules
<1>3. CASE Crash
  BY <1>3 DEF Crash, StampRules
<1>4. ASSUME NEW f \in Flows, FlowOpens(f) PROVE StampRules'
  <2>1. CASE UNCHANGED <<bound, stamp, captured>>
    BY <2>1 DEF StampRules
  <2>2. ASSUME NEW r \in Runs, bound' = [bound EXCEPT ![f] = r],
               stamp' = [stamp EXCEPT ![f] = r], captured' = [captured EXCEPT ![f] = {r}]
        PROVE  StampRules'
    BY <1>0, <2>2 DEF StampRules
  <2> QED BY <1>4, <2>1, <2>2 DEF FlowOpens, OnPort, Typed, TypeOK
<1>5. ASSUME NEW f \in Flows, FlowGoesOn(f) PROVE StampRules'
  <2>1. Resolved(f) \subseteq {stamp[f]}
    BY DEF Resolved, StampRules
  <2>2. PICK last \in BOOLEAN :
          /\ captured' = [captured EXCEPT ![f] = @ \cup {stamp[f]}]
          /\ bound' = [bound EXCEPT ![f] = IF last THEN None ELSE stamp[f]]
          /\ stamp' = stamp
    BY <1>5, <2>1 DEF FlowGoesOn
  <2> QED BY <1>0, <2>2 DEF StampRules
<1>6. ASSUME NEW f \in Flows, FlowKilled(f) PROVE StampRules'
  BY <1>6 DEF FlowKilled, StampRules
<1> QED
  <2>1. CASE Next
    BY <1>1, <1>2, <1>3, <1>4, <1>5, <1>6, <2>1
       DEF Next, CallRegister, CallDeregister, AskSet, CallSet, Supervise, OpStep,
           EnsureProcess, ProxyReady, Rehydrate, Rehydrated, SendOwn, Send, RequestLost,
           EnsureFails, GiveUp, TaskStep, Begin, Probed, Registered
  <2>2. CASE UNCHANGED vars
    BY <1>1, <2>2 DEF vars, flowVars
  <2> QED BY <2>1, <2>2

LEMMA StampMeansOneRun == StampRules => OneRunPerFlow
BY DEF OneRunPerFlow, StampRules

\* However ports change hands and control requests fail, no flow is captured
\* for two runs (the table restored by a rollback only forgets flows).
THEOREM FlowTheorem == Spec => []OneRunPerFlow
<1>1. Spec => [](Typed /\ StampRules)
  BY TypedInit, TypedStep, StampInit, StampStep, PTL DEF Spec
<1> QED BY <1>1, StampMeansOneRun, PTL

-----------------------------------------------------------------------------
(* Two runs never share a port                                             *)

Exclusive(S) == \A q, r \in S : PortOf[q] = PortOf[r] => q = r

\* The table is exclusive, and so is every table a task may restore.
PortRules ==
  /\ Exclusive(table)
  /\ \A h \in Handlers : handler[h] # None => Exclusive(handler[h].prev)

LEMMA PortInit == Init => PortRules
BY DEF Init, PortRules, Exclusive

\* Steps that start no task and restore no table.
LEMMA PortFrame ==
  ASSUME PortRules, table' \in {table, {}}, handler' \in {handler, [h \in Handlers |-> None]}
  PROVE  PortRules'
BY DEF PortRules, Exclusive

LEMMA SendPorts ==
  ASSUME Typed, PortRules, NEW req \in Requests, Send(req)
  PROVE  PortRules'
<1>1. PICK h \in Free : handler' = [handler EXCEPT ![h] = Sent(req)]
  BY DEF Send
<1>2. Exclusive(Sent(req).prev)
  BY TaskTypes DEF Exclusive
<1> HIDE DEF Exclusive
<1> QED BY <1>1, <1>2 DEF Send, PortRules, Typed, TypeOK, Free

\* A task that ends, or goes on with an exclusive table.
LEMMA TaskPorts ==
  ASSUME Typed, PortRules, NEW h \in Handlers, handler[h] # None, Exclusive(table'),
         \/ \E ok \in BOOLEAN : Answer(h, ok)
         \/ handler' = [handler EXCEPT ![h] = Probing(handler[h])]
         \/ handler' = [handler EXCEPT ![h] = Registering(handler[h])]
  PROVE  PortRules'
<1>1. handler[h] \in Tasks /\ handler \in [Handlers -> Maybe(Tasks)]
  BY DEF Typed, TypeOK, Maybe
<1>2. Exclusive(Probing(handler[h]).prev) /\ Exclusive(Registering(handler[h]).prev)
  BY <1>1, TaskTypes DEF PortRules, Typed
<1>3. Answer(h, TRUE) \/ Answer(h, FALSE) => handler' = [handler EXCEPT ![h] = None]
  BY DEF Answer
<1>4. PICK t : /\ handler' = [handler EXCEPT ![h] = t]
               /\ t # None => Exclusive(t.prev)
  BY <1>2, <1>3
<1> QED BY <1>1, <1>4 DEF PortRules

LEMMA PortStep == Typed /\ PortRules /\ [Next]_vars => PortRules'
<1> SUFFICES ASSUME Typed, PortRules, [Next]_vars PROVE PortRules'
  OBVIOUS
<1>0. op # None => op \in Ops
  BY DEF Typed, TypeOK, Maybe
<1>1. CASE OpStep
  <2>1. CASE Rehydrate
    BY <1>0, <2>1, SendPorts DEF Rehydrate, Ops
  <2>2. CASE SendOwn
    BY <1>0, <2>2, SendPorts DEF SendOwn, Typed, OwnIsRequest, Ops, Maybe
  <2>3. CASE EnsureProcess \/ ProxyReady \/ Rehydrated \/ RequestLost
    BY <2>3, PortFrame DEF EnsureProcess, ProxyReady, Rehydrated, RequestLost
  <2> QED BY <1>1, <2>1, <2>2, <2>3 DEF OpStep
<1>2. ASSUME NEW h \in Handlers, Begin(h) PROVE PortRules'
  <2>1. handler[h] # None
    BY <1>2 DEF Begin, Task
  <2>2. Exclusive(table')
    <3>1. \/ table' \in SUBSET table
          \/ ~Conflict(handler[h].req.run) /\ table' = table \cup {handler[h].req.run}
      BY <1>2 DEF Begin
    <3> QED BY <3>1 DEF Conflict, Exclusive, PortRules
  <2> QED BY <1>2, <2>1, <2>2, TaskPorts DEF Begin
<1>3. ASSUME NEW h \in Handlers, Probed(h) \/ Registered(h) PROVE PortRules'
  <2>1. handler[h] # None /\ Exclusive(table')
    BY <1>3 DEF Probed, Registered, Task, PortRules, Exclusive
  <2> QED BY <1>3, <2>1, TaskPorts DEF Probed, Registered
<1>4. ASSUME NEW h \in Handlers, RollBack(h) PROVE PortRules'
  <2>1. handler[h] # None /\ Exclusive(table')
    BY <1>4 DEF RollBack, Task, PortRules, Exclusive
  <2> QED BY <1>4, <2>1, TaskPorts DEF RollBack
<1>5. CASE \/ \E r \in Runs : \/ CallRegister(r) \/ CallDeregister(r)
                              \/ \E s \in Snapshots : AskSet(r, s)
           \/ \E req \in asked : CallSet(req)
           \/ Supervise \/ EnsureFails \/ \E h \in Late : GiveUp(h)
           \/ Crash
           \/ \E f \in Flows : FlowOpens(f) \/ FlowGoesOn(f) \/ FlowKilled(f)
           \/ UNCHANGED vars
  BY <1>5, PortFrame DEF CallRegister, CallDeregister, AskSet, CallSet, Supervise,
     EnsureFails, GiveUp, Crash, FlowOpens, FlowGoesOn, FlowKilled, vars
<1> QED BY <1>1, <1>2, <1>3, <1>4, <1>5 DEF Next, TaskStep

\* No two runs are ever served on one port, although failed requests restore
\* tables from before other requests.
THEOREM PortTheorem == Spec => []PortsAreExclusive
<1>1. Spec => [](Typed /\ PortRules)
  BY TypedInit, TypedStep, PortInit, PortStep, PTL DEF Spec
<1>2. PortRules => PortsAreExclusive
  BY DEF PortRules, Exclusive, PortsAreExclusive
<1> QED BY <1>1, <1>2, PTL

-----------------------------------------------------------------------------
(* What the API believes is what the proxy serves                          *)

\* The only task at work is the one whose answer the manager waits for.
TaskRules ==
  \A h \in Handlers : handler[h] # None =>
    /\ proxy = "up" /\ op # None /\ op.wait = h
    /\ \/ op.at = "rehydrate" /\ handler[h].req \in op.todo
       \/ op.at = "own" /\ handler[h].req = op.req
    /\ handler[h].at # "sent" => handler[h].req.kind # "set"
    /\ handler[h].at = "core" => handler[h].req.kind = "register"

\* How far a call has come says whether the proxy is still to be rehydrated;
\* a run that registers is in the mirror before its request is sent.
CallRules ==
  op # None =>
    /\ op.wait # None => op.at \in {"rehydrate", "own"}
    /\ op.at = "own" => ~stale
    /\ op.at = "rehydrate" => stale /\ op.todo \subseteq Known
    /\ op.at = "own" /\ op.req.kind = "register" => op.req.run \in mirror

\* r has not been in the mirror yet ...
Fresh(r) == life[r] = "new" \/ (op # None /\ op.at # "own" /\ op.req = Register(r))

\* ... so nobody has overrides for it, or asks for any.
FreshRules ==
  \A r \in Runs :
    /\ Fresh(r) => /\ r \notin mirror /\ overrides[r] = None /\ store[r] = None
                   /\ \A s \in Snapshots : /\ Set(r, s) \notin asked
                                           /\ op # None => op.req # Set(r, s)
    /\ op # None /\ op.req = Register(r) => /\ life[r] = "held"
                                           /\ overrides[r] = None /\ store[r] = None

\* A task has changed the table and waits for a probe or the transcript.
Begun == \E h \in Handlers : handler[h] # None /\ handler[h].at # "sent"

\* While a proxy is rehydrated it serves a part of what the mirror has, and the
\* rest is still to be sent; no task would restore anything else.
Partly ==
  /\ table \subseteq mirror
  /\ \A r \in mirror : store[r] \in {None, overrides[r]}
  /\ \A h \in Handlers : handler[h] # None =>
       /\ handler[h].prev \subseteq mirror
       /\ handler[h].at # "sent" => handler[h].req.run \in table
  /\ op # None /\ op.at = "rehydrate" =>
       \A r \in mirror : /\ r \in table \/ Register(r) \in op.todo
                         /\ store[r] = overrides[r] \/ Set(r, overrides[r]) \in op.todo

\* The mirror names a registration before, a deregistration until it is done.
Expected ==
  IF op = None \/ op.at # "own" \/ op.req.kind = "set" \/ (Begun <=> op.req.kind = "register")
  THEN mirror ELSE mirror \ {op.req.run}

\* Afterwards it serves the mirror, up to the request at work; the table that
\* request would restore is the one before it.
Wholly ==
  /\ table = Expected
  /\ \A r \in mirror : store[r] = overrides[r]
  /\ \A h \in Handlers : handler[h] # None /\ handler[h].at # "sent" =>
       handler[h].prev = IF handler[h].req.kind = "register"
                         THEN mirror \ {handler[h].req.run} ELSE mirror

Served == proxy = "up" => IF stale THEN Partly ELSE Wholly

\* The rules, on top of the types.
MirrorRules == TaskRules /\ CallRules /\ FreshRules /\ Served

NoTasks == \A h \in Handlers : handler[h] = None

LEMMA RequestShapes ==
  /\ \A r \in Runs : /\ Register(r).kind = "register" /\ Register(r).run = r
                     /\ Deregister(r).kind = "deregister" /\ Deregister(r).run = r
                     /\ \A s \in Snapshots : /\ Set(r, s).kind = "set"
                                             /\ Set(r, s).run = r /\ Set(r, s).to = s
  /\ \A req \in Requests :
       /\ req.kind \in {"register", "deregister", "set"}
       /\ req.run \in Runs
       /\ req.kind = "register" => req = Register(req.run)
       /\ req.kind = "set" => req.to \in Snapshots /\ req = Set(req.run, req.to)
BY DEF Register, Deregister, Set, Requests

LEMMA KnownShapes ==
  ASSUME TypeOK, NEW req \in Known
  PROVE  /\ req.kind \in {"register", "set"} /\ req.run \in Runs
         /\ req.kind = "register" => req.run \in mirror
         /\ req.kind = "set" => req.to = overrides[req.run] /\ req.to # None
BY DEF Known, Register, Set, TypeOK

LEMMA OpParts ==
  ASSUME NEW o \in Ops
  PROVE  /\ [o EXCEPT !.at = "ready"].req = o.req /\ [o EXCEPT !.at = "ready"].wait = o.wait
         /\ [o EXCEPT !.at = "own"].at = "own"
         /\ \A todo : /\ [o EXCEPT !.at = "rehydrate", !.todo = todo].req = o.req
                      /\ [o EXCEPT !.at = "rehydrate", !.todo = todo].todo = todo
BY DEF Ops

LEMMA WaitParts ==
  ASSUME NEW o \in Ops, NEW h \in Handlers, NEW n, n = [o EXCEPT !.wait = h]
  PROVE  /\ n \in Ops /\ n # None
         /\ n.wait = h /\ n.at = o.at /\ n.req = o.req /\ n.todo = o.todo
<1>1. n \in Ops /\ n.wait = h /\ n.at = o.at /\ n.req = o.req /\ n.todo = o.todo
  BY DEF Ops, Maybe
<1> QED BY <1>1, NoneIsNoValue DEF NoneIsNoValue

LEMMA StartParts ==
  ASSUME NEW req, Start(req)
  PROVE  op'.at = "ensure" /\ op'.wait = None /\ op'.req = req
BY DEF Start

LEMMA TaskParts ==
  /\ \A req : Sent(req).req = req /\ Sent(req).at = "sent" /\ Sent(req).prev = {}
  /\ \A t \in Tasks : /\ Probing(t).req = t.req /\ Probing(t).at = "probe"
                      /\ Probing(t).prev = table
                      /\ Registering(t).req = t.req /\ Registering(t).at = "core"
                      /\ Registering(t).prev = t.prev
BY DEF Sent, Probing, Registering, Tasks

LEMMA Idle ==
  ASSUME TaskRules, \/ op = None \/ op.wait = None \/ op.at \notin {"rehydrate", "own"}
                    \/ proxy = "down"
  PROVE  NoTasks
BY ProxyConstants DEF ProxyConstants, TaskRules, NoTasks

LEMMA MirrorInit == Init => MirrorRules
BY DEF Init, MirrorRules, TaskRules, CallRules, FreshRules, Fresh, Served

LEMMA MirrorFrame ==
  ASSUME MirrorRules,
         UNCHANGED <<mirror, overrides, stale, op, life, asked, proxy, table, store, handler>>
  PROVE  MirrorRules'
<1>1. TaskRules' /\ CallRules' /\ FreshRules'
  BY DEF MirrorRules, TaskRules, CallRules, Known, FreshRules, Fresh
<1>2. Served'
  BY DEF MirrorRules, Served, Partly, Wholly, Expected, Begun
<1> QED BY <1>1, <1>2 DEF MirrorRules

-----------------------------------------------------------------------------
(* The manager's calls keep the rules                                      *)

LEMMA StartKeeps ==
  ASSUME Typed, MirrorRules, op = None, NEW req \in Maybe(Requests), Start(req),
         UNCHANGED <<mirror, overrides, stale, proxy, table, store, handler>>
  PROVE  TaskRules' /\ CallRules' /\ Served'
<1>1. NoTasks
  BY Idle DEF MirrorRules
<1>2. op'.at = "ensure" /\ op'.wait = None
  BY StartParts
<1>3. TaskRules' /\ CallRules'
  BY <1>1, <1>2 DEF NoTasks, TaskRules, CallRules
<1>4. Partly => Partly'
  BY <1>1, <1>2 DEF NoTasks, Partly
<1>5. Wholly => Wholly'
  BY <1>1, <1>2 DEF NoTasks, Wholly, Expected
<1> QED BY <1>3, <1>4, <1>5 DEF MirrorRules, Served

LEMMA CallsKeep ==
  ASSUME Typed, MirrorRules,
         \/ \E r \in Runs : \/ CallRegister(r) \/ CallDeregister(r)
                            \/ \E s \in Snapshots : AskSet(r, s)
         \/ \E req \in asked : CallSet(req)
         \/ Supervise
  PROVE  MirrorRules'
<1>0. /\ life \in [Runs -> {"new", "held", "closed"}] /\ FreshRules
      /\ asked \subseteq [kind : {"set"}, run : Runs, to : Snapshots]
  BY DEF Typed, TypeOK, MirrorRules
<1>1. ASSUME NEW r \in Runs, CallRegister(r) PROVE MirrorRules'
  <2>1. Register(r) \in Maybe(Requests)
    BY RequestTypes DEF Maybe
  <2>2. TaskRules' /\ CallRules' /\ Served'
    BY <1>1, <2>1, StartKeeps DEF CallRegister
  <2>3. op'.at = "ensure" /\ op'.req = Register(r)
    BY <1>1, <2>1, StartParts DEF CallRegister
  <2>4. \A q \in Runs : /\ Register(r) = Register(q) => r = q
                        /\ \A s \in Snapshots : Register(r) # Set(q, s)
    BY RequestShapes
  <2>5. FreshRules'
    BY <1>0, <1>1, <2>3, <2>4 DEF CallRegister, FreshRules, Fresh
  <2> QED BY <2>2, <2>5 DEF MirrorRules
<1>2. ASSUME NEW r \in Runs, CallDeregister(r) PROVE MirrorRules'
  <2>1. Deregister(r) \in Maybe(Requests)
    BY RequestTypes DEF Maybe
  <2>2. TaskRules' /\ CallRules' /\ Served'
    BY <1>2, <2>1, StartKeeps DEF CallDeregister
  <2>3. op'.at = "ensure" /\ op'.req = Deregister(r)
    BY <1>2, <2>1, StartParts DEF CallDeregister
  <2>4. \A q \in Runs : /\ Deregister(r) # Register(q)
                        /\ \A s \in Snapshots : Deregister(r) # Set(q, s)
    BY RequestShapes
  <2>5. FreshRules'
    BY <1>0, <1>2, <2>3, <2>4 DEF CallDeregister, FreshRules, Fresh
  <2> QED BY <2>2, <2>5 DEF MirrorRules
<1>3. ASSUME NEW r \in Runs, NEW s \in Snapshots, AskSet(r, s) PROVE MirrorRules'
  <2>1. TaskRules' /\ CallRules' /\ Served'
    BY <1>3 DEF AskSet, flowVars, MirrorRules, TaskRules, CallRules, Known, Served, Partly,
                Wholly, Expected, Begun
  <2>2. \A q \in Runs, t \in Snapshots : Set(q, t) = Set(r, s) => q = r
    BY RequestShapes
  <2>3. FreshRules'
    BY <1>0, <1>3, <2>2 DEF AskSet, FreshRules, Fresh
  <2> QED BY <2>1, <2>3 DEF MirrorRules
<1>4. ASSUME NEW req \in asked, CallSet(req) PROVE MirrorRules'
  <2>1. req \in Requests /\ req.kind = "set"
    BY <1>0, SetType
  <2>2. TaskRules' /\ CallRules' /\ Served'
    BY <1>4, <2>1, StartKeeps DEF CallSet, Maybe
  <2>3. op'.at = "ensure" /\ op'.req = req
    BY <1>4, StartParts DEF CallSet
  <2>4. \A q \in Runs : req # Register(q)
    BY <2>1, RequestShapes
  <2>5. FreshRules'
    BY <1>0, <1>4, <2>3, <2>4 DEF CallSet, FreshRules, Fresh
  <2> QED BY <2>2, <2>5 DEF MirrorRules
<1>5. CASE Supervise
  <2>1. TaskRules' /\ CallRules' /\ Served'
    BY <1>5, StartKeeps DEF Supervise, managerVars, Maybe
  <2>2. op'.at = "ensure" /\ op'.req = None
    BY <1>5, StartParts DEF Supervise
  <2>3. \A q \in Runs : None # Register(q) /\ \A s \in Snapshots : None # Set(q, s)
    BY NoneIsNoValue, RequestTypes, SetType DEF NoneIsNoValue
  <2>4. FreshRules'
    BY <1>0, <1>5, <2>2, <2>3 DEF Supervise, managerVars, FreshRules, Fresh
  <2> QED BY <2>1, <2>4 DEF MirrorRules
<1> QED BY <1>1, <1>2, <1>3, <1>4, <1>5

\* A call that fails while no task is at work on it.
LEMMA FailKeeps ==
  ASSUME Typed, MirrorRules, op # None, Fail, UNCHANGED <<proxy, table, store, handler>>,
         proxy = "down" \/ op.at \in {"ensure", "ready"}
  PROVE  MirrorRules'
<1>1. NoTasks
  BY Idle DEF MirrorRules
<1>2. op' = None /\ mirror' \subseteq mirror /\ UNCHANGED <<overrides, stale, life, asked>>
  BY DEF Fail
<1>3. TaskRules' /\ CallRules'
  BY <1>1, <1>2 DEF NoTasks, TaskRules, CallRules
<1>4. FreshRules'
  BY <1>2 DEF MirrorRules, FreshRules, Fresh
<1>5. CASE proxy = "down"
  BY <1>3, <1>4, <1>5 DEF MirrorRules, Served
<1>6. CASE op.at \in {"ensure", "ready"}
  <2>1. mirror' = mirror
    BY <1>6 DEF Fail
  <2>2. Partly => Partly'
    BY <1>1, <1>2, <2>1 DEF NoTasks, Partly
  <2>3. Wholly => Wholly'
    BY <1>1, <1>2, <1>6, <2>1 DEF NoTasks, Wholly, Expected
  <2> QED BY <1>2, <1>3, <1>4, <2>2, <2>3 DEF MirrorRules, Served
<1> QED BY <1>5, <1>6

\* A proxy that serves the mirror is told the call's own request next, if it
\* has one; a registration enters the mirror now.
LEMMA OwnKeeps ==
  ASSUME Typed, MirrorRules, op # None, op.at # "own", NoTasks,
         proxy = "up" => table = mirror /\ \A r \in mirror : store[r] = overrides[r],
         op' = IF op.req = None THEN None ELSE [op EXCEPT !.at = "own"],
         mirror' = IF op.req # None /\ op.req.kind = "register"
                   THEN mirror \cup {op.req.run} ELSE mirror,
         stale' = FALSE,
         UNCHANGED <<overrides, life, asked, proxy, table, store, handler>>
  PROVE  MirrorRules'
<1>0. op \in Ops /\ FreshRules
  BY DEF Typed, TypeOK, Maybe, MirrorRules
<1>1. TaskRules'
  BY DEF NoTasks, TaskRules
<1>2. CASE op.req = None
  <2>1. op' = None /\ mirror' = mirror
    BY <1>2
  <2>2. CallRules' /\ FreshRules'
    BY <1>0, <2>1 DEF CallRules, FreshRules, Fresh
  <2>3. proxy = "up" => Wholly'
    BY <2>1 DEF NoTasks, Wholly, Expected
  <2> QED BY <1>1, <2>2, <2>3 DEF MirrorRules, Served
<1>3. CASE op.req # None
  <2>1. op.req \in Requests /\ op.req.run \in Runs
    BY <1>0, <1>3, RequestShapes DEF Ops, Maybe
  <2>2. op' \in Ops /\ op'.at = "own" /\ op'.req = op.req
    BY <1>0, <1>3, OpTypes, OpFields, OpParts
  <2>3. CallRules'
    BY <2>2 DEF CallRules
  <2>4. op.req.kind = "register" => /\ op.req = Register(op.req.run) /\ Fresh(op.req.run)
                                    /\ life[op.req.run] = "held"
    BY <1>0, <2>1, RequestShapes DEF FreshRules, Fresh
  <2>5. FreshRules'
    BY <1>0, <2>2, <2>4 DEF FreshRules, Fresh
  <2>6. ASSUME proxy = "up" PROVE Wholly'
    <3>1. ~Begun'
      BY DEF NoTasks, Begun
    <3>2. CASE op.req.kind = "register"
      <4>1. /\ op.req.run \notin mirror /\ mirror' = mirror \cup {op.req.run}
            /\ store[op.req.run] = overrides[op.req.run]
        BY <1>0, <1>3, <2>1, <2>4, <3>2 DEF FreshRules
      <4>2. Expected' = mirror' \ {op.req.run}
        BY <1>3, <2>2, <3>1, <3>2, NoneIsNoValue DEF Expected, NoneIsNoValue
      <4> QED BY <2>6, <4>1, <4>2 DEF Wholly, NoTasks
    <3>3. CASE op.req.kind # "register"
      <4>1. mirror' = mirror /\ Expected' = mirror'
        BY <2>2, <3>1, <3>3 DEF Expected
      <4> QED BY <2>6, <4>1 DEF Wholly, NoTasks
    <3> QED BY <3>2, <3>3
  <2> QED BY <1>1, <2>3, <2>5, <2>6 DEF MirrorRules, Served
<1> QED BY <1>2, <1>3

LEMMA EnsureKeeps ==
  ASSUME Typed, MirrorRules, EnsureProcess
  PROVE  MirrorRules'
<1>0. op \in Ops /\ op # None /\ op.at = "ensure" /\ op.wait = None
  BY DEF EnsureProcess, Typed, TypeOK, Maybe, MirrorRules, CallRules
<1>1. op'.at = "ready" /\ op'.req = op.req /\ op'.wait = None
  BY <1>0, OpFields, OpParts DEF EnsureProcess
<1>2. NoTasks
  BY <1>0, Idle DEF MirrorRules
<1>3. TaskRules' /\ CallRules'
  BY <1>1, <1>2 DEF EnsureProcess, NoTasks, TaskRules, CallRules
<1>4. FreshRules'
  <2>1. \A r \in Runs : store'[r] = store[r] \/ store'[r] = None
    BY DEF EnsureProcess
  <2> QED BY <1>0, <1>1, <2>1 DEF EnsureProcess, MirrorRules, FreshRules, Fresh
<1>5. CASE proxy = "up"
  <2>1. UNCHANGED <<mirror, overrides, proxy, table, store, stale, handler>>
    BY <1>5 DEF EnsureProcess
  <2>2. Partly => Partly'
    BY <1>1, <1>2, <2>1 DEF NoTasks, Partly
  <2>3. Wholly => Wholly'
    BY <1>0, <1>1, <1>2, <2>1 DEF NoTasks, Wholly, Expected
  <2> QED BY <1>3, <1>4, <2>1, <2>2, <2>3 DEF MirrorRules, Served
<1>6. CASE proxy # "up"
  <2>1. /\ stale' /\ table' = {} /\ store' = [r \in Runs |-> None]
        /\ UNCHANGED <<mirror, handler>>
    BY <1>6 DEF EnsureProcess
  <2>2. mirror \subseteq Runs
    BY DEF Typed, TypeOK
  <2>3. Partly'
    BY <1>1, <1>2, <2>1, <2>2 DEF NoTasks, Partly
  <2> QED BY <1>3, <1>4, <2>1, <2>3 DEF MirrorRules, Served
<1> QED BY <1>5, <1>6

LEMMA ReadyKeeps ==
  ASSUME Typed, MirrorRules, ProxyReady
  PROVE  MirrorRules'
<1>0. op \in Ops /\ op # None /\ op.at = "ready" /\ op.wait = None /\ proxy = "up"
  BY DEF ProxyReady, Typed, TypeOK, Maybe, MirrorRules, CallRules
<1>1. NoTasks
  BY <1>0, Idle DEF MirrorRules
<1>2. CASE stale
  <2>1. /\ op' = [op EXCEPT !.at = "rehydrate", !.todo = Known] /\ mirror' = mirror
        /\ UNCHANGED <<overrides, stale, life, asked, proxy, table, store, handler>>
    BY <1>2 DEF ProxyReady
  <2>2. op'.at = "rehydrate" /\ op'.todo = Known /\ op'.req = op.req
    BY <1>0, <2>1, OpFields, OpParts
  <2>3. TaskRules' /\ CallRules'
    BY <1>1, <1>2, <2>1, <2>2 DEF NoTasks, TaskRules, CallRules, Known
  <2>4. FreshRules'
    BY <1>0, <2>1, <2>2 DEF MirrorRules, FreshRules, Fresh
  <2>5. \A r \in mirror : /\ Register(r) \in Known
                          /\ overrides[r] # None => Set(r, overrides[r]) \in Known
    BY DEF Known, Typed, TypeOK
  <2>6. Partly'
    BY <1>0, <1>1, <1>2, <2>1, <2>2, <2>5 DEF MirrorRules, Served, NoTasks, Partly
  <2> QED BY <1>2, <2>1, <2>3, <2>4, <2>6 DEF MirrorRules, Served
<1>3. CASE ~stale
  <2>1. table = mirror /\ \A r \in mirror : store[r] = overrides[r]
    BY <1>0, <1>3 DEF MirrorRules, Served, Wholly, Expected
  <2>2. stale' = FALSE
    BY <1>3 DEF ProxyReady, Typed, TypeOK
  <2> QED BY <1>0, <1>1, <1>3, <2>1, <2>2, OwnKeeps DEF ProxyReady, flowVars
<1> QED BY <1>2, <1>3

LEMMA SendKeeps ==
  ASSUME Typed, MirrorRules, op # None, op.wait = None, NEW req \in Requests, Send(req),
         \/ op.at = "rehydrate" /\ req \in op.todo
         \/ op.at = "own" /\ req = op.req
  PROVE  MirrorRules'
<1>1. PICK h \in Free : /\ handler' = [handler EXCEPT ![h] = Sent(req)]
                        /\ op' = [op EXCEPT !.wait = h]
  BY DEF Send
<1>2. /\ op \in Ops /\ h \in Handlers /\ handler \in [Handlers -> Maybe(Tasks)]
      /\ proxy = "up"
      /\ UNCHANGED <<mirror, overrides, stale, life, asked, proxy, table, store>>
  BY DEF Typed, TypeOK, Maybe, Free, Send, managerVars
<1>3. /\ op' \in Ops /\ op' # None /\ op'.wait = h
      /\ op'.at = op.at /\ op'.req = op.req /\ op'.todo = op.todo
  BY <1>1, <1>2, WaitParts
<1>4. NoTasks
  BY Idle DEF MirrorRules
<1>5. /\ handler'[h].req = req /\ handler'[h].at = "sent" /\ handler'[h].prev = {}
      /\ \A g \in Handlers : g # h => handler'[g] = None
  BY <1>1, <1>2, <1>4, TaskParts DEF NoTasks
<1>6. TaskRules'
  BY <1>2, <1>3, <1>5 DEF TaskRules
<1>7. CallRules' /\ FreshRules'
  BY <1>2, <1>3 DEF MirrorRules, CallRules, Known, FreshRules, Fresh
<1>8. ~Begun /\ ~Begun'
  BY <1>4, <1>5 DEF NoTasks, Begun
<1>9. Partly => Partly'
  BY <1>2, <1>3, <1>5 DEF Partly
<1>10. Wholly => Wholly'
  BY <1>2, <1>3, <1>5, <1>8 DEF Wholly, Expected
<1> QED BY <1>2, <1>6, <1>7, <1>9, <1>10 DEF MirrorRules, Served

LEMMA OpKeeps ==
  ASSUME Typed, MirrorRules, OpStep \/ EnsureFails
  PROVE  MirrorRules'
<1>0. op # None => op \in Ops
  BY DEF Typed, TypeOK, Maybe
<1>1. CASE Rehydrate
  <2>1. PICK req \in op.todo : Send(req)
    BY <1>1 DEF Rehydrate
  <2>2. op # None /\ op.at = "rehydrate" /\ op.wait = None /\ req \in Requests
    BY <1>0, <1>1, <2>1 DEF Rehydrate, Ops
  <2> QED BY <2>1, <2>2, SendKeeps
<1>2. CASE SendOwn
  <2>1. op # None /\ op.at = "own" /\ op.wait = None /\ op.req \in Requests
    BY <1>0, <1>2 DEF SendOwn, Typed, OwnIsRequest, Ops, Maybe
  <2> QED BY <1>2, <2>1, SendKeeps DEF SendOwn
<1>3. CASE Rehydrated
  <2>1. op # None /\ op.at = "rehydrate" /\ op.todo = {} /\ stale
    BY <1>3 DEF Rehydrated, MirrorRules, CallRules
  <2>2. NoTasks
    BY <2>1 DEF MirrorRules, TaskRules, NoTasks
  <2>3. proxy = "up" => table = mirror /\ \A r \in mirror : store[r] = overrides[r]
    BY <2>1 DEF MirrorRules, Served, Partly
  <2> QED BY <1>3, <2>1, <2>2, <2>3, OwnKeeps DEF Rehydrated, flowVars
<1>4. CASE RequestLost
  BY <1>4, FailKeeps DEF RequestLost
<1>5. CASE EnsureFails
  BY <1>5, FailKeeps DEF EnsureFails
<1> QED BY <1>1, <1>2, <1>3, <1>4, <1>5, EnsureKeeps, ReadyKeeps DEF OpStep

-----------------------------------------------------------------------------
(* The proxy's tasks keep the rules                                        *)

\* What is known of the task at work.
LEMMA TaskAtWork ==
  ASSUME Typed, MirrorRules, NEW h \in Handlers, handler[h] # None
  PROVE  /\ handler[h] \in Tasks /\ handler[h].req \in Requests
         /\ proxy = "up" /\ op \in Ops /\ op # None /\ op.wait = h
         /\ \A g \in Handlers : g # h => handler[g] = None
         /\ Begun <=> handler[h].at # "sent"
         /\ stale => /\ op.at = "rehydrate" /\ Partly
                     /\ handler[h].req \in op.todo /\ handler[h].req \in Known
         /\ ~stale => op.at = "own" /\ Wholly /\ handler[h].req = op.req
<1>1. /\ proxy = "up" /\ op # None /\ op.wait = h
      /\ \/ op.at = "rehydrate" /\ handler[h].req \in op.todo
         \/ op.at = "own" /\ handler[h].req = op.req
  BY DEF MirrorRules, TaskRules
<1>2. \A g \in Handlers : g # h => handler[g] = None
  BY <1>1 DEF MirrorRules, TaskRules
<1>3. Begun <=> handler[h].at # "sent"
  BY <1>2 DEF Begun
<1>4. handler[h] \in Tasks /\ handler[h].req \in Requests /\ op \in Ops
  BY <1>1 DEF Typed, TypeOK, Maybe, Tasks
<1>5. /\ op.at = "own" => ~stale
      /\ op.at = "rehydrate" => stale /\ op.todo \subseteq Known
  BY <1>1 DEF MirrorRules, CallRules
<1> QED BY <1>1, <1>2, <1>3, <1>4, <1>5 DEF MirrorRules, Served

\* A request that is refused or rolled back.
LEMMA RefusedKeeps ==
  ASSUME Typed, MirrorRules, NEW h \in Handlers, handler[h] # None, Answer(h, FALSE),
         table' = IF handler[h].at = "sent" THEN table ELSE handler[h].prev,
         UNCHANGED <<proxy, store>>
  PROVE  MirrorRules'
<1> DEFINE req == handler[h].req
<1>0. /\ proxy = "up" /\ op \in Ops /\ op # None /\ op.wait = h
      /\ \A g \in Handlers : g # h => handler[g] = None
      /\ Begun <=> handler[h].at # "sent"
      /\ stale => op.at = "rehydrate" /\ Partly
      /\ ~stale => op.at = "own" /\ Wholly /\ req = op.req
      /\ handler \in [Handlers -> Maybe(Tasks)] /\ req \in Requests
  BY TaskAtWork DEF Typed, TypeOK
<1>1. /\ op' = None /\ UNCHANGED <<overrides, stale, life, asked>>
      /\ handler' = [handler EXCEPT ![h] = None]
      /\ mirror' = IF op.at = "own" /\ op.req.kind = "register"
                   THEN mirror \ {op.req.run} ELSE mirror
  BY <1>0 DEF Answer, Fail
<1>2. \A g \in Handlers : handler'[g] = None
  BY <1>0, <1>1
<1>3. TaskRules' /\ CallRules'
  BY <1>1, <1>2 DEF TaskRules, CallRules
<1>4. FreshRules'
  BY <1>0, <1>1 DEF MirrorRules, FreshRules, Fresh
<1>5. CASE stale
  <2>1. mirror' = mirror /\ table' \subseteq mirror
    BY <1>0, <1>1, <1>5 DEF Partly
  <2>2. Partly'
    BY <1>0, <1>1, <1>2, <1>5, <2>1 DEF Partly
  <2> QED BY <1>1, <1>3, <1>4, <1>5, <2>2 DEF MirrorRules, Served
<1>6. CASE ~stale
  <2>1. table' = mirror'
    <3>1. CASE handler[h].at = "sent"
      BY <1>0, <1>1, <1>6, <3>1, RequestShapes DEF Wholly, Expected
    <3>2. CASE handler[h].at # "sent"
      <4>1. handler[h].prev = IF req.kind = "register" THEN mirror \ {req.run} ELSE mirror
        BY <1>0, <1>6, <3>2 DEF Wholly
      <4> QED BY <1>0, <1>1, <1>6, <3>2, <4>1
    <3> QED BY <3>1, <3>2
  <2>2. Wholly'
    BY <1>0, <1>1, <1>2, <1>6, <2>1 DEF Wholly, Expected
  <2> QED BY <1>1, <1>3, <1>4, <1>6, <2>2 DEF MirrorRules, Served
<1> QED BY <1>5, <1>6

\* What is acknowledged has been done: a binding was added before its probe, a
\* binding was removed before its probe or was not there, a snapshot is stored.
LEMMA AckKeeps ==
  ASSUME Typed, MirrorRules, NEW h \in Handlers, handler[h] # None, Answer(h, TRUE),
         handler[h].req.kind = "register" => handler[h].at # "sent",
         handler[h].req.kind = "deregister" =>
           handler[h].at # "sent" \/ handler[h].req.run \notin table,
         store' = IF handler[h].req.kind = "set"
                  THEN [store EXCEPT ![handler[h].req.run] = handler[h].req.to] ELSE store,
         handler[h].req.kind = "set" => handler[h].at = "sent",
         UNCHANGED <<proxy, table>>
  PROVE  MirrorRules'
<1> DEFINE req == handler[h].req
<1>0. /\ proxy = "up" /\ op \in Ops /\ op # None /\ op.wait = h
      /\ \A g \in Handlers : g # h => handler[g] = None
      /\ Begun <=> handler[h].at # "sent"
      /\ stale => op.at = "rehydrate" /\ Partly /\ req \in op.todo /\ req \in Known
      /\ ~stale => op.at = "own" /\ Wholly /\ req = op.req
      /\ req \in Requests
  BY TaskAtWork
<1>1. /\ handler \in [Handlers -> Maybe(Tasks)] /\ mirror \subseteq Runs
      /\ store \in [Runs -> Maybe(Snapshots)] /\ overrides \in [Runs -> Maybe(Snapshots)]
      /\ FreshRules
  BY DEF Typed, TypeOK, MirrorRules
<1>2. /\ req.run \in Runs /\ req.kind \in {"register", "deregister", "set"}
      /\ req.kind = "register" => req = Register(req.run)
      /\ req.kind = "set" => req.to \in Snapshots /\ req = Set(req.run, req.to)
  BY <1>0, RequestShapes
<1>3. handler' = [handler EXCEPT ![h] = None] /\ Acknowledged(req)
  BY <1>0 DEF Answer
<1>4. \A g \in Handlers : handler'[g] = None
  BY <1>0, <1>1, <1>3
<1>5. TaskRules'
  BY <1>4 DEF TaskRules
<1>6. CASE stale
  <2>1. /\ op' = [op EXCEPT !.todo = @ \ {req}, !.wait = None]
        /\ UNCHANGED <<mirror, overrides, stale, life, asked>>
    BY <1>0, <1>3, <1>6 DEF Acknowledged, managerVars
  <2>2. /\ op' \in Ops /\ op'.at = "rehydrate" /\ op'.todo = op.todo \ {req}
        /\ op'.req = op.req
    <3>1. op' = [op EXCEPT !.todo = @ \ {req}, !.wait = None]
      BY <2>1
    <3>2. op \in Ops /\ req \in Requests /\ op.at = "rehydrate"
      BY <1>0, <1>6
    <3> HIDE DEF req
    <3> QED BY <3>1, <3>2 DEF Ops, Maybe
  <2>3. CallRules'
    BY <1>0, <1>6, <2>1, <2>2 DEF MirrorRules, CallRules, Known
  <2>4. /\ req.kind \in {"register", "set"}
        /\ req.kind = "set" => req.to = overrides[req.run] /\ overrides[req.run] # None
    BY <1>0, <1>6, KnownShapes DEF Typed
  <2>5. \A r \in Runs : store'[r] = store[r] \/ (overrides[r] # None /\ store'[r] = overrides[r])
    BY <1>1, <1>2, <2>4
  <2>6. FreshRules'
    BY <1>0, <1>1, <2>1, <2>2, <2>5, <1>6 DEF FreshRules, Fresh
  <2>7. ASSUME NEW r \in mirror
        PROVE  /\ r \in table \/ Register(r) \in op'.todo
               /\ store'[r] = overrides[r] \/ Set(r, overrides[r]) \in op'.todo
    <3>1. /\ r \in table \/ Register(r) \in op.todo
          /\ store[r] = overrides[r] \/ Set(r, overrides[r]) \in op.todo
      BY <1>0, <1>6 DEF Partly
    <3>2. Register(r) = req => r \in table
      <4>1. Register(r).kind = "register" /\ Register(r).run = r
        BY <1>1, RequestShapes
      <4> QED BY <1>0, <1>6, <4>1 DEF Partly
    <3>3. Set(r, overrides[r]) = req => store'[r] = overrides[r]
      <4>1. Set(r, overrides[r]).kind = "set" /\ Set(r, overrides[r]).run = r
        BY DEF Set
      <4> QED BY <1>1, <1>2, <2>4, <4>1
    <3>4. store[r] = overrides[r] => store'[r] = overrides[r]
      BY <1>1, <2>5
    <3> QED BY <2>2, <3>1, <3>2, <3>3, <3>4
  <2>8. Partly'
    BY <1>0, <1>1, <1>4, <1>6, <2>1, <2>5, <2>7 DEF Partly
  <2> QED BY <1>5, <1>6, <2>1, <2>3, <2>6, <2>8 DEF MirrorRules, Served
<1>7. CASE ~stale
  <2>1. /\ op' = None /\ UNCHANGED <<stale, life, asked>>
        /\ mirror' = IF req.kind = "deregister" THEN mirror \ {req.run} ELSE mirror
        /\ overrides' = CASE req.kind = "deregister" -> [overrides EXCEPT ![req.run] = None]
                          [] req.kind = "set" -> [overrides EXCEPT ![req.run] = req.to]
                          [] OTHER -> overrides
    BY <1>0, <1>3, <1>7 DEF Acknowledged
  <2>2. CallRules'
    BY <2>1 DEF CallRules
  <2>3. FreshRules'
    <3>1. \A r \in Runs : Fresh(r)' => Fresh(r)
      BY <2>1 DEF Fresh
    <3>2. req.kind = "set" => ~Fresh(req.run)
      BY <1>0, <1>1, <1>2, <1>7 DEF FreshRules
    <3>3. \A r \in Runs : Fresh(r) => overrides'[r] = None /\ store'[r] = None
      BY <1>1, <1>2, <2>1, <3>2 DEF FreshRules
    <3> QED BY <1>1, <2>1, <3>1, <3>3 DEF FreshRules
  <2>4. table' = mirror'
    BY <1>0, <1>2, <1>7, <2>1 DEF Wholly, Expected
  <2>5. \A r \in mirror' : store'[r] = overrides'[r]
    BY <1>0, <1>1, <1>2, <1>7, <2>1 DEF Wholly
  <2>6. Wholly'
    BY <1>4, <2>1, <2>4, <2>5 DEF Wholly, Expected
  <2> QED BY <1>5, <1>7, <2>1, <2>2, <2>3, <2>6 DEF MirrorRules, Served
<1> QED BY <1>6, <1>7

\* A task changes the table and goes on to probe the port.
LEMMA ProbingKeeps ==
  ASSUME Typed, MirrorRules, NEW h \in Handlers, handler[h] # None, handler[h].at = "sent",
         handler' = [handler EXCEPT ![h] = Probing(handler[h])],
         \/ /\ handler[h].req.kind = "register"
            /\ table' = table \cup {handler[h].req.run}
         \/ /\ handler[h].req.kind = "deregister"
            /\ table' = table \ {handler[h].req.run},
         UNCHANGED <<op, mirror, overrides, stale, life, asked, proxy, store>>
  PROVE  MirrorRules'
<1> DEFINE req == handler[h].req
<1>0. /\ handler[h] \in Tasks
      /\ proxy = "up" /\ op \in Ops /\ op # None /\ op.wait = h
      /\ \A g \in Handlers : g # h => handler[g] = None
      /\ ~Begun
      /\ stale => op.at = "rehydrate" /\ Partly /\ req \in op.todo /\ req \in Known
      /\ ~stale => op.at = "own" /\ Wholly /\ req = op.req
      /\ handler \in [Handlers -> Maybe(Tasks)]
  BY TaskAtWork DEF Typed, TypeOK
<1>1. /\ handler'[h].req = req /\ handler'[h].at = "probe" /\ handler'[h].prev = table
      /\ \A g \in Handlers : g # h => handler'[g] = None
  BY <1>0, TaskParts
<1>2. TaskRules'
  BY <1>0, <1>1 DEF TaskRules
<1>3. CallRules' /\ FreshRules'
  BY DEF MirrorRules, CallRules, Known, FreshRules, Fresh
<1>4. handler'[h] # None
  BY <1>0, TaskTypes, NoneIsNoValue DEF NoneIsNoValue, Typed
<1>5. Begun'
  BY <1>1, <1>4 DEF Begun
<1>6. CASE stale
  <2>1. req.kind = "register" /\ req.run \in mirror
    BY <1>0, <1>6, KnownShapes DEF Typed
  <2>2. Partly'
    BY <1>0, <1>1, <1>6, <2>1 DEF Partly
  <2> QED BY <1>2, <1>3, <1>6, <2>2 DEF MirrorRules, Served
<1>7. CASE ~stale
  <2>1. table = IF req.kind = "register" THEN mirror \ {req.run} ELSE mirror
    BY <1>0, <1>7 DEF Wholly, Expected
  <2>2. req.kind = "register" => req.run \in mirror
    BY <1>0, <1>7 DEF MirrorRules, CallRules
  <2>3. table' = Expected'
    BY <1>0, <1>5, <1>7, <2>1, <2>2 DEF Expected
  <2>4. Wholly'
    BY <1>0, <1>1, <1>7, <2>1, <2>3 DEF Wholly
  <2> QED BY <1>2, <1>3, <1>7, <2>4 DEF MirrorRules, Served
<1> QED BY <1>6, <1>7

LEMMA BeginKeeps ==
  ASSUME Typed, MirrorRules, NEW h \in Handlers, Begin(h)
  PROVE  MirrorRules'
<1> DEFINE req == handler[h].req
<1>1. handler[h] # None /\ handler[h].at = "sent" /\ UNCHANGED proxy
  BY DEF Begin, Task
<1>2. CASE /\ handler' = [handler EXCEPT ![h] = Probing(handler[h])]
           /\ \/ req.kind = "register" /\ table' = table \cup {req.run}
              \/ req.kind = "deregister" /\ table' = table \ {req.run}
           /\ UNCHANGED <<op, managerVars, store>>
  BY <1>1, <1>2, ProbingKeeps DEF managerVars
<1>3. CASE req.kind = "register" /\ Answer(h, FALSE) /\ UNCHANGED <<table, store>>
  BY <1>1, <1>3, RefusedKeeps
<1>4. CASE /\ req.kind = "deregister" /\ req.run \notin table
           /\ Answer(h, TRUE) /\ UNCHANGED <<table, store>>
  BY <1>1, <1>4, AckKeeps
<1>5. CASE /\ req.kind = "set" /\ store' = [store EXCEPT ![req.run] = req.to]
           /\ Answer(h, TRUE) /\ UNCHANGED table
  BY <1>1, <1>5, AckKeeps
<1> QED BY <1>2, <1>3, <1>4, <1>5 DEF Begin

LEMMA RegisteringKeeps ==
  ASSUME Typed, MirrorRules, NEW h \in Handlers, handler[h] # None, handler[h].at # "sent",
         handler[h].req.kind = "register",
         handler' = [handler EXCEPT ![h] = Registering(handler[h])],
         UNCHANGED <<op, mirror, overrides, stale, life, asked, proxy, table, store>>
  PROVE  MirrorRules'
<1>0. /\ handler[h] \in Tasks
      /\ \A g \in Handlers : g # h => handler[g] = None
      /\ Begun
      /\ handler \in [Handlers -> Maybe(Tasks)]
  BY TaskAtWork DEF Typed, TypeOK
<1>1. /\ handler'[h].req = handler[h].req /\ handler'[h].at = "core"
      /\ handler'[h].prev = handler[h].prev
      /\ \A g \in Handlers : g # h => handler'[g] = None
  BY <1>0, TaskParts
<1>2. handler'[h] # None
  BY <1>0, TaskTypes, NoneIsNoValue DEF NoneIsNoValue, Typed
<1>3. TaskRules'
  BY <1>1 DEF MirrorRules, TaskRules
<1>4. CallRules' /\ FreshRules'
  BY DEF MirrorRules, CallRules, Known, FreshRules, Fresh
<1>5. Begun'
  BY <1>1, <1>2 DEF Begun
<1>6. Partly => Partly'
  BY <1>1 DEF Partly
<1>7. Wholly => Wholly'
  BY <1>0, <1>1, <1>5 DEF Wholly, Expected
<1> QED BY <1>3, <1>4, <1>6, <1>7 DEF MirrorRules, Served

LEMMA TasksKeep ==
  ASSUME Typed, MirrorRules, NEW h \in Handlers, TaskStep(h) \/ RollBack(h)
  PROVE  MirrorRules'
<1>1. CASE Begin(h)
  BY <1>1, BeginKeeps
<1>2. CASE Probed(h)
  <2>1. /\ handler[h] # None /\ handler[h].at = "probe"
        /\ UNCHANGED <<proxy, table, store>>
    BY <1>2 DEF Probed, Task
  <2>2. CASE handler[h].req.kind = "register"
    BY <1>2, <2>1, <2>2, RegisteringKeeps DEF Probed, managerVars
  <2>3. CASE handler[h].req.kind # "register"
    <3>1. Answer(h, TRUE) /\ handler[h].req.kind # "set"
      BY <1>2, <2>1, <2>3 DEF Probed, MirrorRules, TaskRules
    <3> QED BY <2>1, <2>3, <3>1, AckKeeps
  <2> QED BY <2>2, <2>3
<1>3. CASE Registered(h)
  <2>1. /\ handler[h] # None /\ handler[h].at = "core" /\ Answer(h, TRUE)
        /\ UNCHANGED <<proxy, table, store>>
    BY <1>3 DEF Registered, Task
  <2>2. handler[h].req.kind = "register"
    BY <2>1 DEF MirrorRules, TaskRules
  <2> QED BY <2>1, <2>2, AckKeeps
<1>4. CASE RollBack(h)
  <2>1. /\ handler[h] # None /\ handler[h].at # "sent" /\ Answer(h, FALSE)
        /\ table' = handler[h].prev /\ UNCHANGED <<proxy, store>>
    BY <1>4 DEF RollBack, Task
  <2> QED BY <2>1, RefusedKeeps
<1> QED BY <1>1, <1>2, <1>3, <1>4 DEF TaskStep

LEMMA CrashKeeps ==
  ASSUME Typed, MirrorRules, Crash
  PROVE  MirrorRules'
<1>1. /\ proxy' = "down" /\ \A h \in Handlers : handler'[h] = None
      /\ UNCHANGED <<mirror, overrides, stale, op, life, asked, store>>
  BY DEF Crash, managerVars
<1>2. TaskRules' /\ CallRules' /\ FreshRules'
  BY <1>1 DEF MirrorRules, TaskRules, CallRules, Known, FreshRules, Fresh
<1> QED BY <1>1, <1>2 DEF MirrorRules, Served

LEMMA MirrorStep == Late = {} /\ Typed /\ MirrorRules /\ [Next]_vars => MirrorRules'
<1> SUFFICES ASSUME Late = {}, Typed, MirrorRules, [Next]_vars PROVE MirrorRules'
  OBVIOUS
<1>1. CASE \/ \E f \in Flows : FlowOpens(f) \/ FlowGoesOn(f) \/ FlowKilled(f)
           \/ UNCHANGED vars
  BY <1>1, MirrorFrame DEF FlowOpens, FlowGoesOn, FlowKilled, managerVars, vars
<1>2. ASSUME Next PROVE \/ OpStep \/ EnsureFails \/ Crash
                        \/ \E h \in Handlers : TaskStep(h) \/ RollBack(h)
                        \/ \E f \in Flows : FlowOpens(f) \/ FlowGoesOn(f) \/ FlowKilled(f)
                        \/ \E r \in Runs : \/ CallRegister(r) \/ CallDeregister(r)
                                           \/ \E s \in Snapshots : AskSet(r, s)
                        \/ \E req \in asked : CallSet(req)
                        \/ Supervise
  BY <1>2 DEF Next
<1> QED BY <1>1, <1>2, CallsKeep, OpKeeps, TasksKeep, CrashKeeps

LEMMA RulesMeanServed == MirrorRules => MirrorIsServed
<1> SUFFICES ASSUME MirrorRules, Quiet
             PROVE  table = mirror /\ \A r \in mirror : store[r] = overrides[r]
  BY DEF MirrorIsServed
<1> QED BY DEF Quiet, MirrorRules, Served, Wholly, Expected

\* As long as the proxy answers in time, whatever fails and whenever it crashes:
\* a proxy at rest serves the runs the API believes in, with their overrides.
THEOREM MirrorTheorem ==
  ASSUME Late = {}
  PROVE  Spec => []MirrorIsServed
<1>1. Init => Typed /\ MirrorRules
  BY TypedInit, MirrorInit
<1>2. Typed /\ MirrorRules /\ [Next]_vars => Typed' /\ MirrorRules'
  BY TypedStep, MirrorStep
<1>3. Spec => []MirrorRules
  BY <1>1, <1>2, PTL DEF Spec
<1> QED BY <1>3, RulesMeanServed, PTL
=============================================================================
