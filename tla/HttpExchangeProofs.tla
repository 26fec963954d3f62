------------------------- MODULE HttpExchangeProofs -------------------------
(***************************************************************************)
(* Proofs about HttpExchange and the store it works on: every operation on *)
(* an exchange is all or nothing, and a flow leaves the one record it      *)
(* should, for any flows, failing writes, crashes and visits.              *)
(***************************************************************************)
EXTENDS HttpExchange, TLAPS

\* An operation under way, by what it does and where it is.
Persisting(e) == op[e] # None /\ op[e].do = "persist"
Deleting(e) == op[e] # None /\ op[e].do = "delete"
OpAt(e, steps) == op[e] # None /\ op[e].step \in steps

Swapped == {"index", "rewrite", "clean", "undo"}
Staged == {"unlist", "remove"}
Held == {"rewrite"} \cup Staged

\* One operation at a time holds the lock, an undo follows a failure, and nothing
\* has come from another process that never visited.
StoreInv ==
  /\ \A e \in Exchanges : OpAt(e, Held) => lock = e
  /\ \A e \in Exchanges : OpAt(e, {"undo"}) => faults > 0
  /\ visits = 0 => touched = {} /\ rows = None

\* What is set aside belongs to the operation under way, or is the staged directory
\* of a delete that a crash broke off.
SetAside(e) ==
  /\ bak[e] # None => Persisting(e) /\ op[e].step \in Swapped
  /\ del[e] # None => \/ Deleting(e) /\ op[e].step \in Staged
                      \/ lock = None /\ stale /\ op[e] = None /\ flow[e[1]] = "gone"

\* Where the versions of e are at each step of an operation.
Whole(e) == e \notin touched =>
  /\ op[e] = None => Recovered(e) = kept[e]
  /\ Persisting(e) /\ op[e].step \in {"write", "activate"} => live[e] = kept[e] /\ tmp[e]
  /\ Persisting(e) /\ op[e].step \in Swapped =>
       live[e] = op[e].version /\ bak[e] = kept[e] /\ (op[e].backed <=> kept[e] # None)
  /\ Deleting(e) /\ op[e].step = "stage" => live[e] = kept[e] /\ (op[e].found <=> kept[e] # None)
  /\ Deleting(e) /\ op[e].step \in Staged => live[e] = None /\ del[e] = kept[e]

\* The cache, once this process has built it, lists what is kept.
Built == ~stale \/ lock # None
Listed(e) == e \notin touched =>
  /\ Built /\ kept[e] # None /\ ~(Deleting(e) /\ op[e].step \in Staged) => cache[e] # None
  /\ OpAt(e, {"rewrite", "unlist"}) /\ kept[e] # None => op[e].before # None
  /\ Built /\ OpAt(e, {"rewrite", "clean"}) => cache[e] # None

\* Without a crash or a visit the rows on disk are those of the cache, but for the
\* one being changed, and describe what is kept.
Calm == crashes = 0 /\ visits = 0
Exact(e) == Calm =>
  /\ stale => index[e] = None /\ cache[e] = None /\ kept[e] = None /\ lock = None
  /\ ~stale /\ lock # e => index[e] = cache[e]
  /\ ~stale /\ lock # e /\ kept[e] # None /\ ~OpAt(e, {"clean"}) => cache[e] = kept[e]
  /\ OpAt(e, {"rewrite", "unlist"}) =>
       index[e] = op[e].before /\ (kept[e] # None => op[e].before = kept[e])
  /\ OpAt(e, {"remove"}) => index[e] = cache[e]
  /\ OpAt(e, {"rewrite", "clean"}) => cache[e] = op[e].version /\ ~stale

ExchangeInv(e) == SetAside(e) /\ Whole(e) /\ Listed(e) /\ Exact(e)

\* A write failed, or a visit met an exchange of f being changed.
Excused(f) == faults > 0 \/ First(f) \in touched \/ Again(f) \in touched

\* The write of v over old: under way, done, or failed.
Written(f, e, v, old) ==
  \/ Persisting(e) /\ op[e].version = v /\ kept[e] = old
  \/ op[e] = None /\ result[e] = "ok" /\ kept[e] = v
  \/ op[e] = None /\ result[e] = "failed" /\ kept[e] = old /\ Excused(f)
Unstored(f, e) ==
  \/ Deleting(e) /\ kept[e] = Provisional
  \/ op[e] = None /\ result[e] = "ok" /\ kept[e] = None
  \/ op[e] = None /\ result[e] = "failed" /\ kept[e] = Provisional /\ Excused(f)

\* The browsers were told of e exactly when it is kept.
Shows(e) == e \in shown <=> kept[e] # None
Idle(e) == op[e] = None /\ Shows(e)

\* Where a flow is tells what became of its two exchanges.
FlowInv(f) ==
  /\ At(f, "new") => /\ ~prov[f] /\ Idle(First(f)) /\ kept[First(f)] = None
                     /\ First(f) \notin touched /\ Again(f) \notin touched
  /\ At(f, "request") => /\ ~prov[f] /\ First(f) \notin shown
                         /\ Written(f, First(f), Provisional, None)
  /\ flow[f] \in {"sent", "dropped", "finding"} =>
       /\ Idle(First(f))
       /\ prov[f] => kept[First(f)] = Provisional
       /\ ~prov[f] => kept[First(f)] = None /\ Excused(f)
  /\ At(f, "finding") => prov[f] /\ (First(f) \notin touched => cache[First(f)] # None)
  /\ At(f, "finalizing") => First(f) \in shown /\ Written(f, First(f), Final, Provisional)
  /\ At(f, "deleting") => prov[f] /\ First(f) \in shown /\ Unstored(f, First(f))
  /\ flow[f] \notin {"afresh", "recorded", "unrecorded", "discarded", "gone"} =>
       Idle(Again(f)) /\ kept[Again(f)] = None
  /\ At(f, "afresh") => /\ Idle(First(f)) /\ Again(f) \notin shown /\ Excused(f)
                        /\ Written(f, Again(f), Final, None)
  /\ flow[f] \in {"recorded", "unrecorded", "discarded"} => Idle(First(f)) /\ Idle(Again(f))
  /\ At(f, "recorded") => Excused(f) \/ (kept[First(f)] = Final /\ kept[Again(f)] = None)
  /\ At(f, "discarded") => Excused(f) \/ (kept[First(f)] = None /\ kept[Again(f)] = None)
  /\ At(f, "gone") => crashes > 0 /\ op[First(f)] = None /\ op[Again(f)] = None

Inv ==
  /\ TypeOK /\ StoreInv
  /\ \A e \in Exchanges : ExchangeInv(e)
  /\ \A f \in Flows : FlowInv(f)

-----------------------------------------------------------------------------
(* Types                                                                   *)

LEMMA OpKinds ==
  ASSUME StoreTypeOK, NEW e \in Exchanges, op[e] # None
  PROVE  /\ op[e] \in Operations
         /\ op[e].do = "persist" => op[e] \in PersistOps
         /\ op[e].do = "delete" /\ op[e].step = "stage" => op[e] \in DeleteOps
         /\ op[e].do = "delete" /\ op[e].step # "stage" => op[e] \in RemoveOps
<1>1. op[e] \in Operations
  BY DEF StoreTypeOK, Maybe
<1>2. op[e].do = "persist" => op[e] \in PersistOps
  BY <1>1 DEF Operations, PersistOps, DeleteOps, RemoveOps
<1>3. op[e].do = "delete" /\ op[e].step = "stage" => op[e] \in DeleteOps
  BY <1>1 DEF Operations, PersistOps, DeleteOps, RemoveOps
<1>4. op[e].do = "delete" /\ op[e].step # "stage" => op[e] \in RemoveOps
  BY <1>1 DEF Operations, PersistOps, DeleteOps, RemoveOps
<1> QED BY <1>1, <1>2, <1>3, <1>4

\* An operation on e goes on, and the others are where they were.
LEMMA AdvanceFacts ==
  ASSUME StoreTypeOK, NEW e \in Exchanges, op[e] # None, NEW step, Advance(e, step),
         \/ op[e].do = "persist" /\ step \in PersistSteps
         \/ op[e].do = "delete" /\ op[e].step # "stage" /\ step \in {"unlist", "remove"}
  PROVE  /\ op' \in [Exchanges -> Maybe(Operations)]
         /\ op'[e] = [op[e] EXCEPT !.step = step] /\ op'[e] # None
         /\ op'[e].do = op[e].do /\ op'[e].step = step
         /\ op[e].do = "persist" => op'[e].version = op[e].version /\ op'[e].backed = op[e].backed
         /\ op'[e].before = op[e].before
         /\ \A x \in Exchanges \ {e} : op'[x] = op[x]
<1> DEFINE o == [op[e] EXCEPT !.step = step]
<1>1. op \in [Exchanges -> Maybe(Operations)] /\ op' = [op EXCEPT ![e] = o]
  BY DEF StoreTypeOK, Advance
<1>2. CASE op[e] \in PersistOps /\ step \in PersistSteps
  <2>1. o \in PersistOps /\ o.do = op[e].do /\ o.step = step /\ o.version = op[e].version
        /\ o.backed = op[e].backed /\ o.before = op[e].before
    BY <1>2 DEF PersistOps
  <2>2. o \in Operations /\ o # None
    BY <2>1, StoreConstants DEF Operations
  <2> QED BY <1>1, <2>1, <2>2 DEF Maybe
<1>3. CASE op[e] \in RemoveOps /\ step \in {"unlist", "remove"} /\ op[e].do = "delete"
  <2>1. o \in RemoveOps /\ o.do = op[e].do /\ o.step = step /\ o.before = op[e].before
    BY <1>3 DEF RemoveOps
  <2>2. o \in Operations /\ o # None
    BY <2>1, StoreConstants DEF Operations
  <2> QED BY <1>1, <1>3, <2>1, <2>2 DEF Maybe
<1> QED BY <1>2, <1>3, OpKinds

\* The operation on e becomes o.
LEMMA ReplaceFacts ==
  ASSUME StoreTypeOK, NEW e \in Exchanges, NEW o \in Operations, op' = [op EXCEPT ![e] = o]
  PROVE  /\ op' \in [Exchanges -> Maybe(Operations)]
         /\ op'[e] = o /\ op'[e] # None
         /\ \A x \in Exchanges \ {e} : op'[x] = op[x]
BY StoreConstants DEF StoreTypeOK, Maybe

\* What the swap, the row and the staging make of an operation.
LEMMA SwapFacts ==
  ASSUME StoreTypeOK, NEW e \in Exchanges, Persisting(e), NEW b \in BOOLEAN,
         op' = [op EXCEPT ![e].step = "index", ![e].backed = b]
  PROVE  /\ op' \in [Exchanges -> Maybe(Operations)]
         /\ op'[e] # None /\ op'[e].do = "persist" /\ op'[e].step = "index"
         /\ op'[e].version = op[e].version /\ op'[e].backed = b
         /\ \A x \in Exchanges \ {e} : op'[x] = op[x]
<1> DEFINE o == [op[e] EXCEPT !.step = "index", !.backed = b]
<1>1. op[e] \in PersistOps
  BY OpKinds DEF Persisting
<1>2. /\ o \in PersistOps /\ o.do = "persist" /\ o.step = "index"
      /\ o.version = op[e].version /\ o.backed = b
  BY <1>1 DEF PersistOps, PersistSteps
<1>3. op' = [op EXCEPT ![e] = o]
  BY DEF StoreTypeOK
<1>4. o \in Operations
  BY <1>2 DEF Operations
<1> HIDE DEF o
<1> QED BY <1>2, <1>3, <1>4, ReplaceFacts

LEMMA EnterFacts ==
  ASSUME StoreTypeOK, NEW e \in Exchanges, Persisting(e), NEW old \in Maybe(Versions),
         op' = [op EXCEPT ![e].step = "rewrite", ![e].before = old]
  PROVE  /\ op' \in [Exchanges -> Maybe(Operations)]
         /\ op'[e] # None /\ op'[e].do = "persist" /\ op'[e].step = "rewrite"
         /\ op'[e].version = op[e].version /\ op'[e].backed = op[e].backed /\ op'[e].before = old
         /\ \A x \in Exchanges \ {e} : op'[x] = op[x]
<1> DEFINE o == [op[e] EXCEPT !.step = "rewrite", !.before = old]
<1>1. op[e] \in PersistOps
  BY OpKinds DEF Persisting
<1>2. /\ o \in PersistOps /\ o.do = "persist" /\ o.step = "rewrite"
      /\ o.version = op[e].version /\ o.backed = op[e].backed /\ o.before = old
  BY <1>1 DEF PersistOps, PersistSteps
<1>3. op' = [op EXCEPT ![e] = o]
  BY DEF StoreTypeOK
<1>4. o \in Operations
  BY <1>2 DEF Operations
<1> HIDE DEF o
<1> QED BY <1>2, <1>3, <1>4, ReplaceFacts

LEMMA StageFacts ==
  ASSUME StoreTypeOK, NEW e \in Exchanges, Stage(e)
  PROVE  /\ op' \in [Exchanges -> Maybe(Operations)]
         /\ op'[e] # None /\ op'[e].do = "delete" /\ op'[e].before = Entries[e]
         /\ op'[e].step = IF Entries[e] # None THEN "unlist" ELSE "remove"
         /\ \A x \in Exchanges \ {e} : op'[x] = op[x]
<1> DEFINE o == [do |-> "delete", found |-> op[e].found, before |-> Entries[e],
                 step |-> IF Entries[e] # None THEN "unlist" ELSE "remove"]
<1>1. op[e] \in DeleteOps
  BY OpKinds DEF Stage, Busy
<1>2. Entries[e] \in Maybe(Versions)
  BY DEF StoreTypeOK, Entries, Recognised, Maybe
<1>3. o \in RemoveOps
  BY <1>1, <1>2 DEF RemoveOps, DeleteOps
<1>4. op' = [op EXCEPT ![e] = o] /\ o \in Operations
  BY <1>3 DEF Stage, Operations
<1>5. /\ o.do = "delete" /\ o.before = Entries[e]
      /\ o.step = IF Entries[e] # None THEN "unlist" ELSE "remove"
  OBVIOUS
<1> HIDE DEF o
<1> QED BY <1>4, <1>5, ReplaceFacts

\* What a rebuilt cache is made of.
LEMMA RebuiltTyped ==
  ASSUME StoreTypeOK, NEW list \in [Exchanges -> Maybe(Versions)]
  PROVE  /\ Reclaimed(list) \in [Exchanges -> Maybe(Versions)]
         /\ Recognised(list) \in [Exchanges -> Maybe(Versions)]
         /\ Nothing \in [Exchanges -> Maybe(Versions)]
         /\ Entries \in [Exchanges -> Maybe(Versions)]
BY DEF StoreTypeOK, Maybe, Reclaimed, Recognised, Nothing, Entries

\* The rebuild, exchange by exchange.
LEMMA EnsureFacts ==
  ASSUME StoreTypeOK, Ensure
  PROVE  /\ live' = IF stale THEN Reclaimed(index) ELSE live
         /\ del' = IF stale THEN Nothing ELSE del
         /\ index' = IF stale THEN Recognised(index) ELSE index
         /\ live' \in [Exchanges -> Maybe(Versions)]
         /\ del' \in [Exchanges -> Maybe(Versions)]
         /\ index' \in [Exchanges -> Maybe(Versions)]
<1>1. index \in [Exchanges -> Maybe(Versions)]
  BY DEF StoreTypeOK
<1>2. /\ live' = IF stale THEN Reclaimed(index) ELSE live
      /\ del' = IF stale THEN Nothing ELSE del
      /\ index' = IF stale THEN Recognised(index) ELSE index
  BY DEF Ensure, Reconcile
<1> QED BY <1>1, <1>2, RebuiltTyped DEF StoreTypeOK

\* A mishap is counted within its bound.
LEMMA MishapFacts ==
  ASSUME StoreTypeOK
  PROVE  /\ faults \in 0..MaxMishaps /\ crashes \in 0..MaxMishaps /\ visits \in 0..MaxMishaps
         /\ Mishap => /\ faults + 1 \in 0..MaxMishaps /\ crashes + 1 \in 0..MaxMishaps
                      /\ visits + 1 \in 0..MaxMishaps
<1>1. faults \in 0..MaxMishaps /\ crashes \in 0..MaxMishaps /\ visits \in 0..MaxMishaps
  BY DEF StoreTypeOK
<1>2. Mishap => faults + crashes + visits < MaxMishaps
  BY DEF Mishap
<1> QED BY <1>1, <1>2, StoreConstants

LEMMA StepTyped ==
  ASSUME StoreTypeOK, NEW e \in Exchanges, StoreStep(e)
  PROVE  StoreTypeOK'
<1> USE DEF StoreTypeOK, Maybe, Busy, Advance, Finish, MayFail, Mishap, disk, memory, visitor
<1>0. /\ op[e] # None
      /\ op[e].do = "persist" => op[e] \in PersistOps
      /\ op[e].do = "delete" /\ op[e].step = "stage" => op[e] \in DeleteOps
      /\ op[e].do = "delete" /\ op[e].step # "stage" => op[e] \in RemoveOps
      /\ Entries \in [Exchanges -> Maybe(Versions)]
      /\ Ensure => /\ live' \in [Exchanges -> Maybe(Versions)]
                   /\ del' \in [Exchanges -> Maybe(Versions)]
                   /\ index' \in [Exchanges -> Maybe(Versions)]
      /\ Reclaimed(index) \in [Exchanges -> Maybe(Versions)]
      /\ Recognised(index) \in [Exchanges -> Maybe(Versions)]
      /\ Nothing \in [Exchanges -> Maybe(Versions)]
  <2>1. op[e] # None
    BY DEF StoreStep, FilesWritten, Activate, ActivateFails, EnterRow, RewriteRow, Clean, Undo,
           Stage, Unlist, Remove
  <2> QED BY <2>1, OpKinds, EnsureFacts, RebuiltTyped
<1>1. CASE FilesWritten(e)
  <2>1. tmp' \in [Exchanges -> BOOLEAN] /\ faults' \in 0..MaxMishaps
    BY <1>1, MishapFacts DEF FilesWritten
  <2>2. /\ op' \in [Exchanges -> Maybe(Operations)]
        /\ \A x \in Exchanges \ {e} : op'[x] = op[x]
    <3>1. CASE Advance(e, "activate")
      BY <1>0, <1>1, <3>1, AdvanceFacts DEF FilesWritten, PersistSteps
    <3>2. CASE Finish(e, "failed")
      BY <3>2
    <3> QED BY <1>1, <3>1, <3>2 DEF FilesWritten
  <2>3. result' \in [Exchanges -> {None, "ok", "failed"}]
    BY <1>1 DEF FilesWritten
  <2>4. lock # e
    <3>1. op[e].step = "write" /\ op[e] # None
      BY <1>1 DEF FilesWritten
    <3> QED BY <3>1, StoreConstants
  <2> QED BY <1>1, <2>1, <2>2, <2>3, <2>4 DEF FilesWritten
<1>2. CASE Activate(e)
  <2>1. /\ op' \in [Exchanges -> Maybe(Operations)]
        /\ \A x \in Exchanges \ {e} : op'[x] = op[x]
    BY <1>2, SwapFacts DEF Activate, Persisting
  <2>2. op[e].version \in Versions /\ lock # e
    <3>1. op[e] \in PersistOps /\ op[e].step = "activate"
      BY <1>0, <1>2 DEF Activate
    <3> QED BY <3>1, StoreConstants DEF PersistOps
  <2> QED BY <1>2, <2>1, <2>2 DEF Activate
<1>3. CASE ActivateFails(e)
  BY <1>0, <1>3, StoreConstants DEF ActivateFails
<1>4. CASE EnterRow(e)
  <2>1. CASE lock' = e
    <3>1. Entries[e] \in Versions \cup {None} /\ op[e].version \in Versions
      BY <1>0, <1>4 DEF EnterRow, PersistOps
    <3>2. op' = [op EXCEPT ![e].step = "rewrite", ![e].before = Entries[e]] /\ Ensure
      BY <1>4, <2>1, StoreConstants DEF EnterRow
    <3>3. /\ op' \in [Exchanges -> Maybe(Operations)]
          /\ op'[e] # None /\ op'[e].step = "rewrite"
      BY <1>4, <3>1, <3>2, EnterFacts DEF EnterRow, Persisting
    <3>4. cache' = [Entries EXCEPT ![e] = op[e].version] /\ stale' = FALSE /\ faults' = faults
      BY <1>4, <2>1, StoreConstants DEF EnterRow
    <3> QED BY <1>0, <1>4, <2>1, <3>1, <3>2, <3>3, <3>4 DEF EnterRow
  <2>2. CASE lock' = None
    <3>1. Advance(e, "undo") /\ UNCHANGED <<live, del, index, cache, stale, lock>> /\ MayFail
      BY <1>4, <2>2, StoreConstants DEF EnterRow
    <3>2. op' \in [Exchanges -> Maybe(Operations)]
      BY <1>0, <1>4, <3>1, AdvanceFacts DEF EnterRow, PersistSteps
    <3> QED BY <1>4, <3>1, <3>2, StoreConstants DEF EnterRow
  <2> QED BY <1>4, <2>1, <2>2 DEF EnterRow
<1>5. CASE RewriteRow(e)
  <2>1. op' \in [Exchanges -> Maybe(Operations)]
    BY <1>0, <1>5, AdvanceFacts DEF RewriteRow, PersistSteps
  <2>2. op[e].before \in Versions \cup {None}
    BY <1>0, <1>5 DEF RewriteRow, PersistOps
  <2>3. cache' \in [Exchanges -> Maybe(Versions)] /\ index' \in [Exchanges -> Maybe(Versions)]
        /\ stale' \in BOOLEAN /\ faults' \in 0..MaxMishaps /\ lock' = None
    BY <1>5, <2>2, MishapFacts DEF RewriteRow
  <2> QED BY <1>5, <2>1, <2>3 DEF RewriteRow
<1>6. CASE Clean(e)
  BY <1>0, <1>6, StoreConstants DEF Clean, PersistOps, Operations
<1>7. CASE Undo(e)
  BY <1>0, <1>7, StoreConstants DEF Undo
<1>8. CASE Stage(e)
  <2>1. /\ op' \in [Exchanges -> Maybe(Operations)]
        /\ op'[e] # None /\ op'[e].step \in {"unlist", "remove"}
    BY <1>8, StageFacts
  <2>2. live' \in [Exchanges -> Maybe(Versions)] /\ del' \in [Exchanges -> Maybe(Versions)]
    BY <1>0, <1>8 DEF Stage
  <2>3. index' \in [Exchanges -> Maybe(Versions)] /\ cache' \in [Exchanges -> Maybe(Versions)]
    BY <1>0, <1>8 DEF Stage
  <2> QED BY <1>8, <2>1, <2>2, <2>3 DEF Stage
<1>9. CASE Unlist(e)
  <2>1. CASE Advance(e, "remove") /\ index' = cache /\ stale' = FALSE
             /\ UNCHANGED <<live, del, cache, lock, result, faults>>
    <3>1. op' \in [Exchanges -> Maybe(Operations)] /\ op'[e] # None /\ op'[e].step = "remove"
          /\ \A x \in Exchanges \ {e} : op'[x] = op[x]
      BY <1>0, <1>9, <2>1, AdvanceFacts DEF Unlist
    <3> QED BY <1>9, <2>1, <3>1 DEF Unlist
  <2>2. CASE /\ MayFail /\ cache' = [cache EXCEPT ![e] = op[e].before]
             /\ live' = [live EXCEPT ![e] = IF del[e] # None THEN del[e] ELSE @]
             /\ del' = [del EXCEPT ![e] = None] /\ lock' = None
             /\ Finish(e, "failed") /\ UNCHANGED <<index, stale>>
    <3>1. op[e].before \in Versions \cup {None}
      BY <1>0, <1>9 DEF Unlist, RemoveOps
    <3>2. faults' \in 0..MaxMishaps
      BY <2>2, MishapFacts
    <3>4. live' \in [Exchanges -> Maybe(Versions)] /\ del' \in [Exchanges -> Maybe(Versions)]
          /\ cache' \in [Exchanges -> Maybe(Versions)]
      BY <2>2, <3>1
    <3> QED BY <1>9, <2>2, <3>2, <3>4 DEF Unlist
  <2> QED BY <1>9, <2>1, <2>2 DEF Unlist
<1>10. CASE Remove(e)
  BY <1>0, <1>10, StoreConstants DEF Remove
<1> QED BY <1>1, <1>2, <1>3, <1>4, <1>5, <1>6, <1>7, <1>8, <1>9, <1>10 DEF StoreStep

LEMMA BeginTyped ==
  ASSUME StoreTypeOK, NEW e \in Exchanges,
         Delete(e) \/ (\E v \in Versions : Persist(e, v))
  PROVE  StoreTypeOK' /\ op'[e] # None /\ \A x \in Exchanges \ {e} : op'[x] = op[x]
<1> USE DEF disk, memory, visitor
<1>1. op[e] = None /\ lock # e
  BY StoreConstants DEF Delete, Persist, StoreTypeOK
<1>2. PICK o \in Operations : op' = [op EXCEPT ![e] = o]
  <2>1. CASE Delete(e)
    <3>1. [do |-> "delete", step |-> "stage", found |-> live[e] # None] \in DeleteOps
      BY DEF DeleteOps
    <3> QED BY <2>1, <3>1 DEF Delete, Operations
  <2>2. CASE \E v \in Versions : Persist(e, v)
    <3>1. ASSUME NEW v \in Versions
          PROVE  [do |-> "persist", step |-> "write", version |-> v, backed |-> FALSE,
                  before |-> None] \in PersistOps
      BY DEF PersistOps, PersistSteps, Maybe
    <3> QED BY <2>2, <3>1 DEF Persist, Operations
  <2> QED BY <2>1, <2>2
<1>3. /\ op' \in [Exchanges -> Maybe(Operations)] /\ op'[e] # None
      /\ \A x \in Exchanges \ {e} : op'[x] = op[x]
  BY <1>2, ReplaceFacts
<1>4. tmp' \in [Exchanges -> BOOLEAN] /\ result' \in [Exchanges -> {None, "ok", "failed"}]
  BY DEF Delete, Persist, StoreTypeOK
<1>5. UNCHANGED <<live, bak, del, index, cache, stale, lock, kept, rows, stamping, touched, visits,
                  faults, crashes>>
  BY DEF Delete, Persist
<1>6. lock' # None => op'[lock'] # None /\ op'[lock'].step \in {"rewrite", "unlist", "remove"}
  <2>1. lock # None => lock \in Exchanges \ {e} /\ op[lock].step \in {"rewrite", "unlist", "remove"}
                       /\ op[lock] # None
    BY <1>1 DEF StoreTypeOK, Maybe
  <2>2. lock # None => op'[lock] = op[lock]
    BY <1>3, <2>1
  <2> QED BY <1>5, <2>1, <2>2
<1> QED BY <1>3, <1>4, <1>5, <1>6 DEF StoreTypeOK

LEMMA OutsideTyped ==
  ASSUME StoreTypeOK, StoreCrash \/ VisitOpens \/ VisitRebuilds \/ VisitStamps
  PROVE  StoreTypeOK'
<1> USE DEF disk, memory, visitor
<1>0. /\ \A m, n \in [Exchanges -> Maybe(Versions)] :
           CleanedUp(m, n) \in [Exchanges -> Maybe(Versions)]
      /\ Nothing \in [Exchanges -> Maybe(Versions)] /\ Nothing \in [Exchanges -> Maybe(Operations)]
      /\ Nothing \in [Exchanges -> {None, "ok", "failed"}]
      /\ Touched \subseteq Exchanges
  BY DEF CleanedUp, Nothing, Maybe, Touched
<1>1. CASE StoreCrash
  <2>1. live' \in [Exchanges -> Maybe(Versions)]
    <3>1. PICK half \in SUBSET {e \in Exchanges : Swapping(e)} :
            live' = CleanedUp([e \in Exchanges |-> IF e \in half THEN None ELSE live[e]],
                              [e \in Exchanges |-> IF e \in half THEN live[e] ELSE bak[e]])
      BY <1>1 DEF StoreCrash
    <3>2. /\ [e \in Exchanges |-> IF e \in half THEN None ELSE live[e]]
               \in [Exchanges -> Maybe(Versions)]
          /\ [e \in Exchanges |-> IF e \in half THEN live[e] ELSE bak[e]]
               \in [Exchanges -> Maybe(Versions)]
      BY DEF StoreTypeOK, Maybe
    <3> QED BY <1>0, <3>1, <3>2
  <2>2. kept' \in [Exchanges -> Maybe(Versions)]
    BY <1>1 DEF StoreCrash, StoreTypeOK, Recovered, Maybe
  <2>3. crashes' \in 0..MaxMishaps
    BY <1>1, MishapFacts DEF StoreCrash
  <2> QED BY <1>0, <1>1, <2>1, <2>2, <2>3 DEF StoreCrash, StoreTypeOK, Maybe
<1>2. CASE VisitOpens
  <2>1. live' \in [Exchanges -> Maybe(Versions)] /\ visits' \in 0..MaxMishaps
    BY <1>0, <1>2, MishapFacts DEF VisitOpens, StoreTypeOK
  <2>2. rows' \in [Exchanges -> Maybe(Versions)] /\ touched' \subseteq Exchanges
    BY <1>0, <1>2 DEF VisitOpens, StoreTypeOK
  <2> QED BY <1>0, <1>2, <2>1, <2>2, StoreConstants DEF VisitOpens, StoreTypeOK, Maybe
<1>3. CASE VisitRebuilds
  <2>1. rows \in [Exchanges -> Maybe(Versions)]
    BY <1>3 DEF VisitRebuilds, StoreTypeOK, Maybe
  <2>2. /\ Reclaimed(rows) \in [Exchanges -> Maybe(Versions)]
        /\ Recognised(rows) \in [Exchanges -> Maybe(Versions)]
    BY <2>1, RebuiltTyped
  <2>3. /\ live' \in [Exchanges -> Maybe(Versions)] /\ del' \in [Exchanges -> Maybe(Versions)]
        /\ index' \in [Exchanges -> Maybe(Versions)]
    BY <1>0, <1>3, <2>2 DEF VisitRebuilds, Reconcile, StoreTypeOK
  <2>4. /\ rows' \in Maybe([Exchanges -> Maybe(Versions)]) /\ (stamping' => rows' # None)
        /\ stamping' \in BOOLEAN /\ touched' \subseteq Exchanges /\ stale' \in BOOLEAN
    BY <1>0, <1>3, <2>2, StoreConstants DEF VisitRebuilds, StoreTypeOK, Maybe
  <2> QED BY <1>3, <2>3, <2>4 DEF VisitRebuilds, StoreTypeOK
<1>4. CASE VisitStamps
  <2>1. rows \in [Exchanges -> Maybe(Versions)]
    BY <1>4 DEF VisitStamps, StoreTypeOK, Maybe
  <2> QED BY <1>0, <1>4, <2>1 DEF VisitStamps, StoreTypeOK, Maybe
<1> QED BY <1>1, <1>2, <1>3, <1>4

\* The two exchanges of a flow.
LEMMA FlowIds ==
  /\ \A f \in Flows : /\ First(f) \in Exchanges /\ First(f)[1] = f
                      /\ Again(f) \in Exchanges /\ Again(f)[1] = f
                      /\ First(f) # Again(f)
  /\ \A e \in Exchanges : e[1] \in Flows /\ e \in {First(e[1]), Again(e[1])}
BY HttpConstants DEF First, Again

LEMMA Typing == TypeOK /\ [Next]_vars => TypeOK'
<1> SUFFICES ASSUME TypeOK, [Next]_vars PROVE TypeOK'
  OBVIOUS
<1> USE DEF TypeOK
<1>1. ASSUME UNCHANGED storeVars PROVE StoreTypeOK'
  BY <1>1 DEF storeVars, disk, memory, visitor, StoreTypeOK
<1>2. ASSUME NEW e \in Exchanges, NEW v \in Versions, Persist(e, v) PROVE StoreTypeOK'
  BY <1>2, BeginTyped
<1>3. Provisional \in Versions /\ Final \in Versions
  BY DEF Versions
<1>4. ASSUME NEW f \in Flows, Request(f) \/ Hook(f) PROVE TypeOK'
  <2>1. /\ First(f) \in Exchanges /\ Again(f) \in Exchanges
    BY FlowIds
  <2>2. StoreTypeOK'
    <3>1. CASE LookUp(f)
      <4>1. /\ live' \in [Exchanges -> Maybe(Versions)] /\ del' \in [Exchanges -> Maybe(Versions)]
            /\ index' \in [Exchanges -> Maybe(Versions)] /\ cache' \in [Exchanges -> Maybe(Versions)]
        BY <3>1, EnsureFacts, RebuiltTyped DEF LookUp, StoreTypeOK
      <4> QED BY <3>1, <4>1 DEF LookUp, StoreTypeOK, visitor
    <3>2. CASE ~LookUp(f)
      BY <1>1, <1>2, <1>3, <1>4, <2>1, <3>2, BeginTyped
         DEF Hook, Request, Forward, Drop, Decided, Response, Finalize, Finalized, StoredAfresh,
             Discard, Discarded
    <3> QED BY <3>1, <3>2
  <2>3. flow' \in [Flows -> Places]
    BY <1>4 DEF Hook, Request, Forward, Drop, Decided, Response, LookUp, Finalize, Finalized,
                StoredAfresh, Discard, Discarded, Go, Places
  <2>4. prov' \in [Flows -> BOOLEAN]
    BY <1>4 DEF Hook, Request, Forward, Drop, Decided, Response, LookUp, Finalize, Finalized,
                StoredAfresh, Discard, Discarded
  <2>5. shown' \subseteq Exchanges
    BY <1>4, <2>1 DEF Hook, Request, Forward, Drop, Decided, Response, LookUp, Finalize, Finalized,
                      StoredAfresh, Discard, Discarded, Emit
  <2> QED BY <2>2, <2>3, <2>4, <2>5
<1>5. CASE \E e \in Exchanges : StoreStep(e) /\ UNCHANGED httpVars
  BY <1>5, StepTyped DEF httpVars
<1>6. CASE Crash
  <2>1. flow' \in [Flows -> Places]
    BY <1>6 DEF Crash, Places
  <2> QED BY <1>6, <2>1, OutsideTyped DEF Crash
<1>7. CASE (VisitOpens \/ VisitRebuilds \/ VisitStamps) /\ UNCHANGED httpVars
  BY <1>7, OutsideTyped DEF httpVars
<1>8. CASE UNCHANGED vars
  BY <1>1, <1>8 DEF vars, httpVars
<1> QED BY <1>4, <1>5, <1>6, <1>7, <1>8 DEF Next

-----------------------------------------------------------------------------
(* What a step leaves alone.                                               *)

LEMMA NoneIsNone ==
  /\ Provisional # None /\ Final # None /\ Provisional # Final
  /\ \A e \in Exchanges : e # None
  /\ \A v \in Versions : v # None
BY StoreConstants DEF Versions, Provisional, Final

\* The same for x, whatever happens elsewhere.
LEMMA Untouched ==
  ASSUME NEW x \in Exchanges, ExchangeInv(x),
         live'[x] = live[x], tmp'[x] = tmp[x], bak'[x] = bak[x], del'[x] = del[x],
         index'[x] = index[x], cache'[x] = cache[x], kept'[x] = kept[x], op'[x] = op[x],
         stale' = stale, lock' = lock, touched' = touched, crashes' = crashes, visits' = visits,
         flow[x[1]] = "gone" => flow'[x[1]] = "gone"
  PROVE  ExchangeInv(x)'
<1>1. SetAside(x)'
  BY DEF ExchangeInv, SetAside, Persisting, Deleting
<1>2. Whole(x)'
  BY DEF ExchangeInv, Whole, Recovered, Persisting, Deleting
<1>3. Listed(x)'
  BY DEF ExchangeInv, Listed, Built, Deleting, OpAt
<1>4. Exact(x)'
  BY DEF ExchangeInv, Exact, Calm, OpAt
<1> QED BY <1>1, <1>2, <1>3, <1>4 DEF ExchangeInv

\* The holder of the lock writes the rows or gives the lock up.
LEMMA Released ==
  ASSUME NEW x \in Exchanges, ExchangeInv(x), StoreInv, lock # None, lock # x,
         live'[x] = live[x], tmp'[x] = tmp[x], bak'[x] = bak[x], del'[x] = del[x],
         cache'[x] = cache[x], kept'[x] = kept[x], op'[x] = op[x],
         touched' = touched, crashes' = crashes, visits' = visits,
         lock' \in {lock, None},
         \/ index'[x] = index[x] /\ stale' = stale
         \/ index'[x] = cache[x] /\ stale' = FALSE,
         flow' = flow
  PROVE  ExchangeInv(x)'
<1>1. ~OpAt(x, Held) /\ del[x] = None /\ ~(Deleting(x) /\ op[x].step \in Staged)
  <2>1. ~OpAt(x, Held)
    BY DEF StoreInv
  <2>2. ~(Deleting(x) /\ op[x].step \in Staged)
    BY <2>1 DEF OpAt, Deleting, Held
  <2> QED BY <2>1, <2>2 DEF ExchangeInv, SetAside
<1>2. SetAside(x)'
  BY <1>1 DEF ExchangeInv, SetAside, Persisting
<1>3. Whole(x)'
  BY <1>1 DEF ExchangeInv, Whole, Recovered, Persisting, Deleting
<1>4. Listed(x)'
  BY <1>1 DEF ExchangeInv, Listed, Built, Deleting, OpAt, Held
<1>5. Exact(x)'
  <2>1. Calm' => ~stale /\ Calm
    BY DEF ExchangeInv, Exact, Calm
  <2>2. Calm' => ~stale' /\ index'[x] = index[x]
    BY <2>1 DEF ExchangeInv, Exact, Calm
  <2> QED BY <1>1, <2>1, <2>2 DEF ExchangeInv, Exact, Calm, OpAt, Held
<1> QED BY <1>2, <1>3, <1>4, <1>5 DEF ExchangeInv

\* The cache is rebuilt, and x is not the exchange it is rebuilt for.
LEMMA Rebuilt ==
  ASSUME NEW x \in Exchanges, ExchangeInv(x), StoreInv, StoreTypeOK, lock = None, lock' # x,
         live'[x] = (IF stale THEN Reclaimed(index) ELSE live)[x],
         del'[x] = (IF stale THEN Nothing ELSE del)[x],
         index'[x] = (IF stale THEN Recognised(index) ELSE index)[x],
         cache'[x] = Entries[x], stale' = FALSE,
         tmp'[x] = tmp[x], bak'[x] = bak[x], kept'[x] = kept[x], op'[x] = op[x],
         touched' = touched, crashes' = crashes, visits' = visits
  PROVE  ExchangeInv(x)'
<1>1. ~OpAt(x, Held) /\ ~(Deleting(x) /\ op[x].step \in Staged)
  <2>1. ~OpAt(x, Held)
    BY NoneIsNone DEF StoreInv
  <2> QED BY <2>1 DEF OpAt, Deleting, Held
<1>2. del'[x] = None
  BY <1>1 DEF ExchangeInv, SetAside, Nothing
<1>3. live'[x] = IF live[x] = None /\ stale /\ index[x] # None THEN del[x] ELSE live[x]
  BY DEF Reclaimed
<1>4. /\ index'[x] = IF stale /\ index[x] = None THEN live[x] ELSE index[x]
      /\ cache'[x] = IF ~stale THEN cache[x] ELSE IF index[x] = None THEN live[x] ELSE index[x]
  BY DEF Recognised, Entries
<1>5. op[x] # None => del[x] = None /\ live'[x] = live[x]
  BY <1>1, <1>3 DEF ExchangeInv, SetAside
<1>6. op[x] = None => bak[x] = None /\ (~stale => del[x] = None)
  BY DEF ExchangeInv, SetAside, Persisting, Deleting
<1>7. SetAside(x)'
  BY <1>2 DEF ExchangeInv, SetAside, Persisting
<1>8. Whole(x)'
  <2>1. op[x] = None => Recovered(x)' = Recovered(x)
    BY <1>2, <1>3, <1>6 DEF Recovered
  <2>2. op[x] # None => live'[x] = live[x]
    BY <1>5
  <2> QED BY <1>1, <2>1, <2>2 DEF ExchangeInv, Whole, Persisting, Deleting
<1>9. Listed(x)'
  <2>1. ASSUME x \notin touched, kept[x] # None PROVE cache'[x] # None
    <3>1. CASE stale /\ op[x] = None
      BY <1>4, <1>6, <2>1, <3>1 DEF ExchangeInv, Whole, Recovered
    <3>2. CASE stale /\ op[x] # None
      <4>1. live[x] # None
        <5>1. op[x] \in Operations
          BY <3>2, OpKinds
        <5>2. CASE op[x] \in PersistOps
          BY <1>1, <2>1, <3>2, <5>2, NoneIsNone
             DEF ExchangeInv, Whole, Persisting, PersistOps, PersistSteps, Swapped
        <5>3. CASE op[x] \in DeleteOps \cup RemoveOps
          BY <1>1, <2>1, <3>2, <5>3
             DEF ExchangeInv, Whole, Deleting, DeleteOps, RemoveOps, Staged
        <5> QED BY <5>1, <5>2, <5>3 DEF Operations
      <4> QED BY <1>4, <3>2, <4>1
    <3>3. CASE ~stale
      BY <1>1, <1>4, <2>1, <3>3 DEF ExchangeInv, Listed, Built
    <3> QED BY <3>1, <3>2, <3>3 DEF StoreTypeOK
  <2>2. ASSUME x \notin touched, OpAt(x, {"clean"}) PROVE cache'[x] # None
    <3>1. CASE stale
      <4>1. op[x] \in PersistOps
        BY <2>2, OpKinds DEF OpAt, Operations, PersistOps, DeleteOps, RemoveOps
      <4>2. live[x] # None
        BY <2>2, <4>1, NoneIsNone DEF OpAt, ExchangeInv, Whole, Persisting, PersistOps, Swapped
      <4> QED BY <1>4, <3>1, <4>2
    <3>2. CASE ~stale
      BY <1>4, <2>2, <3>2 DEF ExchangeInv, Listed, Built, OpAt
    <3> QED BY <3>1, <3>2 DEF StoreTypeOK
  <2> QED BY <1>1, <2>1, <2>2 DEF Listed, Built, OpAt, Held, Staged
<1>10. Exact(x)'
  <2>1. lock # x /\ stale \in BOOLEAN
    BY NoneIsNone DEF StoreTypeOK
  <2>2. CASE stale
    BY <1>1, <1>4, <2>2 DEF ExchangeInv, Exact, Calm, OpAt, Held, Staged
  <2>3. CASE ~stale
    BY <1>1, <1>4, <2>1, <2>3 DEF ExchangeInv, Exact, Calm, OpAt, Held, Staged
  <2> QED BY <2>2, <2>3
<1> QED BY <1>7, <1>8, <1>9, <1>10 DEF ExchangeInv

-----------------------------------------------------------------------------
(* The steps of an operation.                                              *)

\* What a step of the operation on e is to the flows: it goes on, or it ends and
\* what is kept is what it was to make, or what there was.
Progress(e) ==
  /\ op[e] # None /\ touched' = touched /\ crashes' = crashes /\ faults <= faults'
  /\ \A x \in Exchanges \ {e} : op'[x] = op[x] /\ result'[x] = result[x] /\ kept'[x] = kept[x]
  /\ \/ /\ op'[e] # None /\ op'[e].do = op[e].do /\ kept'[e] = kept[e]
        /\ op[e].do = "persist" => op'[e].version = op[e].version
     \/ op'[e] = None /\ result'[e] = "ok" /\ kept'[e] = Goal(e)
     \/ op'[e] = None /\ result'[e] = "failed" /\ kept'[e] = kept[e]
        /\ (faults' > 0 \/ e \in touched)
  /\ \/ \A x \in Exchanges \ {e} : cache'[x] = cache[x]
     \/ stale' = FALSE

Kept == StoreInv' /\ \A x \in Exchanges : ExchangeInv(x)'

\* The invariant before a step of the operation on e, in the facts the steps use.
LEMMA Before ==
  ASSUME Inv, TypeOK', NEW e \in Exchanges
  PROVE  /\ StoreTypeOK /\ StoreInv /\ \A x \in Exchanges : ExchangeInv(x)
         /\ faults \in Nat /\ crashes \in Nat /\ visits \in Nat /\ faults' \in Nat /\ e # None
         /\ SetAside(e) /\ Whole(e) /\ Listed(e) /\ Exact(e)
         /\ op[e] # None /\ op[e].do = "persist" =>
              op[e] \in PersistOps /\ op[e].version \in Versions /\ op[e].version # None
<1>1. StoreTypeOK /\ StoreInv /\ ExchangeInv(e) /\ \A x \in Exchanges : ExchangeInv(x)
  BY DEF Inv, TypeOK
<1>2. faults' \in Nat
  BY StoreConstants DEF TypeOK, StoreTypeOK
<1>3. faults \in Nat /\ crashes \in Nat /\ visits \in Nat
  BY <1>1, MishapFacts, StoreConstants
<1>4. op[e] # None /\ op[e].do = "persist" =>
        op[e] \in PersistOps /\ op[e].version \in Versions /\ op[e].version # None
  BY <1>1, OpKinds, NoneIsNone DEF PersistOps
<1> QED BY <1>1, <1>2, <1>3, <1>4, NoneIsNone DEF ExchangeInv

LEMMA StoreInvKept ==
  ASSUME NEW e \in Exchanges, StoreInv, \A x \in Exchanges \ {e} : op'[x] = op[x],
         OpAt(e, Held)' => lock' = e, OpAt(e, {"undo"})' => faults' > 0,
         lock' = lock \/ lock \in {None, e}, faults \in Nat, faults' \in Nat, faults <= faults',
         touched' = touched, rows' = rows, visits' = visits
  PROVE  StoreInv'
<1>1. ASSUME NEW x \in Exchanges, OpAt(x, Held)' PROVE lock' = x
  <2>1. CASE x = e
    BY <1>1, <2>1
  <2>2. CASE x # e
    <3>1. OpAt(x, Held)
      BY <1>1, <2>2 DEF OpAt
    <3> QED BY <2>2, <3>1, NoneIsNone DEF StoreInv
  <2> QED BY <2>1, <2>2
<1>2. ASSUME NEW x \in Exchanges, OpAt(x, {"undo"})' PROVE faults' > 0
  <2>1. CASE x = e
    BY <1>2, <2>1
  <2>2. CASE x # e
    <3>1. OpAt(x, {"undo"})
      BY <1>2, <2>2 DEF OpAt
    <3> QED BY <3>1 DEF StoreInv
  <2> QED BY <2>1, <2>2
<1>3. visits' = 0 => touched' = {} /\ rows' = None
  BY DEF StoreInv
<1> QED BY <1>1, <1>2, <1>3 DEF StoreInv

LEMMA WrittenStep ==
  ASSUME Inv, TypeOK', NEW e \in Exchanges, FilesWritten(e), UNCHANGED httpVars
  PROVE  Kept /\ Progress(e)
<1>1. /\ UNCHANGED <<live, bak, del, index, cache, stale, lock, kept, rows, stamping, touched,
                    visits, crashes, flow>>
      /\ op[e] # None /\ op[e].do = "persist" /\ op[e].step = "write"
  BY DEF FilesWritten, Busy, visitor, httpVars
<1>2. /\ StoreTypeOK /\ StoreInv /\ \A x \in Exchanges : ExchangeInv(x)
      /\ SetAside(e) /\ Whole(e) /\ Listed(e) /\ Exact(e) /\ faults \in Nat /\ faults' \in Nat
  BY Before
<1>3. bak[e] = None /\ del[e] = None
  BY <1>1, <1>2 DEF SetAside, Persisting, Deleting, Swapped
<1>4. \A x \in Exchanges \ {e} : op'[x] = op[x] /\ result'[x] = result[x] /\ tmp'[x] = tmp[x]
  BY <1>1, <1>2 DEF FilesWritten, Advance, Finish, StoreTypeOK
<1>5. \A x \in Exchanges \ {e} : ExchangeInv(x)'
  BY <1>1, <1>2, <1>4, Untouched
<1>6. CASE tmp[e] /\ Advance(e, "activate") /\ UNCHANGED <<tmp, result, faults>>
  <2>1. /\ op'[e] # None /\ op'[e].do = "persist" /\ op'[e].step = "activate"
        /\ op'[e].version = op[e].version
    BY <1>1, <1>2, <1>6, AdvanceFacts DEF PersistSteps
  <2>2. ExchangeInv(e)'
    BY <1>1, <1>2, <1>3, <1>6, <2>1
       DEF ExchangeInv, SetAside, Whole, Listed, Exact, Persisting, Deleting, OpAt, Built, Calm,
           Swapped, Staged, Held
  <2>3. StoreInv'
    BY <1>1, <1>2, <1>4, <1>6, <2>1, StoreInvKept DEF OpAt, Held, Staged
  <2> QED BY <1>1, <1>2, <1>4, <1>5, <1>6, <2>1, <2>2, <2>3 DEF Kept, Progress
<1>7. CASE /\ IF tmp[e] THEN MayFail ELSE UNCHANGED faults
           /\ tmp' = [tmp EXCEPT ![e] = FALSE] /\ Finish(e, "failed")
  <2>1. op'[e] = None /\ result'[e] = "failed"
    BY <1>2, <1>7 DEF Finish, StoreTypeOK
  <2>2. faults <= faults' /\ (faults' > 0 \/ e \in touched)
    BY <1>1, <1>2, <1>7 DEF MayFail, Whole, Persisting
  <2>3. ExchangeInv(e)'
    BY <1>1, <1>2, <1>3, <2>1
       DEF ExchangeInv, SetAside, Whole, Listed, Exact, Persisting, Deleting, OpAt, Built, Calm,
           Recovered
  <2>4. StoreInv'
    BY <1>1, <1>2, <1>4, <2>1, <2>2, StoreInvKept DEF OpAt
  <2> QED BY <1>1, <1>2, <1>4, <1>5, <2>1, <2>2, <2>3, <2>4 DEF Kept, Progress
<1> QED BY <1>6, <1>7 DEF FilesWritten

LEMMA ActivateStep ==
  ASSUME Inv, TypeOK', NEW e \in Exchanges, Activate(e), UNCHANGED httpVars
  PROVE  Kept /\ Progress(e)
<1>1. /\ UNCHANGED <<del, index, cache, stale, lock, result, kept, rows, stamping, touched, visits,
                    faults, crashes, flow>>
      /\ op[e] # None /\ op[e].do = "persist" /\ op[e].step = "activate"
  BY DEF Activate, Busy, visitor, httpVars
<1>2. /\ StoreTypeOK /\ StoreInv /\ \A x \in Exchanges : ExchangeInv(x)
      /\ SetAside(e) /\ Whole(e) /\ Listed(e) /\ Exact(e) /\ faults \in Nat
  BY Before
<1>3. del[e] = None
  BY <1>1, <1>2 DEF SetAside, Deleting
<1>4. /\ op'[e] # None /\ op'[e].do = "persist" /\ op'[e].step = "index"
      /\ op'[e].version = op[e].version /\ (op'[e].backed <=> live[e] # None)
      /\ \A x \in Exchanges \ {e} : op'[x] = op[x]
  BY <1>1, <1>2, SwapFacts DEF Activate, Persisting
<1>5. /\ live'[e] = op[e].version /\ bak'[e] = live[e]
      /\ \A x \in Exchanges \ {e} : live'[x] = live[x] /\ bak'[x] = bak[x] /\ tmp'[x] = tmp[x]
  BY <1>2 DEF Activate, StoreTypeOK
<1>6. \A x \in Exchanges \ {e} : ExchangeInv(x)'
  BY <1>1, <1>2, <1>4, <1>5, Untouched
<1>7. ExchangeInv(e)'
  BY <1>1, <1>2, <1>3, <1>4, <1>5
     DEF ExchangeInv, SetAside, Whole, Listed, Exact, Persisting, Deleting, OpAt, Built, Calm,
         Swapped, Staged, Held
<1>8. StoreInv'
  BY <1>1, <1>2, <1>4, StoreInvKept DEF OpAt, Held, Staged
<1> QED BY <1>1, <1>2, <1>4, <1>6, <1>7, <1>8 DEF Kept, Progress

LEMMA ActivateFailsStep ==
  ASSUME Inv, TypeOK', NEW e \in Exchanges, ActivateFails(e), UNCHANGED httpVars
  PROVE  Kept /\ Progress(e)
<1>1. /\ UNCHANGED <<live, tmp, bak, del, index, cache, stale, lock, kept, rows, stamping, touched,
                    visits, faults, crashes, flow>>
      /\ op[e] # None /\ op[e].do = "persist" /\ op[e].step = "activate" /\ ~tmp[e]
  BY DEF ActivateFails, Busy, visitor, disk, httpVars
<1>2. /\ StoreTypeOK /\ StoreInv /\ \A x \in Exchanges : ExchangeInv(x)
      /\ SetAside(e) /\ Whole(e) /\ Listed(e) /\ Exact(e) /\ faults \in Nat
  BY Before
<1>3. bak[e] = None /\ del[e] = None /\ e \in touched
  BY <1>1, <1>2 DEF SetAside, Whole, Persisting, Deleting, Swapped
<1>4. /\ op'[e] = None /\ result'[e] = "failed"
      /\ \A x \in Exchanges \ {e} : op'[x] = op[x] /\ result'[x] = result[x]
  BY <1>2 DEF ActivateFails, Finish, StoreTypeOK
<1>5. \A x \in Exchanges \ {e} : ExchangeInv(x)'
  BY <1>1, <1>2, <1>4, Untouched
<1>6. ExchangeInv(e)'
  BY <1>1, <1>2, <1>3, <1>4
     DEF ExchangeInv, SetAside, Whole, Listed, Exact, Persisting, Deleting, OpAt, Built, Calm
<1>7. StoreInv'
  BY <1>1, <1>2, <1>4, StoreInvKept DEF OpAt
<1> QED BY <1>1, <1>2, <1>3, <1>4, <1>5, <1>6, <1>7 DEF Kept, Progress

LEMMA EnterRowStep ==
  ASSUME Inv, TypeOK', NEW e \in Exchanges, EnterRow(e), UNCHANGED httpVars
  PROVE  Kept /\ Progress(e)
<1>1. /\ UNCHANGED <<tmp, bak, result, kept, rows, stamping, touched, visits, crashes, flow>>
      /\ op[e] # None /\ op[e].do = "persist" /\ op[e].step = "index" /\ lock = None
  BY DEF EnterRow, Busy, visitor, httpVars
<1>2. /\ StoreTypeOK /\ StoreInv /\ \A x \in Exchanges : ExchangeInv(x)
      /\ SetAside(e) /\ Whole(e) /\ Listed(e) /\ Exact(e) /\ faults \in Nat /\ faults' \in Nat
      /\ e # None /\ op[e].version # None
  BY <1>1, Before
<1>3. del[e] = None
  BY <1>1, <1>2 DEF SetAside, Deleting
<1>4. CASE /\ lock' = e /\ Ensure /\ stale' = FALSE
           /\ op' = [op EXCEPT ![e].step = "rewrite", ![e].before = Entries[e]]
           /\ cache' = [Entries EXCEPT ![e] = op[e].version] /\ UNCHANGED faults
  <2>1. /\ live' = IF stale THEN Reclaimed(index) ELSE live
        /\ del' = IF stale THEN Nothing ELSE del
        /\ index' = IF stale THEN Recognised(index) ELSE index
        /\ Entries \in [Exchanges -> Maybe(Versions)]
    BY <1>2, <1>4, EnsureFacts, RebuiltTyped DEF StoreTypeOK
  <2>2. /\ op'[e] # None /\ op'[e].do = "persist" /\ op'[e].step = "rewrite"
        /\ op'[e].version = op[e].version /\ op'[e].backed = op[e].backed
        /\ op'[e].before = Entries[e]
        /\ \A x \in Exchanges \ {e} : op'[x] = op[x]
    BY <1>1, <1>2, <1>4, <2>1, EnterFacts DEF Persisting
  <2>3. cache'[e] = op[e].version /\ \A x \in Exchanges \ {e} : cache'[x] = Entries[x]
    BY <1>4, <2>1
  <2>4. ASSUME NEW x \in Exchanges \ {e} PROVE ExchangeInv(x)'
    BY <1>1, <1>2, <1>4, <2>1, <2>2, <2>3, Rebuilt
  <2>5. /\ del'[e] = None /\ live'[e] = live[e]
        /\ index'[e] = IF stale /\ index[e] = None THEN live[e] ELSE index[e]
        /\ Entries[e] = IF ~stale THEN cache[e] ELSE IF index[e] = None THEN live[e] ELSE index[e]
    BY <1>3, <2>1 DEF Reclaimed, Recognised, Nothing, Entries
  <2>6. SetAside(e)' /\ Whole(e)'
    BY <1>1, <1>2, <1>3, <2>2, <2>5
       DEF SetAside, Whole, Persisting, Deleting, Swapped
  <2>7. Listed(e)'
    BY <1>1, <1>2, <2>2, <2>3, <2>5
       DEF Whole, Listed, Built, Persisting, Deleting, OpAt, Swapped
  <2>8. Exact(e)'
    <3>1. CASE stale
      BY <1>1, <1>2, <1>4, <2>2, <2>3, <2>5, <3>1 DEF Exact, Calm, OpAt
    <3>2. CASE ~stale
      BY <1>1, <1>2, <1>4, <2>2, <2>3, <2>5, <3>2 DEF Exact, Calm, OpAt
    <3> QED BY <3>1, <3>2
  <2>9. StoreInv'
    <3>1. faults' = faults /\ lock' = e
      BY <1>4
    <3> QED BY <1>1, <1>2, <2>2, <3>1, StoreInvKept DEF OpAt, Held, Staged
  <2>10. ExchangeInv(e)'
    BY <2>6, <2>7, <2>8 DEF ExchangeInv
  <2>11. faults' = faults /\ stale' = FALSE
    BY <1>4
  <2>12. Progress(e)
    BY <1>1, <1>2, <2>2, <2>11 DEF Progress
  <2> QED BY <2>4, <2>9, <2>10, <2>12 DEF Kept
<1>5. CASE /\ stale /\ MayFail /\ Advance(e, "undo")
           /\ UNCHANGED <<live, del, index, cache, stale, lock>>
  <2>1. /\ op'[e] # None /\ op'[e].do = "persist" /\ op'[e].step = "undo"
        /\ op'[e].version = op[e].version /\ op'[e].backed = op[e].backed
        /\ \A x \in Exchanges \ {e} : op'[x] = op[x]
    BY <1>1, <1>2, <1>5, AdvanceFacts DEF PersistSteps
  <2>2. faults' > 0 /\ faults <= faults'
    BY <1>2, <1>5 DEF MayFail
  <2>3. \A x \in Exchanges \ {e} : ExchangeInv(x)'
    BY <1>1, <1>2, <1>5, <2>1, Untouched
  <2>4. ExchangeInv(e)'
    BY <1>1, <1>2, <1>3, <1>5, <2>1
       DEF ExchangeInv, SetAside, Whole, Listed, Exact, Persisting, Deleting, OpAt, Built, Calm,
           Swapped, Staged, Held
  <2>5. StoreInv'
    BY <1>1, <1>2, <1>5, <2>1, <2>2, StoreInvKept DEF OpAt, Held, Staged
  <2> QED BY <1>1, <1>2, <1>5, <2>1, <2>2, <2>3, <2>4, <2>5 DEF Kept, Progress
<1> QED BY <1>4, <1>5 DEF EnterRow

LEMMA RewriteRowStep ==
  ASSUME Inv, TypeOK', NEW e \in Exchanges, RewriteRow(e), UNCHANGED httpVars
  PROVE  Kept /\ Progress(e)
<1>1. /\ UNCHANGED <<live, tmp, bak, del, result, kept, rows, stamping, touched, visits, crashes,
                    flow>>
      /\ op[e] # None /\ op[e].do = "persist" /\ op[e].step = "rewrite" /\ lock' = None
  BY DEF RewriteRow, Busy, visitor, httpVars
<1>2. /\ StoreTypeOK /\ StoreInv /\ \A x \in Exchanges : ExchangeInv(x)
      /\ SetAside(e) /\ Whole(e) /\ Listed(e) /\ Exact(e) /\ faults \in Nat /\ faults' \in Nat
      /\ e # None /\ op[e].version # None
  BY <1>1, Before
<1>3. del[e] = None /\ lock = e
  BY <1>1, <1>2 DEF SetAside, Deleting, StoreInv, OpAt, Held, Staged
<1>4. CASE index' = cache /\ stale' = FALSE /\ Advance(e, "clean") /\ UNCHANGED <<cache, faults>>
  <2>1. /\ op'[e] # None /\ op'[e].do = "persist" /\ op'[e].step = "clean"
        /\ op'[e].version = op[e].version /\ op'[e].backed = op[e].backed
        /\ \A x \in Exchanges \ {e} : op'[x] = op[x]
    BY <1>1, <1>2, <1>4, AdvanceFacts DEF PersistSteps
  <2>2. \A x \in Exchanges \ {e} : ExchangeInv(x)'
    BY <1>1, <1>2, <1>3, <1>4, <2>1, Released DEF httpVars
  <2>3. ExchangeInv(e)'
    BY <1>1, <1>2, <1>3, <1>4, <2>1
       DEF ExchangeInv, SetAside, Whole, Listed, Exact, Persisting, Deleting, OpAt, Built, Calm,
           Swapped, Staged, Held
  <2>4. StoreInv'
    BY <1>1, <1>2, <1>3, <1>4, <2>1, StoreInvKept DEF OpAt, Held, Staged
  <2> QED BY <1>1, <1>2, <1>4, <2>1, <2>2, <2>3, <2>4 DEF Kept, Progress
<1>5. CASE /\ MayFail /\ cache' = [cache EXCEPT ![e] = op[e].before]
           /\ Advance(e, "undo") /\ UNCHANGED <<index, stale>>
  <2>1. /\ op'[e] # None /\ op'[e].do = "persist" /\ op'[e].step = "undo"
        /\ op'[e].version = op[e].version /\ op'[e].backed = op[e].backed
        /\ \A x \in Exchanges \ {e} : op'[x] = op[x]
    BY <1>1, <1>2, <1>5, AdvanceFacts DEF PersistSteps
  <2>2. faults' > 0 /\ faults <= faults'
    BY <1>2, <1>5 DEF MayFail
  <2>3. cache'[e] = op[e].before /\ \A x \in Exchanges \ {e} : cache'[x] = cache[x]
    BY <1>2, <1>5 DEF StoreTypeOK
  <2>4. \A x \in Exchanges \ {e} : ExchangeInv(x)'
    BY <1>1, <1>2, <1>3, <1>5, <2>1, <2>3, Released DEF httpVars
  <2>5. ExchangeInv(e)'
    BY <1>1, <1>2, <1>3, <1>5, <2>1, <2>3
       DEF ExchangeInv, SetAside, Whole, Listed, Exact, Persisting, Deleting, OpAt, Built, Calm,
           Swapped, Staged, Held
  <2>6. StoreInv'
    BY <1>1, <1>2, <1>3, <1>5, <2>1, <2>2, StoreInvKept DEF OpAt, Held, Staged
  <2> QED BY <1>1, <1>2, <2>1, <2>2, <2>3, <2>4, <2>5, <2>6 DEF Kept, Progress
<1> QED BY <1>4, <1>5 DEF RewriteRow

LEMMA CleanUndoStep ==
  ASSUME Inv, TypeOK', NEW e \in Exchanges, Clean(e) \/ Undo(e), UNCHANGED httpVars
  PROVE  Kept /\ Progress(e)
<1>1. /\ UNCHANGED <<tmp, del, index, cache, stale, lock, rows, stamping, touched, visits, faults,
                    crashes, flow>>
      /\ op[e] # None /\ op[e].do = "persist" /\ op[e].step \in {"clean", "undo"}
  BY DEF Clean, Undo, Busy, visitor, httpVars
<1>2. /\ StoreTypeOK /\ StoreInv /\ \A x \in Exchanges : ExchangeInv(x)
      /\ SetAside(e) /\ Whole(e) /\ Listed(e) /\ Exact(e) /\ faults \in Nat /\ faults' \in Nat
      /\ e # None /\ op[e].version # None
  BY <1>1, Before
<1>3. del[e] = None /\ op[e].version \in Versions
  BY <1>1, <1>2, Before DEF SetAside, Deleting
<1>4. /\ op'[e] = None /\ bak'[e] = None
      /\ \A x \in Exchanges \ {e} : /\ op'[x] = op[x] /\ result'[x] = result[x]
                                    /\ bak'[x] = bak[x] /\ live'[x] = live[x] /\ kept'[x] = kept[x]
  BY <1>2 DEF Clean, Undo, Finish, StoreTypeOK
<1>5. \A x \in Exchanges \ {e} : ExchangeInv(x)'
  BY <1>1, <1>2, <1>4, Untouched
<1>6. StoreInv'
  BY <1>1, <1>2, <1>4, StoreInvKept DEF OpAt
<1>7. CASE Clean(e)
  <2>1. kept'[e] = op[e].version /\ result'[e] = "ok" /\ live'[e] = live[e] /\ op[e].step = "clean"
    BY <1>2, <1>7 DEF Clean, Busy, Finish, StoreTypeOK
  <2>2. lock # e
    BY <1>2, <2>1 DEF StoreTypeOK
  <2>3. ExchangeInv(e)'
    BY <1>1, <1>2, <1>3, <1>4, <2>1, <2>2
       DEF ExchangeInv, SetAside, Whole, Listed, Exact, Persisting, Deleting, OpAt, Built, Calm,
           Swapped, Recovered
  <2> QED BY <1>1, <1>2, <1>4, <1>5, <1>6, <2>1, <2>3 DEF Kept, Progress, Goal
<1>8. CASE Undo(e)
  <2>1. /\ kept' = kept /\ result'[e] = "failed" /\ op[e].step = "undo"
        /\ live'[e] = IF op[e].backed THEN bak[e] ELSE None
    BY <1>2, <1>8 DEF Undo, Busy, Finish, StoreTypeOK
  <2>2. faults' > 0
    BY <1>1, <1>2, <2>1 DEF StoreInv, OpAt
  <2>3. ExchangeInv(e)'
    BY <1>1, <1>2, <1>3, <1>4, <2>1
       DEF ExchangeInv, SetAside, Whole, Listed, Exact, Persisting, Deleting, OpAt, Built, Calm,
           Swapped, Recovered
  <2> QED BY <1>1, <1>2, <1>4, <1>5, <1>6, <2>1, <2>2, <2>3 DEF Kept, Progress
<1> QED BY <1>7, <1>8

LEMMA StageStep ==
  ASSUME Inv, TypeOK', NEW e \in Exchanges, Stage(e), UNCHANGED httpVars
  PROVE  Kept /\ Progress(e)
<1> DEFINE alive == IF stale THEN Reclaimed(index) ELSE live
           aside == IF stale THEN Nothing ELSE del
           staged == op[e].found /\ alive[e] # None
<1>1. /\ UNCHANGED <<tmp, bak, result, kept, rows, stamping, touched, visits, faults, crashes, flow>>
      /\ op[e] # None /\ op[e].do = "delete" /\ op[e].step = "stage" /\ lock = None /\ lock' = e
      /\ stale' = FALSE
  BY DEF Stage, Busy, visitor, httpVars
<1>2. /\ StoreTypeOK /\ StoreInv /\ \A x \in Exchanges : ExchangeInv(x)
      /\ SetAside(e) /\ Whole(e) /\ Listed(e) /\ Exact(e) /\ faults \in Nat /\ faults' \in Nat
      /\ e # None
  BY <1>1, Before
<1>3. /\ op'[e] # None /\ op'[e].do = "delete" /\ op'[e].before = Entries[e]
      /\ op'[e].step = IF Entries[e] # None THEN "unlist" ELSE "remove"
      /\ \A x \in Exchanges \ {e} : op'[x] = op[x]
  BY <1>2, StageFacts
<1>4. /\ live' = [alive EXCEPT ![e] = IF staged THEN None ELSE @]
      /\ del' = [aside EXCEPT ![e] = IF staged THEN alive[e] ELSE @]
      /\ index' = IF stale THEN Recognised(index) ELSE index
      /\ cache' = [Entries EXCEPT ![e] = None]
  BY DEF Stage
<1>5. /\ Entries \in [Exchanges -> Maybe(Versions)]
      /\ alive \in [Exchanges -> Maybe(Versions)] /\ aside \in [Exchanges -> Maybe(Versions)]
  BY <1>2, RebuiltTyped DEF StoreTypeOK
<1>6. del[e] = None /\ bak[e] = None
  BY <1>1, <1>2 DEF SetAside, Persisting, Deleting, Staged
<1>7. /\ alive[e] = live[e] /\ aside[e] = None
      /\ index'[e] = IF stale /\ index[e] = None THEN live[e] ELSE index[e]
      /\ Entries[e] = IF ~stale THEN cache[e] ELSE IF index[e] = None THEN live[e] ELSE index[e]
  BY <1>4, <1>6 DEF Reclaimed, Recognised, Nothing, Entries
<1>8. /\ live'[e] = IF op[e].found /\ live[e] # None THEN None ELSE live[e]
      /\ del'[e] = IF op[e].found /\ live[e] # None THEN live[e] ELSE None
      /\ cache'[e] = None
      /\ \A x \in Exchanges \ {e} :
           live'[x] = alive[x] /\ del'[x] = aside[x] /\ cache'[x] = Entries[x]
  BY <1>4, <1>5, <1>7
<1>9. ASSUME NEW x \in Exchanges \ {e} PROVE ExchangeInv(x)'
  BY <1>1, <1>2, <1>3, <1>4, <1>8, Rebuilt
<1> HIDE DEF alive, aside, staged
<1>10. ExchangeInv(e)'
  <2>1. SetAside(e)' /\ Whole(e)'
    BY <1>1, <1>2, <1>3, <1>6, <1>8 DEF SetAside, Whole, Persisting, Deleting, Staged
  <2>2. e \notin touched /\ kept[e] # None => Entries[e] # None
    BY <1>1, <1>2, <1>7 DEF Whole, Listed, Built, Deleting, Staged, StoreTypeOK
  <2>3. Listed(e)'
    BY <1>1, <1>3, <2>2 DEF Listed, Built, Deleting, OpAt, Staged
  <2>4. Exact(e)'
    <3>1. CASE stale
      BY <1>1, <1>2, <1>3, <1>7, <1>8, <3>1 DEF Exact, Calm, OpAt
    <3>2. CASE ~stale
      BY <1>1, <1>2, <1>3, <1>7, <1>8, <3>2 DEF Exact, Calm, OpAt
    <3> QED BY <3>1, <3>2
  <2> QED BY <2>1, <2>3, <2>4 DEF ExchangeInv
<1>11. StoreInv'
  BY <1>1, <1>2, <1>3, StoreInvKept DEF OpAt, Held, Staged
<1>12. Progress(e)
  BY <1>1, <1>2, <1>3 DEF Progress
<1> QED BY <1>9, <1>10, <1>11, <1>12 DEF Kept

LEMMA UnlistStep ==
  ASSUME Inv, TypeOK', NEW e \in Exchanges, Unlist(e), UNCHANGED httpVars
  PROVE  Kept /\ Progress(e)
<1>1. /\ UNCHANGED <<tmp, bak, kept, rows, stamping, touched, visits, crashes, flow>>
      /\ op[e] # None /\ op[e].do = "delete" /\ op[e].step = "unlist"
  BY DEF Unlist, Busy, visitor, httpVars
<1>2. /\ StoreTypeOK /\ StoreInv /\ \A x \in Exchanges : ExchangeInv(x)
      /\ SetAside(e) /\ Whole(e) /\ Listed(e) /\ Exact(e) /\ faults \in Nat /\ faults' \in Nat
      /\ e # None
  BY <1>1, Before
<1>3. bak[e] = None /\ lock = e
  BY <1>1, <1>2 DEF SetAside, Persisting, StoreInv, OpAt, Held, Staged
<1>4. CASE /\ index' = cache /\ stale' = FALSE /\ Advance(e, "remove")
           /\ UNCHANGED <<live, del, cache, lock, result, faults>>
  <2>1. /\ op'[e] # None /\ op'[e].do = "delete" /\ op'[e].step = "remove"
        /\ \A x \in Exchanges \ {e} : op'[x] = op[x]
    BY <1>1, <1>2, <1>4, AdvanceFacts
  <2>2. \A x \in Exchanges \ {e} : ExchangeInv(x)'
    BY <1>1, <1>2, <1>3, <1>4, <2>1, Released DEF httpVars
  <2>3. ExchangeInv(e)'
    BY <1>1, <1>2, <1>3, <1>4, <2>1
       DEF ExchangeInv, SetAside, Whole, Listed, Exact, Persisting, Deleting, OpAt, Built, Calm,
           Staged, Held
  <2>4. StoreInv'
    BY <1>1, <1>2, <1>3, <1>4, <2>1, StoreInvKept DEF OpAt, Held, Staged
  <2> QED BY <1>1, <1>2, <1>4, <2>1, <2>2, <2>3, <2>4 DEF Kept, Progress
<1>5. CASE /\ MayFail /\ cache' = [cache EXCEPT ![e] = op[e].before]
           /\ live' = [live EXCEPT ![e] = IF del[e] # None THEN del[e] ELSE @]
           /\ del' = [del EXCEPT ![e] = None] /\ lock' = None
           /\ Finish(e, "failed") /\ UNCHANGED <<index, stale>>
  <2>1. /\ op'[e] = None /\ result'[e] = "failed"
        /\ \A x \in Exchanges \ {e} : op'[x] = op[x] /\ result'[x] = result[x]
    BY <1>2, <1>5 DEF Finish, StoreTypeOK
  <2>2. faults' > 0 /\ faults <= faults'
    BY <1>2, <1>5 DEF MayFail
  <2>3. /\ cache'[e] = op[e].before /\ del'[e] = None
        /\ live'[e] = IF del[e] # None THEN del[e] ELSE live[e]
        /\ \A x \in Exchanges \ {e} : cache'[x] = cache[x] /\ del'[x] = del[x] /\ live'[x] = live[x]
    BY <1>2, <1>5 DEF StoreTypeOK
  <2>4. \A x \in Exchanges \ {e} : ExchangeInv(x)'
    BY <1>1, <1>2, <1>3, <1>5, <2>1, <2>3, Released DEF httpVars
  <2>5. ExchangeInv(e)'
    BY <1>1, <1>2, <1>3, <1>5, <2>1, <2>3
       DEF ExchangeInv, SetAside, Whole, Listed, Exact, Persisting, Deleting, OpAt, Built, Calm,
           Staged, Held, Recovered
  <2>6. StoreInv'
    BY <1>1, <1>2, <1>3, <1>5, <2>1, <2>2, StoreInvKept DEF OpAt
  <2> QED BY <1>1, <1>2, <2>1, <2>2, <2>3, <2>4, <2>5, <2>6 DEF Kept, Progress
<1> QED BY <1>4, <1>5 DEF Unlist

LEMMA RemoveStep ==
  ASSUME Inv, TypeOK', NEW e \in Exchanges, Remove(e), UNCHANGED httpVars
  PROVE  Kept /\ Progress(e)
<1>1. /\ UNCHANGED <<live, tmp, bak, index, cache, stale, rows, stamping, touched, visits, faults,
                    crashes, flow>>
      /\ op[e] # None /\ op[e].do = "delete" /\ op[e].step = "remove" /\ lock' = None
  BY DEF Remove, Busy, visitor, httpVars
<1>2. /\ StoreTypeOK /\ StoreInv /\ \A x \in Exchanges : ExchangeInv(x)
      /\ SetAside(e) /\ Whole(e) /\ Listed(e) /\ Exact(e) /\ faults \in Nat /\ faults' \in Nat
      /\ e # None
  BY <1>1, Before
<1>3. bak[e] = None /\ lock = e
  BY <1>1, <1>2 DEF SetAside, Persisting, StoreInv, OpAt, Held, Staged
<1>4. /\ op'[e] = None /\ result'[e] = "ok" /\ del'[e] = None /\ kept'[e] = None
      /\ \A x \in Exchanges \ {e} : /\ op'[x] = op[x] /\ result'[x] = result[x]
                                    /\ del'[x] = del[x] /\ kept'[x] = kept[x]
  BY <1>2 DEF Remove, Finish, StoreTypeOK
<1>5. \A x \in Exchanges \ {e} : ExchangeInv(x)'
  BY <1>1, <1>2, <1>3, <1>4, Released DEF httpVars
<1>6. ExchangeInv(e)'
  BY <1>1, <1>2, <1>3, <1>4
     DEF ExchangeInv, SetAside, Whole, Listed, Exact, Persisting, Deleting, OpAt, Built, Calm,
         Staged, Held, Recovered
<1>7. StoreInv'
  BY <1>1, <1>2, <1>3, <1>4, StoreInvKept DEF OpAt
<1> QED BY <1>1, <1>2, <1>4, <1>5, <1>6, <1>7 DEF Kept, Progress, Goal

LEMMA OperationStep ==
  ASSUME Inv, TypeOK', NEW e \in Exchanges, StoreStep(e), UNCHANGED httpVars
  PROVE  Kept /\ Progress(e)
BY WrittenStep, ActivateStep, ActivateFailsStep, EnterRowStep, RewriteRowStep, CleanUndoStep,
   StageStep, UnlistStep, RemoveStep DEF StoreStep

-----------------------------------------------------------------------------
(* The flows.                                                              *)

\* Nothing that f knows of changes.
LEMMA FlowKept ==
  ASSUME NEW f \in Flows, FlowInv(f), flow'[f] = flow[f], prov'[f] = prov[f],
         \A x \in {First(f), Again(f)} :
           /\ op'[x] = op[x] /\ result'[x] = result[x] /\ kept'[x] = kept[x]
           /\ x \in shown' <=> x \in shown,
         At(f, "new") => First(f) \notin touched' /\ Again(f) \notin touched',
         touched \subseteq touched', faults > 0 => faults' > 0, crashes > 0 => crashes' > 0,
         At(f, "finding") /\ First(f) \notin touched' /\ cache[First(f)] # None =>
           cache'[First(f)] # None
  PROVE  FlowInv(f)'
<1>1. First(f)' = First(f) /\ Again(f)' = Again(f)
  BY DEF First, Again
<1>2. \A x \in {First(f), Again(f)} :
        /\ Idle(x) => Idle(x)'
        /\ \A v, old : Written(f, x, v, old) => Written(f, x, v, old)'
        /\ Unstored(f, x) => Unstored(f, x)'
  BY <1>1 DEF Idle, Shows, Written, Unstored, Excused, Persisting, Deleting
<1>3. Excused(f) => Excused(f)'
  BY <1>1 DEF Excused
<1>4. \A p : At(f, p)' <=> At(f, p)
  BY DEF At
<1> QED BY <1>1, <1>2, <1>3, <1>4 DEF FlowInv, At

\* A step of an operation brings its own flow on and no other.
LEMMA FlowsGoOn ==
  ASSUME Inv, TypeOK', NEW e \in Exchanges, StoreStep(e), UNCHANGED httpVars, NEW f \in Flows
  PROVE  FlowInv(f)'
<1>1. /\ Kept /\ Progress(e) /\ FlowInv(f) /\ flow' = flow /\ prov' = prov /\ shown' = shown
      /\ faults \in Nat /\ faults' \in Nat
  BY OperationStep, Before DEF Inv, httpVars
<1>2. /\ First(f) \in Exchanges /\ Again(f) \in Exchanges /\ First(f) # Again(f)
      /\ First(f)' = First(f) /\ Again(f)' = Again(f)
  BY FlowIds DEF First, Again
<1>3. ASSUME First(f) # e, At(f, "finding"), First(f) \notin touched, cache[First(f)] # None
      PROVE  cache'[First(f)] # None
  <2>1. CASE stale' = FALSE
    <3>1. kept'[First(f)] # None /\ op'[First(f)] = None /\ First(f) \notin touched'
      BY <1>1, <1>2, <1>3, NoneIsNone DEF Progress, FlowInv, At, Idle
    <3> QED BY <1>1, <1>2, <2>1, <3>1 DEF Kept, ExchangeInv, Listed, Built, Deleting
  <2>2. CASE cache'[First(f)] = cache[First(f)]
    BY <1>3, <2>2
  <2> QED BY <1>1, <1>2, <1>3, <2>1, <2>2 DEF Progress
<1>4. CASE First(f) # e /\ Again(f) # e
  <2>1. /\ touched' = touched /\ (faults > 0 => faults' > 0) /\ (crashes > 0 => crashes' > 0)
        /\ \A x \in {First(f), Again(f)} :
             op'[x] = op[x] /\ result'[x] = result[x] /\ kept'[x] = kept[x]
        /\ At(f, "new") => First(f) \notin touched' /\ Again(f) \notin touched'
    BY <1>1, <1>2, <1>4 DEF Progress, FlowInv
  <2> QED BY <1>1, <1>3, <1>4, <2>1, FlowKept
<1>5. Excused(f) => Excused(f)'
  BY <1>1, <1>2 DEF Excused, Progress
<1>6. faults' > 0 \/ e \in touched => Excused(f)' \/ e \notin {First(f), Again(f)}
  BY <1>1, <1>2 DEF Excused, Progress
<1>p. flow[f] \in Places
  BY DEF Inv, TypeOK
<1>7. CASE First(f) = e
  <2>1. op[e] # None /\ flow[f] \in {"request", "finalizing", "deleting"}
    BY <1>1, <1>7, <1>p DEF Progress, FlowInv, Idle, At, Places
  <2>2. /\ op'[Again(f)] = op[Again(f)] /\ result'[Again(f)] = result[Again(f)]
        /\ kept'[Again(f)] = kept[Again(f)]
    BY <1>1, <1>2, <1>7 DEF Progress
  <2>3. ASSUME NEW v, NEW old, Written(f, e, v, old) PROVE Written(f, e, v, old)'
    BY <1>1, <1>2, <1>6, <1>7, <2>1, <2>3 DEF Progress, Written, Persisting, Goal
  <2>4. Unstored(f, e) => Unstored(f, e)'
    BY <1>1, <1>2, <1>6, <1>7, <2>1 DEF Progress, Unstored, Deleting, Goal
  <2> QED BY <1>1, <1>2, <1>7, <2>1, <2>2, <2>3, <2>4 DEF FlowInv, At, Idle, Shows
<1>8. CASE Again(f) = e
  <2>1. op[e] # None /\ At(f, "afresh")
    BY <1>1, <1>8, <1>p DEF Progress, FlowInv, Idle, At, Places
  <2>2. /\ op'[First(f)] = op[First(f)] /\ result'[First(f)] = result[First(f)]
        /\ kept'[First(f)] = kept[First(f)]
    BY <1>1, <1>2, <1>8 DEF Progress
  <2>3. Written(f, e, Final, None)'
    <3>1. Written(f, e, Final, None)
      BY <1>1, <1>8, <2>1 DEF FlowInv
    <3> QED BY <1>1, <1>2, <1>6, <1>8, <2>1, <3>1 DEF Progress, Written, Persisting, Goal
  <2> QED BY <1>1, <1>2, <1>5, <1>8, <2>1, <2>2, <2>3 DEF FlowInv, At, Idle, Shows
<1> QED BY <1>4, <1>7, <1>8

-----------------------------------------------------------------------------
(* The hooks of a flow.                                                    *)

\* The other flows, when a hook of f changes what is f's.
LEMMA Elsewhere ==
  ASSUME NEW f \in Flows, \A g \in Flows : FlowInv(g),
         \A g \in Flows \ {f} : flow'[g] = flow[g] /\ prov'[g] = prov[g],
         \A x \in Exchanges \ {First(f), Again(f)} :
           /\ op'[x] = op[x] /\ result'[x] = result[x] /\ kept'[x] = kept[x]
           /\ x \in shown' <=> x \in shown
           /\ x \notin touched /\ op[x] = None /\ kept[x] # None /\ cache[x] # None =>
                cache'[x] # None,
         touched' = touched, faults' = faults, crashes' = crashes
  PROVE  \A g \in Flows \ {f} : FlowInv(g)'
<1> SUFFICES ASSUME NEW g \in Flows \ {f} PROVE FlowInv(g)'
  OBVIOUS
<1>1. \A x \in {First(g), Again(g)} : x \in Exchanges \ {First(f), Again(f)}
  BY FlowIds
<1>2. At(g, "new") => First(g) \notin touched' /\ Again(g) \notin touched'
  BY DEF FlowInv
<1>3. At(g, "finding") /\ First(g) \notin touched' /\ cache[First(g)] # None =>
        cache'[First(g)] # None
  BY <1>1, NoneIsNone DEF FlowInv, At, Idle
<1> QED BY <1>1, <1>2, <1>3, FlowKept

\* An operation begins on an exchange of a flow that is not gone.
LEMMA BeginStep ==
  ASSUME Inv, TypeOK', NEW e \in Exchanges, flow[e[1]] # "gone",
         \A g \in Flows : flow[g] = "gone" => flow'[g] = "gone",
         Delete(e) \/ \E v \in Versions : Persist(e, v)
  PROVE  /\ Kept /\ op'[e] # None
         /\ \A x \in Exchanges \ {e} : op'[x] = op[x] /\ result'[x] = result[x]
         /\ UNCHANGED <<kept, touched, faults, crashes, cache>>
<1>1. /\ UNCHANGED <<live, bak, del, index, cache, stale, lock, kept, rows, stamping, touched,
                    visits, faults, crashes>>
      /\ op[e] = None
  BY DEF Delete, Persist, disk, visitor
<1>2. /\ StoreTypeOK /\ StoreInv /\ \A x \in Exchanges : ExchangeInv(x)
      /\ SetAside(e) /\ Whole(e) /\ Listed(e) /\ Exact(e) /\ faults \in Nat /\ faults' \in Nat
      /\ e # None
  BY Before
<1>3. op'[e] # None /\ \A x \in Exchanges \ {e} : op'[x] = op[x]
  BY <1>2, BeginTyped
<1>4. \A x \in Exchanges \ {e} : result'[x] = result[x] /\ tmp'[x] = tmp[x]
  BY <1>2 DEF Delete, Persist, disk, StoreTypeOK
<1>5. bak[e] = None /\ del[e] = None
  BY <1>1, <1>2 DEF SetAside, Persisting, Deleting
<1>6. e \notin touched => live[e] = kept[e]
  BY <1>1, <1>2, <1>5 DEF Whole, Recovered
<1>7. ASSUME NEW x \in Exchanges \ {e} PROVE ExchangeInv(x)'
  <2>1. flow[x[1]] = "gone" => flow'[x[1]] = "gone"
    BY FlowIds
  <2> QED BY <1>1, <1>2, <1>3, <1>4, <2>1, Untouched
<1>8. CASE Delete(e)
  <2>1. op'[e] = [do |-> "delete", step |-> "stage", found |-> live[e] # None]
    BY <1>2, <1>8 DEF Delete, StoreTypeOK
  <2>2. op'[e].do = "delete" /\ op'[e].step = "stage" /\ op'[e].found = (live[e] # None)
    BY <2>1
  <2>3. ExchangeInv(e)'
    BY <1>1, <1>2, <1>3, <1>5, <1>6, <2>2
       DEF ExchangeInv, SetAside, Whole, Listed, Exact, Persisting, Deleting, OpAt, Built, Calm,
           Staged
  <2>4. StoreInv'
    BY <1>1, <1>2, <1>3, <2>2, StoreInvKept DEF OpAt, Held, Staged
  <2> QED BY <1>1, <1>3, <1>4, <1>7, <2>3, <2>4 DEF Kept
<1>9. CASE \E v \in Versions : Persist(e, v)
  <2>1. PICK v \in Versions : Persist(e, v)
    BY <1>9
  <2>2. op'[e] = [do |-> "persist", step |-> "write", version |-> v, backed |-> FALSE,
                  before |-> None] /\ tmp'[e] = TRUE
    BY <1>2, <2>1 DEF Persist, StoreTypeOK
  <2>3. op'[e].do = "persist" /\ op'[e].step = "write"
    BY <2>2
  <2>4. ExchangeInv(e)'
    BY <1>1, <1>2, <1>3, <1>5, <1>6, <2>2, <2>3
       DEF ExchangeInv, SetAside, Whole, Listed, Exact, Persisting, Deleting, OpAt, Built, Calm,
           Swapped
  <2>5. StoreInv'
    BY <1>1, <1>2, <1>3, <2>3, StoreInvKept DEF OpAt, Held, Staged
  <2> QED BY <1>1, <1>3, <1>4, <1>7, <2>4, <2>5 DEF Kept
<1> QED BY <1>8, <1>9

\* A hook that leaves the store alone.
LEMMA IdleStep ==
  ASSUME Inv, TypeOK', UNCHANGED storeVars,
         \A g \in Flows : flow[g] = "gone" => flow'[g] = "gone"
  PROVE  Kept
<1>1. UNCHANGED <<live, tmp, bak, del, index, cache, stale, lock, op, result, kept, rows, stamping,
                  touched, visits, faults, crashes>>
  BY DEF storeVars, disk, memory, visitor
<1>2. ASSUME NEW x \in Exchanges PROVE ExchangeInv(x)'
  <2>1. ExchangeInv(x) /\ (flow[x[1]] = "gone" => flow'[x[1]] = "gone")
    BY FlowIds DEF Inv
  <2> QED BY <1>1, <2>1, Untouched
<1>3. StoreInv'
  BY <1>1 DEF Inv, StoreInv, OpAt
<1> QED BY <1>2, <1>3 DEF Kept

Flowwise == \A g \in Flows : FlowInv(g)'

\* The invariant before a hook, in the facts the hooks use.
LEMMA HookBefore ==
  ASSUME Inv, NEW f \in Flows
  PROVE  /\ FlowInv(f) /\ \A g \in Flows : FlowInv(g)
         /\ First(f) \in Exchanges /\ First(f)[1] = f /\ Again(f) \in Exchanges /\ Again(f)[1] = f
         /\ First(f) # Again(f) /\ First(f)' = First(f) /\ Again(f)' = Again(f)
         /\ flow \in [Flows -> Places] /\ prov \in [Flows -> BOOLEAN] /\ StoreTypeOK
         /\ Provisional \in Versions /\ Final \in Versions
BY FlowIds DEF Inv, TypeOK, First, Again, Versions

\* A hook that starts an operation on an exchange e of f and leads to a place.
LEMMA StartStep ==
  ASSUME Inv, TypeOK', NEW f \in Flows, NEW e \in {First(f), Again(f)}, flow[f] # "gone",
         NEW place \in Places, Go(f, place),
         Delete(e) \/ \E v \in Versions : Persist(e, v), UNCHANGED <<prov, shown>>,
         FlowInv(f)'
  PROVE  Kept /\ Flowwise
<1>1. /\ e \in Exchanges /\ e[1] = f /\ \A g \in Flows : FlowInv(g)
      /\ flow'[f] = place /\ \A g \in Flows \ {f} : flow'[g] = flow[g]
  BY HookBefore DEF Go
<1>2. /\ Kept /\ \A x \in Exchanges \ {e} : op'[x] = op[x] /\ result'[x] = result[x]
      /\ UNCHANGED <<kept, touched, faults, crashes, cache>>
  BY <1>1, BeginStep
<1>3. \A g \in Flows \ {f} : FlowInv(g)'
  BY <1>1, <1>2, Elsewhere
<1> QED BY <1>2, <1>3 DEF Flowwise

\* A hook that leaves the store alone and tells the browsers of an exchange of f.
LEMMA TellStep ==
  ASSUME Inv, TypeOK', NEW f \in Flows, NEW e \in {First(f), Again(f)}, flow[f] # "gone",
         NEW place \in Places, Go(f, place), UNCHANGED storeVars,
         \A g \in Flows \ {f} : prov'[g] = prov[g],
         \A x \in Exchanges \ {e} : x \in shown' <=> x \in shown,
         FlowInv(f)'
  PROVE  Kept /\ Flowwise
<1>1. /\ e \in Exchanges /\ \A g \in Flows : FlowInv(g)
      /\ flow'[f] = place /\ \A g \in Flows \ {f} : flow'[g] = flow[g]
  BY HookBefore DEF Go
<1>2. Kept
  BY <1>1, IdleStep
<1>3. UNCHANGED <<op, result, kept, cache, touched, faults, crashes>>
  BY DEF storeVars, memory, visitor
<1>4. \A g \in Flows \ {f} : FlowInv(g)'
  BY <1>1, <1>3, Elsewhere
<1> QED BY <1>2, <1>4 DEF Flowwise

\* Writing e of f: what the flow knows of e.
LEMMA PersistFacts ==
  ASSUME Inv, NEW f \in Flows, NEW e \in Exchanges, NEW v \in Versions, Persist(e, v)
  PROVE  /\ Persisting(e)' /\ op'[e].version = v /\ op[e] = None
         /\ \A x \in Exchanges \ {e} : op'[x] = op[x] /\ result'[x] = result[x]
         /\ kept' = kept /\ touched' = touched /\ faults' = faults /\ crashes' = crashes
<1>1. op \in [Exchanges -> Maybe(Operations)] /\ result \in [Exchanges -> {None, "ok", "failed"}]
  BY DEF Inv, TypeOK, StoreTypeOK
<1>2. [do |-> "persist", step |-> "write", version |-> v, backed |-> FALSE, before |-> None]
        \in Operations
  BY DEF Operations, PersistOps, PersistSteps, Maybe
<1>3. op'[e] = [do |-> "persist", step |-> "write", version |-> v, backed |-> FALSE,
                before |-> None]
  BY <1>1 DEF Persist
<1> QED BY <1>1, <1>2, <1>3, StoreConstants DEF Persist, Persisting, visitor

LEMMA RequestHook ==
  ASSUME Inv, TypeOK', NEW f \in Flows, Request(f)
  PROVE  Kept /\ Flowwise
<1>1. /\ FlowInv(f) /\ First(f) \in Exchanges /\ Again(f) \in Exchanges /\ First(f) # Again(f)
      /\ First(f)' = First(f) /\ Again(f)' = Again(f)
      /\ flow \in [Flows -> Places] /\ Provisional \in Versions
  BY HookBefore
<1>2. /\ flow[f] = "new" /\ flow'[f] = "request" /\ UNCHANGED <<prov, shown>>
      /\ Persist(First(f), Provisional) /\ Go(f, "request")
  BY <1>1 DEF Request, At, Go
<1>3. FlowInv(f)'
  BY <1>1, <1>2, PersistFacts DEF FlowInv, At, Idle, Shows, Written
<1> QED BY <1>1, <1>2, <1>3, StartStep DEF Places

LEMMA DecidedHook ==
  ASSUME Inv, TypeOK', NEW f \in Flows, Forward(f) \/ Drop(f)
  PROVE  Kept /\ Flowwise
<1>1. /\ FlowInv(f) /\ First(f) \in Exchanges /\ Again(f) \in Exchanges /\ First(f) # Again(f)
      /\ First(f)' = First(f) /\ Again(f)' = Again(f)
      /\ flow \in [Flows -> Places] /\ prov \in [Flows -> BOOLEAN]
  BY HookBefore
<1>2. PICK place \in {"sent", "dropped"} : Decided(f, place)
  BY DEF Forward, Drop
<1>3. /\ flow[f] = "request" /\ flow'[f] = place /\ op[First(f)] = None
      /\ prov'[f] = (result[First(f)] = "ok") /\ \A g \in Flows \ {f} : prov'[g] = prov[g]
      /\ shown' = IF result[First(f)] = "ok" THEN shown \cup {First(f)} ELSE shown
      /\ UNCHANGED <<storeVars, op, result, kept, touched, faults, crashes>> /\ Go(f, place)
  BY <1>1, <1>2 DEF Decided, At, Go, Emit, storeVars, memory, visitor
<1>4. FlowInv(f)'
  BY <1>1, <1>3, NoneIsNone DEF FlowInv, At, Idle, Shows, Written, Excused, Persisting
<1> QED BY <1>1, <1>3, <1>4, TellStep DEF Places

LEMMA ResponseHook ==
  ASSUME Inv, TypeOK', NEW f \in Flows, Response(f)
  PROVE  Kept /\ Flowwise
<1>1. /\ FlowInv(f) /\ First(f) \in Exchanges /\ Again(f) \in Exchanges /\ First(f) # Again(f)
      /\ First(f)' = First(f) /\ Again(f)' = Again(f)
      /\ flow \in [Flows -> Places] /\ Final \in Versions
  BY HookBefore
<1>2. /\ flow[f] = "sent" /\ ~prov[f] /\ flow'[f] = "afresh" /\ UNCHANGED <<prov, shown>>
      /\ Persist(Again(f), Final) /\ Go(f, "afresh")
  BY <1>1 DEF Response, At, Go
<1>3. FlowInv(f)'
  BY <1>1, <1>2, PersistFacts DEF FlowInv, At, Idle, Shows, Written, Excused
<1> QED BY <1>1, <1>2, <1>3, StartStep DEF Places

LEMMA FinalizeHook ==
  ASSUME Inv, TypeOK', NEW f \in Flows, Finalize(f)
  PROVE  Kept /\ Flowwise
<1>1. /\ FlowInv(f) /\ First(f) \in Exchanges /\ Again(f) \in Exchanges /\ First(f) # Again(f)
      /\ First(f)' = First(f) /\ Again(f)' = Again(f)
      /\ flow \in [Flows -> Places] /\ Final \in Versions
  BY HookBefore
<1>2. flow[f] = "finding" /\ UNCHANGED <<prov, shown>>
  BY DEF Finalize, At
<1>3. CASE cache[First(f)] # None
  <2>1. flow'[f] = "finalizing" /\ Persist(First(f), Final) /\ Go(f, "finalizing")
    BY <1>1, <1>3 DEF Finalize, Go
  <2>2. FlowInv(f)'
    BY <1>1, <1>2, <2>1, PersistFacts, NoneIsNone DEF FlowInv, At, Idle, Shows, Written
  <2> QED BY <1>1, <1>2, <2>1, <2>2, StartStep DEF Places
<1>4. CASE cache[First(f)] = None
  <2>1. flow'[f] = "afresh" /\ Persist(Again(f), Final) /\ Go(f, "afresh")
    BY <1>1, <1>4 DEF Finalize, Go
  <2>2. FlowInv(f)'
    BY <1>1, <1>2, <1>4, <2>1, PersistFacts DEF FlowInv, At, Idle, Shows, Written, Excused
  <2> QED BY <1>1, <1>2, <2>1, <2>2, StartStep DEF Places
<1> QED BY <1>3, <1>4

LEMMA FinalizedHook ==
  ASSUME Inv, TypeOK', NEW f \in Flows, Finalized(f)
  PROVE  Kept /\ Flowwise
<1>1. /\ FlowInv(f) /\ First(f) \in Exchanges /\ Again(f) \in Exchanges /\ First(f) # Again(f)
      /\ First(f)' = First(f) /\ Again(f)' = Again(f)
      /\ flow \in [Flows -> Places] /\ Final \in Versions
  BY HookBefore
<1>2. flow[f] = "finalizing" /\ prov' = prov /\ op[First(f)] = None
  BY DEF Finalized, At
<1>3. CASE result[First(f)] = "ok"
  <2>1. /\ flow'[f] = "recorded" /\ Go(f, "recorded") /\ shown' = shown \cup {First(f)}
        /\ UNCHANGED <<storeVars, op, result, kept, touched, faults, crashes>>
    BY <1>1, <1>3 DEF Finalized, Go, Emit, storeVars, memory, visitor
  <2>2. FlowInv(f)'
    BY <1>1, <1>2, <1>3, <2>1, NoneIsNone DEF FlowInv, At, Idle, Shows, Written, Persisting
  <2> QED BY <1>1, <1>2, <2>1, <2>2, TellStep DEF Places
<1>4. CASE result[First(f)] # "ok"
  <2>1. /\ flow'[f] = "afresh" /\ Persist(Again(f), Final) /\ Go(f, "afresh") /\ shown' = shown
    BY <1>1, <1>4 DEF Finalized, Go
  <2>2. FlowInv(f)'
    BY <1>1, <1>2, <1>4, <2>1, PersistFacts, NoneIsNone
       DEF FlowInv, At, Idle, Shows, Written, Excused, Persisting
  <2> QED BY <1>1, <1>2, <2>1, <2>2, StartStep DEF Places
<1> QED BY <1>3, <1>4

LEMMA StoredAfreshHook ==
  ASSUME Inv, TypeOK', NEW f \in Flows, StoredAfresh(f)
  PROVE  Kept /\ Flowwise
<1>1. /\ FlowInv(f) /\ First(f) \in Exchanges /\ Again(f) \in Exchanges /\ First(f) # Again(f)
      /\ First(f)' = First(f) /\ Again(f)' = Again(f) /\ flow \in [Flows -> Places]
  BY HookBefore
<1>2. PICK place \in {"recorded", "unrecorded"} :
        /\ flow'[f] = place /\ Go(f, place)
        /\ shown' = IF result[Again(f)] = "ok" THEN shown \cup {Again(f)} ELSE shown
  BY <1>1 DEF StoredAfresh, Go, Emit
<1>3. /\ flow[f] = "afresh" /\ op[Again(f)] = None /\ prov' = prov
      /\ UNCHANGED <<storeVars, op, result, kept, touched, faults, crashes>>
  BY DEF StoredAfresh, At, storeVars, memory, visitor
<1>4. FlowInv(f)'
  BY <1>1, <1>2, <1>3, NoneIsNone DEF FlowInv, At, Idle, Shows, Written, Excused, Persisting
<1> QED BY <1>1, <1>2, <1>3, <1>4, TellStep DEF Places

LEMMA DiscardHook ==
  ASSUME Inv, TypeOK', NEW f \in Flows, Discard(f)
  PROVE  Kept /\ Flowwise
<1>1. /\ FlowInv(f) /\ First(f) \in Exchanges /\ Again(f) \in Exchanges /\ First(f) # Again(f)
      /\ First(f)' = First(f) /\ Again(f)' = Again(f) /\ flow \in [Flows -> Places]
      /\ StoreTypeOK
  BY HookBefore
<1>2. flow[f] \in {"sent", "dropped"} /\ UNCHANGED <<prov, shown>>
  BY DEF Discard, At
<1>3. CASE prov[f]
  <2>1. flow'[f] = "deleting" /\ Delete(First(f)) /\ Go(f, "deleting")
    BY <1>1, <1>3 DEF Discard, Go
  <2>2. /\ Deleting(First(f))'
        /\ \A x \in Exchanges \ {First(f)} : op'[x] = op[x] /\ result'[x] = result[x]
        /\ kept' = kept
    <3>1. op'[First(f)] = [do |-> "delete", step |-> "stage", found |-> live[First(f)] # None]
      BY <1>1, <2>1 DEF Delete, StoreTypeOK
    <3>2. op'[First(f)] # None
      BY <1>1, <2>1, BeginTyped
    <3> QED BY <1>1, <2>1, <3>1, <3>2 DEF Delete, Deleting, StoreTypeOK
  <2>3. FlowInv(f)'
    BY <1>1, <1>2, <1>3, <2>1, <2>2, NoneIsNone DEF FlowInv, At, Idle, Shows, Unstored
  <2> QED BY <1>1, <1>2, <2>1, <2>3, StartStep DEF Places
<1>4. CASE ~prov[f]
  <2>1. flow'[f] = "discarded" /\ Go(f, "discarded")
        /\ UNCHANGED <<storeVars, op, result, kept, touched, faults, crashes>>
    BY <1>1, <1>4 DEF Discard, Go, storeVars, memory, visitor
  <2>2. FlowInv(f)'
    BY <1>1, <1>2, <1>4, <2>1 DEF FlowInv, At, Idle, Shows, Excused
  <2> QED BY <1>1, <1>2, <2>1, <2>2, TellStep DEF Places
<1> QED BY <1>3, <1>4

LEMMA DiscardedHook ==
  ASSUME Inv, TypeOK', NEW f \in Flows, Discarded(f)
  PROVE  Kept /\ Flowwise
<1>1. /\ FlowInv(f) /\ First(f) \in Exchanges /\ Again(f) \in Exchanges /\ First(f) # Again(f)
      /\ First(f)' = First(f) /\ Again(f)' = Again(f)
      /\ flow \in [Flows -> Places] /\ prov \in [Flows -> BOOLEAN]
  BY HookBefore
<1>2. /\ flow[f] = "deleting" /\ op[First(f)] = None /\ flow'[f] = "discarded"
      /\ Go(f, "discarded") /\ \A g \in Flows \ {f} : prov'[g] = prov[g]
      /\ shown' = IF result[First(f)] = "ok" THEN shown \ {First(f)} ELSE shown
      /\ UNCHANGED <<storeVars, op, result, kept, touched, faults, crashes>>
  BY <1>1 DEF Discarded, At, Go, Emit, storeVars, memory, visitor
<1>3. FlowInv(f)'
  BY <1>1, <1>2, NoneIsNone DEF FlowInv, At, Idle, Shows, Unstored, Excused, Deleting
<1> QED BY <1>1, <1>2, <1>3, TellStep DEF Places

LEMMA LookUpHook ==
  ASSUME Inv, TypeOK', NEW f \in Flows, LookUp(f)
  PROVE  Kept /\ Flowwise
<1>1. /\ FlowInv(f) /\ First(f) \in Exchanges /\ Again(f) \in Exchanges /\ First(f) # Again(f)
      /\ First(f)' = First(f) /\ Again(f)' = Again(f)
      /\ flow \in [Flows -> Places] /\ StoreTypeOK /\ \A g \in Flows : FlowInv(g)
  BY HookBefore
<1>2. /\ UNCHANGED <<tmp, bak, lock, op, result, kept, rows, stamping, touched, visits, faults,
                    crashes, prov, shown>>
      /\ flow[f] = "sent" /\ prov[f] /\ flow'[f] = "finding" /\ lock = None /\ stale' = FALSE
      /\ cache' = Entries /\ Ensure
      /\ \A g \in Flows \ {f} : flow'[g] = flow[g]
  BY <1>1 DEF LookUp, At, Go, visitor
<1>3. /\ live' = IF stale THEN Reclaimed(index) ELSE live
      /\ del' = IF stale THEN Nothing ELSE del
      /\ index' = IF stale THEN Recognised(index) ELSE index
  BY <1>1, <1>2, EnsureFacts
<1>4. ASSUME NEW x \in Exchanges PROVE ExchangeInv(x)'
  <2>1. ExchangeInv(x) /\ StoreInv /\ lock' # x
    BY <1>2, NoneIsNone DEF Inv
  <2> QED BY <1>1, <1>2, <1>3, <2>1, Rebuilt
<1>5. StoreInv'
  BY <1>2 DEF Inv, StoreInv, OpAt
<1>6. ASSUME NEW x \in Exchanges, x \notin touched, op[x] = None, kept[x] # None
      PROVE  cache'[x] # None
  BY <1>2, <1>4, <1>6 DEF ExchangeInv, Listed, Built, Deleting
<1>7. FlowInv(f)'
  BY <1>1, <1>2, <1>6, NoneIsNone DEF FlowInv, At, Idle, Shows, Excused
<1>8. \A g \in Flows \ {f} : FlowInv(g)'
  BY <1>1, <1>2, <1>6, Elsewhere
<1> QED BY <1>4, <1>5, <1>7, <1>8 DEF Kept, Flowwise

-----------------------------------------------------------------------------
(* A crash, and the visits of the other process.                           *)

LEMMA CrashStep ==
  ASSUME Inv, TypeOK', Crash
  PROVE  Kept /\ Flowwise
<1>1. /\ UNCHANGED <<del, index, rows, stamping, touched, visits, faults, prov>>
      /\ crashes' = crashes + 1 /\ crashes \in Nat /\ stale' = TRUE /\ lock' = None
      /\ \A e \in Exchanges : /\ bak'[e] = None /\ op'[e] = None /\ cache'[e] = None
                              /\ kept'[e] = Recovered(e)
                              /\ e \in shown' <=> Recovered(e) # None
      /\ \A f \in Flows :
           flow'[f] = IF flow[f] = "new" \/ Ended(f) THEN flow[f] ELSE "gone"
  BY MishapFacts, StoreConstants DEF Crash, StoreCrash, Inv, TypeOK, visitor, Nothing, At
<1>2. \A e \in Exchanges : live'[e] = IF live[e] # None THEN live[e] ELSE bak[e]
  <2>1. PICK half \in SUBSET {e \in Exchanges : Swapping(e)} :
          live' = CleanedUp([e \in Exchanges |-> IF e \in half THEN None ELSE live[e]],
                            [e \in Exchanges |-> IF e \in half THEN live[e] ELSE bak[e]])
    BY DEF Crash, StoreCrash
  <2>2. \A e \in half : live[e] # None
    BY <2>1 DEF Swapping
  <2> QED BY <2>1, <2>2 DEF CleanedUp
<1>3. ASSUME NEW e \in Exchanges PROVE ExchangeInv(e)'
  <2>1. /\ e[1] \in Flows /\ e \in {First(e[1]), Again(e[1])} /\ FlowInv(e[1]) /\ SetAside(e)
        /\ flow[e[1]] \in Places
    BY FlowIds DEF Inv, ExchangeInv, TypeOK
  <2>2. del[e] # None => flow'[e[1]] = "gone"
    <3>1. CASE op[e] # None
      BY <1>1, <2>1, <3>1 DEF FlowInv, At, Idle, Ended, Places
    <3>2. CASE op[e] = None
      BY <1>1, <2>1, <3>2 DEF SetAside, Deleting, Ended
    <3> QED BY <3>1, <3>2
  <2>3. Recovered(e)' = Recovered(e)
    BY <1>1, <1>2 DEF Recovered
  <2>4. SetAside(e)' /\ Whole(e)'
    BY <1>1, <2>2, <2>3 DEF SetAside, Whole, Persisting, Deleting
  <2>5. Listed(e)' /\ Exact(e)'
    BY <1>1 DEF Listed, Exact, Built, Calm, OpAt
  <2> QED BY <2>4, <2>5 DEF ExchangeInv
<1>4. ASSUME NEW f \in Flows PROVE FlowInv(f)'
  <2>1. /\ FlowInv(f) /\ First(f) \in Exchanges /\ Again(f) \in Exchanges
        /\ First(f)' = First(f) /\ Again(f)' = Again(f) /\ flow[f] \in Places
    BY HookBefore
  <2>2. \A x \in {First(f), Again(f)} : Idle(x)' /\ op'[x] = None
    BY <1>1, <2>1 DEF Idle, Shows
  <2>3. ASSUME NEW x \in {First(f), Again(f)}, x \notin touched, op[x] = None
        PROVE  kept'[x] = kept[x]
    BY <1>1, <2>1, <2>3 DEF Inv, ExchangeInv, Whole
  <2>4. Excused(f)' <=> Excused(f)
    BY <1>1, <2>1 DEF Excused
  <2>5. CASE flow[f] \in {"new", "recorded", "unrecorded", "discarded"}
    <3>1. flow'[f] = flow[f] /\ op[First(f)] = None /\ op[Again(f)] = None
      BY <1>1, <2>1, <2>5 DEF Ended, FlowInv, At, Idle
    <3>2. CASE Excused(f)
      BY <1>1, <2>1, <2>2, <2>3, <2>4, <2>5, <3>1, <3>2 DEF FlowInv, At, Idle
    <3>3. CASE ~Excused(f)
      <4>1. kept'[First(f)] = kept[First(f)] /\ kept'[Again(f)] = kept[Again(f)]
        BY <2>3, <3>1, <3>3 DEF Excused
      <4>2. CASE flow[f] = "new"
        BY <1>1, <2>1, <2>2, <3>1, <4>1, <4>2 DEF FlowInv, At
      <4>3. CASE flow[f] = "recorded"
        BY <2>1, <2>2, <3>1, <3>3, <4>1, <4>3 DEF FlowInv, At
      <4>4. CASE flow[f] = "discarded"
        BY <2>1, <2>2, <3>1, <3>3, <4>1, <4>4 DEF FlowInv, At
      <4>5. CASE flow[f] = "unrecorded"
        BY <2>1, <2>2, <3>1, <4>5 DEF FlowInv, At
      <4> QED BY <2>5, <4>2, <4>3, <4>4, <4>5
    <3> QED BY <3>2, <3>3
  <2>6. CASE flow[f] \notin {"new", "recorded", "unrecorded", "discarded"}
    <3>1. flow'[f] = "gone" /\ crashes' > 0
      BY <1>1, <2>1, <2>6 DEF Ended
    <3> QED BY <2>1, <2>2, <3>1 DEF FlowInv, At
  <2> QED BY <2>5, <2>6
<1>5. StoreInv'
  BY <1>1 DEF Inv, StoreInv, OpAt
<1> QED BY <1>3, <1>4, <1>5 DEF Kept, Flowwise

\* What a visit leaves of the store.
LEMMA VisitStep ==
  ASSUME Inv, TypeOK', VisitOpens \/ VisitRebuilds \/ VisitStamps, UNCHANGED httpVars
  PROVE  Kept /\ Flowwise
<1>1. /\ UNCHANGED <<cache, lock, op, result, kept, faults, crashes, flow, prov, shown>>
      /\ touched' = touched \cup Touched
  BY DEF VisitOpens, VisitRebuilds, VisitStamps, memory, httpVars
<1>2. /\ StoreTypeOK /\ StoreInv /\ \A x \in Exchanges : ExchangeInv(x)
      /\ visits \in Nat
  BY MishapFacts, StoreConstants DEF Inv, TypeOK
<1>3. visits' > 0
  <2>1. CASE VisitOpens
    BY <1>2, <2>1 DEF VisitOpens
  <2>2. CASE VisitRebuilds \/ VisitStamps
    <3>1. rows # None /\ visits' = visits
      BY <1>2, <2>2 DEF VisitRebuilds, VisitStamps, StoreTypeOK
    <3> QED BY <1>2, <3>1 DEF StoreInv
  <2> QED BY <2>1, <2>2
<1>4. ASSUME NEW x \in Exchanges
      PROVE  /\ bak'[x] \in {bak[x], None} /\ del'[x] \in {del[x], None} /\ (stale => stale')
             /\ x \notin touched' => /\ x \notin touched /\ op[x] = None
                                     /\ bak[x] = None /\ del[x] = None /\ live'[x] = live[x]
  <2>1. x \notin touched' => x \notin touched /\ op[x] = None /\ bak[x] = None /\ del[x] = None
    BY <1>1, <1>2 DEF Touched, ExchangeInv, SetAside, Persisting
  <2>2. CASE VisitOpens
    BY <1>2, <2>1, <2>2 DEF VisitOpens, CleanedUp, Nothing, memory
  <2>3. CASE VisitRebuilds
    <3>1. live' = Reclaimed(rows) /\ del' = Nothing /\ bak' = bak /\ (stale => stale')
      BY <2>3 DEF VisitRebuilds, Reconcile
    <3> QED BY <2>1, <3>1 DEF Reclaimed, Nothing
  <2>4. CASE VisitStamps
    BY <2>1, <2>4 DEF VisitStamps
  <2> QED BY <2>2, <2>3, <2>4
<1>5. ASSUME NEW x \in Exchanges PROVE ExchangeInv(x)'
  <2>1. SetAside(x)'
    <3>1. SetAside(x)
      BY <1>2 DEF ExchangeInv
    <3> QED BY <1>1, <1>4, <3>1 DEF SetAside, Persisting, Deleting
  <2>2. x \notin touched' => Recovered(x)' = Recovered(x)
    BY <1>4 DEF Recovered
  <2>3. Whole(x)' /\ Listed(x)'
    BY <1>1, <1>2, <1>4, <2>2
       DEF ExchangeInv, Whole, Listed, Persisting, Deleting, OpAt, Built, StoreTypeOK
  <2>4. Exact(x)'
    BY <1>3 DEF Exact, Calm
  <2> QED BY <2>1, <2>3, <2>4 DEF ExchangeInv
<1>6. ASSUME NEW f \in Flows PROVE FlowInv(f)'
  <2>1. /\ FlowInv(f) /\ First(f) \in Exchanges /\ Again(f) \in Exchanges
        /\ First(f)[1] = f /\ Again(f)[1] = f
    BY HookBefore
  <2>2. ASSUME At(f, "new"), NEW x \in {First(f), Again(f)} PROVE x \notin touched'
    <3>1. /\ x \in Exchanges /\ x[1] = f /\ op[x] = None /\ x \notin touched /\ flow[f] = "new"
      BY <2>1, <2>2 DEF FlowInv, At, Idle
    <3>2. del[x] = None
      BY <1>2, <3>1 DEF ExchangeInv, SetAside, Deleting
    <3> QED BY <1>1, <3>1, <3>2 DEF Touched
  <2> QED BY <1>1, <2>1, <2>2, FlowKept
<1>7. StoreInv'
  BY <1>1, <1>2, <1>3 DEF StoreInv, OpAt
<1> QED BY <1>5, <1>6, <1>7 DEF Kept, Flowwise

-----------------------------------------------------------------------------
LEMMA Initial == Init => Inv
<1> SUFFICES ASSUME Init PROVE Inv
  OBVIOUS
<1> USE DEF Init, StoreInit, Nothing
<1>1. TypeOK
  <2>1. {faults, crashes, visits} \subseteq 0..MaxMishaps
    BY StoreConstants
  <2> QED BY <2>1, StoreConstants DEF TypeOK, StoreTypeOK, Maybe, Places
<1>2. StoreInv
  BY DEF StoreInv, OpAt
<1>3. ASSUME NEW e \in Exchanges PROVE ExchangeInv(e)
  BY DEF ExchangeInv, SetAside, Whole, Listed, Exact, Recovered, Persisting, Deleting, OpAt
<1>4. ASSUME NEW f \in Flows PROVE FlowInv(f)
  BY FlowIds DEF FlowInv, At, Idle, Shows
<1> QED BY <1>1, <1>2, <1>3, <1>4 DEF Inv

LEMMA Step == Inv /\ [Next]_vars => Inv'
<1> SUFFICES ASSUME Inv, [Next]_vars PROVE Inv'
  OBVIOUS
<1>1. TypeOK'
  BY Typing DEF Inv
<1>2. Kept /\ Flowwise => Inv'
  BY <1>1 DEF Kept, Flowwise, Inv
<1>3. CASE \E f \in Flows : Request(f) \/ Hook(f)
  BY <1>1, <1>2, <1>3, RequestHook, DecidedHook, ResponseHook, LookUpHook, FinalizeHook,
     FinalizedHook, StoredAfreshHook, DiscardHook, DiscardedHook DEF Hook
<1>4. CASE \E e \in Exchanges : StoreStep(e) /\ UNCHANGED httpVars
  BY <1>1, <1>2, <1>4, OperationStep, FlowsGoOn DEF Flowwise
<1>5. CASE Crash
  BY <1>1, <1>2, <1>5, CrashStep
<1>6. CASE (VisitOpens \/ VisitRebuilds \/ VisitStamps) /\ UNCHANGED httpVars
  BY <1>1, <1>2, <1>6, VisitStep
<1>7. CASE UNCHANGED vars
  <2>1. Kept
    BY <1>1, <1>7, IdleStep DEF vars, httpVars
  <2>2. ASSUME NEW f \in Flows PROVE FlowInv(f)'
    <3>1. FlowInv(f) /\ First(f)' = First(f) /\ Again(f)' = Again(f)
      BY HookBefore
    <3>2. UNCHANGED <<flow, prov, shown, op, result, kept, cache, touched, faults, crashes>>
      BY <1>7 DEF vars, httpVars, storeVars, memory, visitor
    <3> QED BY <3>1, <3>2, FlowKept DEF FlowInv
  <2> QED BY <1>2, <2>1, <2>2 DEF Flowwise
<1> QED BY <1>3, <1>4, <1>5, <1>6, <1>7 DEF Next

-----------------------------------------------------------------------------
\* The types of the store, its operations and the flows, for any bound of mishaps.
THEOREM TypeTheorem == Spec => []TypeOK
<1>1. Inv => TypeOK
  BY DEF Inv
<1> QED BY <1>1, Initial, Step, PTL DEF Spec

\* Every operation is all or nothing: what a restart would serve is what the callers
\* were told, or what the operation under way is to make of it, for any flows,
\* failing writes, crashes and visits.
THEOREM AllOrNothingTheorem == Spec => []AllOrNothing
<1>1. Inv => AllOrNothing
  <2> SUFFICES ASSUME Inv, NEW e \in Exchanges \ touched
               PROVE  Recovered(e) = kept[e] \/ (op[e] # None /\ Recovered(e) = Goal(e))
    BY DEF AllOrNothing
  <2>1. SetAside(e) /\ Whole(e) /\ StoreTypeOK
    BY DEF Inv, TypeOK, ExchangeInv
  <2>2. CASE op[e] = None
    BY <2>1, <2>2 DEF Whole
  <2>3. CASE op[e] # None /\ op[e].do = "persist"
    <3>1. /\ op[e].version # None /\ bak[e] \in {None, kept[e]}
          /\ op[e].step \in {"write", "activate"} \cup Swapped
      BY <2>1, <2>3, OpKinds, NoneIsNone
         DEF SetAside, Whole, Persisting, PersistOps, PersistSteps, Swapped
    <3>2. del[e] = None
      BY <2>1, <2>3 DEF SetAside, Deleting
    <3> QED BY <2>1, <2>3, <3>1, <3>2
            DEF SetAside, Whole, Persisting, Recovered, Goal, Swapped
  <2>4. CASE op[e] # None /\ op[e].do = "delete"
    <3>1. bak[e] = None /\ op[e].step \in {"stage"} \cup Staged
      BY <2>1, <2>4, OpKinds DEF SetAside, Persisting, DeleteOps, RemoveOps, Staged
    <3>2. op[e].step = "stage" => del[e] = None
      BY <2>1, <2>4 DEF SetAside, Staged
    <3> QED BY <2>1, <2>4, <3>1, <3>2 DEF Whole, Deleting, Recovered, Goal
  <2>5. op[e] # None => op[e].do \in {"persist", "delete"}
    BY <2>1, OpKinds DEF Operations, PersistOps, DeleteOps, RemoveOps
  <2> QED BY <2>2, <2>3, <2>4, <2>5
<1> QED BY <1>1, Initial, Step, PTL DEF Spec

\* A flow leaves one finished exchange when it was answered and none when it was
\* dropped or broke off, the browsers were told of what is stored, and the rows
\* describe it, for any flows, failing writes, crashes and visits.
THEOREM OneRecordTheorem == Spec => []OneRecord
<1>1. Inv => OneRecord
  <2> SUFFICES ASSUME Inv, NEW f \in Flows, {First(f), Again(f)} \cap touched = {}
               PROVE
                 LET stored == {e \in {First(f), Again(f)} : live[e] # None} IN
                   /\ faults = 0 /\ At(f, "recorded") =>
                        \E e \in stored : stored = {e} /\ live[e] = Final
                   /\ faults = 0 /\ At(f, "discarded") => stored = {}
                   /\ Ended(f) /\ ~At(f, "gone") => shown \cap {First(f), Again(f)} = stored
                   /\ Ended(f) /\ crashes = 0 /\ visits = 0 =>
                        \A e \in stored : index[e] = live[e]
    BY DEF OneRecord
  <2> DEFINE pair == {First(f), Again(f)}
             stored == {e \in pair : live[e] # None}
  <2>1. /\ FlowInv(f) /\ First(f) # Again(f) /\ pair \subseteq Exchanges
        /\ \A e \in pair : e[1] = f /\ e # None
        /\ StoreTypeOK /\ faults \in Nat
    BY HookBefore, NoneIsNone, MishapFacts, StoreConstants
  <2>2. Ended(f) => \A e \in pair : op[e] = None /\ (~At(f, "gone") => Shows(e))
    BY <2>1 DEF FlowInv, Ended, At, Idle
  <2>3. ASSUME Ended(f), ~At(f, "gone"), NEW e \in pair PROVE live[e] = kept[e]
    <3>1. /\ e \in Exchanges /\ e \notin touched /\ op[e] = None /\ ExchangeInv(e)
          /\ flow[e[1]] # "gone"
      BY <2>1, <2>2, <2>3 DEF Inv, At
    <3> QED BY <3>1 DEF ExchangeInv, SetAside, Whole, Recovered, Persisting, Deleting
  <2>5. faults = 0 => ~Excused(f)
    BY <2>1 DEF Excused
  <2>6. ASSUME faults = 0, At(f, "recorded")
        PROVE  \E e \in stored : stored = {e} /\ live[e] = Final
    <3>1. kept[First(f)] = Final /\ kept[Again(f)] = None
      BY <2>1, <2>5, <2>6 DEF FlowInv
    <3>2. live[First(f)] = Final /\ live[Again(f)] = None
      BY <2>3, <2>6, <3>1 DEF Ended, At
    <3>3. First(f) \in stored /\ stored = {First(f)}
      BY <3>2, NoneIsNone
    <3> QED BY <3>2, <3>3
  <2>7. faults = 0 /\ At(f, "discarded") => stored = {}
    BY <2>1, <2>3, <2>5 DEF FlowInv, Ended, At
  <2>8. Ended(f) /\ ~At(f, "gone") => shown \cap pair = stored
    BY <2>2, <2>3 DEF Shows
  <2>9. ASSUME Ended(f), crashes = 0, visits = 0, NEW e \in stored PROVE index[e] = live[e]
    <3>1. ~At(f, "gone")
      BY <2>1, <2>9 DEF FlowInv
    <3>2. kept[e] = live[e] /\ kept[e] # None /\ op[e] = None /\ e \in Exchanges /\ e # None
      BY <2>1, <2>2, <2>3, <2>9, <3>1
    <3>3. lock # e
      BY <2>1, <3>2 DEF StoreTypeOK
    <3> QED BY <2>9, <3>2, <3>3 DEF Inv, ExchangeInv, Exact, Calm, OpAt
  <2> QED BY <2>6, <2>7, <2>8, <2>9
<1> QED BY <1>1, Initial, Step, PTL DEF Spec

=============================================================================
