---------------------------- MODULE ExchangeStore ----------------------------
(***************************************************************************)
(* The exchanges a run keeps on disk (storage/disk.py, disk_helpers.py,    *)
(* disk_layout.py): a directory per exchange, swapped in by renames, and   *)
(* the rows of index.jsonl, rewritten as a whole under the index lock.     *)
(*                                                                         *)
(* What is stored under an id is abstracted to its version: Provisional    *)
(* (the request) or Final (with the response).  The steps of an operation  *)
(* are what runs between two awaits on the event loop; a crash falls       *)
(* between any two of them and, in the swap, between the renames.          *)
(* Operations on one exchange follow each other: the hooks of a flow do.   *)
(* The HTTP server is another process with a backend of its own on the     *)
(* same directory (api/v1/run_storage.py); its visit cleans up and         *)
(* rebuilds an index as a restart does, while the proxy is writing.        *)
(***************************************************************************)
EXTENDS Integers, FiniteSets

CONSTANTS
  Exchanges,
  MaxMishaps, \* bound: failing writes, crashes of the proxy, visits of the HTTP server
  None

VARIABLES
  live,     \* live[e]: the version in the exchange's directory
  tmp,      \* tmp[e]: whether a .tmp directory is there
  bak,      \* bak[e]: the version in the .bak directory
  del,      \* del[e]: the version in the .del directory
  index,    \* index[e]: the version the row in index.jsonl describes
  cache,    \* the index in memory
  stale,    \* the cache is not built, or the file is no longer the one it was built from
  lock,     \* the exchange whose operation holds _index_lock
  op,       \* op[e]: the operation under way on e
  result,   \* result[e]: what the last operation on e returned
  kept,     \* kept[e]: what the callers were last told e is
  rows,     \* the rows the visiting backend has read, None when it is away
  stamping, \* it is about to write them back with a token count
  touched,  \* the exchanges that were being changed during a visit
  faults, crashes, visits

disk == <<live, tmp, bak, del, index>>
memory == <<cache, stale, lock, op, result>>
visitor == <<rows, stamping, touched, visits>>
storeVars == <<disk, memory, kept, visitor, faults, crashes>>

-----------------------------------------------------------------------------
Provisional == 1
Final == 2
Versions == {Provisional, Final}
Maybe(S) == S \cup {None}

PersistSteps == {"write", "activate", "index", "rewrite", "clean", "undo"}
PersistOps ==
  [do : {"persist"}, step : PersistSteps, version : Versions, backed : BOOLEAN, before : Maybe(Versions)]
DeleteOps == [do : {"delete"}, step : {"stage"}, found : BOOLEAN]
RemoveOps == [do : {"delete"}, step : {"unlist", "remove"}, found : BOOLEAN, before : Maybe(Versions)]
Operations == PersistOps \cup DeleteOps \cup RemoveOps

ASSUME StoreConstants ==
  /\ MaxMishaps \in Nat
  /\ None \notin Versions /\ None \notin Exchanges /\ None \notin {"ok", "failed"}
  /\ None \notin Operations /\ None \notin [Exchanges -> Maybe(Versions)]

StoreTypeOK ==
  /\ live \in [Exchanges -> Maybe(Versions)] /\ tmp \in [Exchanges -> BOOLEAN]
  /\ bak \in [Exchanges -> Maybe(Versions)] /\ del \in [Exchanges -> Maybe(Versions)]
  /\ index \in [Exchanges -> Maybe(Versions)]
  /\ cache \in [Exchanges -> Maybe(Versions)] /\ stale \in BOOLEAN
  /\ lock \in Maybe(Exchanges)
  /\ op \in [Exchanges -> Maybe(Operations)]
  /\ result \in [Exchanges -> {None, "ok", "failed"}]
  /\ kept \in [Exchanges -> Maybe(Versions)]
  /\ rows \in Maybe([Exchanges -> Maybe(Versions)]) /\ touched \subseteq Exchanges
  /\ stamping \in BOOLEAN /\ (stamping => rows # None)
  /\ {faults, crashes, visits} \subseteq 0..MaxMishaps
  /\ lock # None => op[lock] # None /\ op[lock].step \in {"rewrite", "unlist", "remove"}

Nothing == [e \in Exchanges |-> None]

StoreInit ==
  /\ live = Nothing /\ tmp = [e \in Exchanges |-> FALSE] /\ bak = Nothing /\ del = Nothing
  /\ index = Nothing /\ cache = Nothing /\ stale = TRUE /\ lock = None
  /\ op = Nothing /\ result = Nothing /\ kept = Nothing
  /\ rows = None /\ stamping = FALSE /\ touched = {}
  /\ faults = 0 /\ crashes = 0 /\ visits = 0

-----------------------------------------------------------------------------
Busy(e, do, step) == op[e] # None /\ op[e].do = do /\ op[e].step = step
Advance(e, step) == op' = [op EXCEPT ![e].step = step]
Finish(e, r) == op' = [op EXCEPT ![e] = None] /\ result' = [result EXCEPT ![e] = r]
Mishap == faults + crashes + visits < MaxMishaps
MayFail == Mishap /\ faults' = faults + 1

\* Rebuilding the cache from rows read from the file (_ensure_index_cache): a
\* staged delete is finished, or taken back when its row is still there; a
\* directory without a row is given one from its entry sidecar, and the file
\* is written again when there was one.
Reclaimed(list) == [e \in Exchanges |-> IF live[e] = None /\ list[e] # None THEN del[e] ELSE live[e]]
Recognised(list) == [e \in Exchanges |-> IF list[e] = None THEN live[e] ELSE list[e]]
Reconcile(list) ==
  /\ live' = Reclaimed(list)
  /\ del' = Nothing
  /\ index' = IF Recognised(list) # list THEN Recognised(list) ELSE index
Entries == IF stale THEN Recognised(index) ELSE cache
Ensure == IF stale THEN Reconcile(index) ELSE UNCHANGED <<index, live, del>>

-----------------------------------------------------------------------------
(* persist_exchange: write aside, swap in, then rewrite the index.         *)

\* _prepare_exchange_write
Persist(e, v) ==
  /\ op[e] = None
  /\ op' = [op EXCEPT ![e] = [do |-> "persist", step |-> "write", version |-> v,
                              backed |-> FALSE, before |-> None]]
  /\ result' = [result EXCEPT ![e] = None]
  /\ tmp' = [tmp EXCEPT ![e] = TRUE]
  /\ UNCHANGED <<live, bak, del, index, cache, stale, lock, kept, visitor, faults, crashes>>

\* Without its directory the next write of a file fails.
FilesWritten(e) ==
  /\ Busy(e, "persist", "write")
  /\ \/ tmp[e] /\ Advance(e, "activate") /\ UNCHANGED <<tmp, result, faults>>
     \/ /\ IF tmp[e] THEN MayFail ELSE UNCHANGED faults
        /\ tmp' = [tmp EXCEPT ![e] = FALSE] /\ Finish(e, "failed")
  /\ UNCHANGED <<live, bak, del, index, cache, stale, lock, kept, visitor, crashes>>

\* _activate_exchange_dir: two renames.  When .tmp is gone the second fails
\* and the first is taken back.
Activate(e) ==
  /\ Busy(e, "persist", "activate") /\ tmp[e]
  /\ bak' = [bak EXCEPT ![e] = live[e]]
  /\ live' = [live EXCEPT ![e] = op[e].version]
  /\ tmp' = [tmp EXCEPT ![e] = FALSE]
  /\ op' = [op EXCEPT ![e].step = "index", ![e].backed = live[e] # None]
  /\ UNCHANGED <<del, index, cache, stale, lock, result, kept, visitor, faults, crashes>>

ActivateFails(e) ==
  /\ Busy(e, "persist", "activate") /\ ~tmp[e]
  /\ Finish(e, "failed")
  /\ UNCHANGED <<disk, cache, stale, lock, kept, visitor, faults, crashes>>

\* Under the lock the row joins the cache; the file follows.  The rebuild may
\* fail as well, before there is a cache.
EnterRow(e) ==
  /\ Busy(e, "persist", "index") /\ lock = None
  /\ \/ /\ lock' = e
        /\ Ensure /\ stale' = FALSE
        /\ op' = [op EXCEPT ![e].step = "rewrite", ![e].before = Entries[e]]
        /\ cache' = [Entries EXCEPT ![e] = op[e].version]
        /\ UNCHANGED faults
     \/ stale /\ MayFail /\ Advance(e, "undo") /\ UNCHANGED <<live, del, index, cache, stale, lock>>
  /\ UNCHANGED <<tmp, bak, result, kept, visitor, crashes>>

\* _rewrite_index: all rows of the cache, by a rename.  A failure takes the
\* row back, and then the directory.
RewriteRow(e) ==
  /\ Busy(e, "persist", "rewrite")
  /\ lock' = None
  /\ \/ index' = cache /\ stale' = FALSE /\ Advance(e, "clean") /\ UNCHANGED <<cache, faults>>
     \/ MayFail /\ cache' = [cache EXCEPT ![e] = op[e].before] /\ Advance(e, "undo") /\ UNCHANGED <<index, stale>>
  /\ UNCHANGED <<live, tmp, bak, del, result, kept, visitor, crashes>>

\* _cleanup_exchange_backup
Clean(e) ==
  /\ Busy(e, "persist", "clean")
  /\ bak' = [bak EXCEPT ![e] = None]
  /\ kept' = [kept EXCEPT ![e] = op[e].version]
  /\ Finish(e, "ok")
  /\ UNCHANGED <<live, tmp, del, index, cache, stale, lock, visitor, faults, crashes>>

\* Mutant of Undo: the previous version is not put back.
UndoWithoutBackup(e) ==
  /\ Busy(e, "persist", "undo")
  /\ live' = [live EXCEPT ![e] = None]
  /\ bak' = [bak EXCEPT ![e] = None]
  /\ Finish(e, "failed")
  /\ UNCHANGED <<tmp, del, index, cache, stale, lock, kept, visitor, faults, crashes>>

\* _rollback_activated_exchange
Undo(e) ==
  /\ Busy(e, "persist", "undo")
  /\ live' = [live EXCEPT ![e] = IF op[e].backed THEN bak[e] ELSE None]
  /\ bak' = [bak EXCEPT ![e] = None]
  /\ Finish(e, "failed")
  /\ UNCHANGED <<tmp, del, index, cache, stale, lock, kept, visitor, faults, crashes>>

-----------------------------------------------------------------------------
(* delete_exchange: stage the directory, rewrite the index, remove.        *)

\* The directory is looked up before the lock is asked for.
Delete(e) ==
  /\ op[e] = None
  /\ op' = [op EXCEPT ![e] = [do |-> "delete", step |-> "stage", found |-> live[e] # None]]
  /\ result' = [result EXCEPT ![e] = None]
  /\ UNCHANGED <<disk, cache, stale, lock, kept, visitor, faults, crashes>>

Stage(e) ==
  /\ Busy(e, "delete", "stage") /\ lock = None
  /\ lock' = e
  /\ LET alive == IF stale THEN Reclaimed(index) ELSE live
         aside == IF stale THEN Nothing ELSE del
         staged == op[e].found /\ alive[e] # None
     IN /\ index' = IF stale THEN Recognised(index) ELSE index
        /\ live' = [alive EXCEPT ![e] = IF staged THEN None ELSE @]
        /\ del' = [aside EXCEPT ![e] = IF staged THEN alive[e] ELSE @]
  /\ cache' = [Entries EXCEPT ![e] = None] /\ stale' = FALSE
  /\ op' = [op EXCEPT ![e] = [do |-> "delete", found |-> op[e].found, before |-> Entries[e],
                              step |-> IF Entries[e] # None THEN "unlist" ELSE "remove"]]
  /\ UNCHANGED <<tmp, bak, result, kept, visitor, faults, crashes>>

\* A failed rewrite puts the row and the directory back.
Unlist(e) ==
  /\ Busy(e, "delete", "unlist")
  /\ \/ /\ index' = cache /\ stale' = FALSE /\ Advance(e, "remove")
        /\ UNCHANGED <<live, del, cache, lock, result, faults>>
     \/ /\ MayFail
        /\ cache' = [cache EXCEPT ![e] = op[e].before]
        /\ live' = [live EXCEPT ![e] = IF del[e] # None THEN del[e] ELSE @]
        /\ del' = [del EXCEPT ![e] = None]
        /\ lock' = None
        /\ Finish(e, "failed")
        /\ UNCHANGED <<index, stale>>
  /\ UNCHANGED <<tmp, bak, kept, visitor, crashes>>

Remove(e) ==
  /\ Busy(e, "delete", "remove")
  /\ del' = [del EXCEPT ![e] = None]
  /\ kept' = [kept EXCEPT ![e] = None]
  /\ lock' = None
  /\ Finish(e, "ok")
  /\ UNCHANGED <<live, tmp, bak, index, cache, stale, visitor, faults, crashes>>

-----------------------------------------------------------------------------
(* A crash and the new process; the visit of another.                      *)

\* What a process that finds the directories so will serve under e.
Recovered(e) ==
  IF live[e] # None THEN live[e]
  ELSE IF bak[e] # None THEN bak[e]
  ELSE IF index[e] # None THEN del[e] ELSE None

\* The crash may fall between the two renames of a swap.  The new process
\* clears what is half-written (_cleanup_partial_writes); its cache is empty.
Swapping(e) == Busy(e, "persist", "activate") /\ tmp[e] /\ live[e] # None

CleanedUp(found, aside) == [e \in Exchanges |-> IF found[e] = None THEN aside[e] ELSE found[e]]

StoreCrash ==
  /\ Mishap /\ crashes' = crashes + 1
  /\ \E half \in SUBSET {e \in Exchanges : Swapping(e)} :
       live' = CleanedUp([e \in Exchanges |-> IF e \in half THEN None ELSE live[e]],
                         [e \in Exchanges |-> IF e \in half THEN live[e] ELSE bak[e]])
  /\ tmp' = [e \in Exchanges |-> FALSE] /\ bak' = Nothing
  /\ cache' = Nothing /\ stale' = TRUE /\ lock' = None /\ op' = Nothing /\ result' = Nothing
  /\ kept' = [e \in Exchanges |-> Recovered(e)]
  /\ UNCHANGED <<del, index, visitor, faults>>

\* The other process opens the directory, which cleans it up, and reads the
\* rows; some time later it has rebuilt its cache from them.
Touched == {e \in Exchanges : op[e] # None \/ del[e] # None}

VisitOpens ==
  /\ Mishap /\ visits' = visits + 1 /\ rows = None
  /\ tmp' = [e \in Exchanges |-> FALSE] /\ bak' = Nothing
  /\ live' = CleanedUp(live, bak)
  /\ rows' = index /\ UNCHANGED stamping
  /\ touched' = touched \cup Touched
  /\ UNCHANGED <<del, index, memory, kept, faults, crashes>>

VisitRebuilds ==
  /\ rows # None /\ ~stamping
  /\ Reconcile(rows)
  /\ stale' = (stale \/ index' # index)
  /\ touched' = touched \cup Touched
  /\ stamping' \in BOOLEAN
  /\ IF stamping' THEN Recognised(rows) # Nothing /\ rows' = Recognised(rows) ELSE rows' = None
  /\ UNCHANGED <<tmp, bak, cache, lock, op, result, kept, visits, faults, crashes>>

\* update_pipeline_tokens, which only the routes of that process call: all rows
\* are written as it read them, over what the proxy wrote since.
VisitStamps ==
  /\ stamping /\ stamping' = FALSE /\ rows' = None
  /\ index' = rows /\ stale' = TRUE
  /\ touched' = touched \cup Touched
  /\ UNCHANGED <<live, tmp, bak, del, cache, lock, op, result, kept, visits, faults, crashes>>

-----------------------------------------------------------------------------
StoreStep(e) ==
  \/ FilesWritten(e) \/ Activate(e) \/ ActivateFails(e) \/ EnterRow(e) \/ RewriteRow(e) \/ Clean(e) \/ Undo(e)
  \/ Stage(e) \/ Unlist(e) \/ Remove(e)

\* What the operation under way on e wants e to be.
Goal(e) == IF op[e].do = "persist" THEN op[e].version ELSE None

\* Every operation is all or nothing, also when a write fails or the process
\* dies at any of its steps: what a restart would serve is what the callers
\* were told, or what the operation under way is to make of it.  A visit of
\* the other process harms no exchange but those that were being changed.
AllOrNothing ==
  \A e \in Exchanges \ touched :
    Recovered(e) = kept[e] \/ (op[e] # None /\ Recovered(e) = Goal(e))

=============================================================================
