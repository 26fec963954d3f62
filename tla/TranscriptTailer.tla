-------------------------- MODULE TranscriptTailer --------------------------
(***************************************************************************)
(* From the transcript a harness writes to the rows of the session store:  *)
(* the tailer's poll thread (index/tailer.py), the sharded commit          *)
(* dispatcher on the server's loop (index/commit_dispatcher.py), the       *)
(* writer's transactions (session/writer.py) and the tier 1 copy of the    *)
(* consumed bytes (storage/transcript_snapshot.py), started and closed by  *)
(* addon_runtime.py, with the runs shared_proxy/core.py binds and unbinds. *)
(*                                                                         *)
(* A transcript is a sequence of records; its size counts half records, so *)
(* that a half-written line can be seen.  A record is of a kind:           *)
(*   "event"  becomes a row of the store,                                  *)
(*   "poison" is refused by the database for itself and dead-lettered,     *)
(*   "toxic"  makes the whole transaction fail (neither poison, transient),*)
(*   "silent" gives no event (malformed, or before the replay anchor).     *)
(***************************************************************************)
EXTENDS Integers, Sequences, FiniteSets, Functions

CONSTANTS
  Sessions,
  Shard,        \* Shard[s]: the dispatcher's worker for session s
  QueueSize,    \* queue_size: what waits behind a busy worker
  MaxAttempts,  \* QUARANTINE_MAX_ATTEMPTS
  Files,        \* Files[s]: the record sequences s may write
  Written,      \* Written[s]: the records already there at first
  MaxFaults,    \* bound: database and disk faults before both are well again
  MaxCrashes,   \* bound: crashes of the process
  None

Kinds == {"event", "poison", "toxic", "silent"}

ASSUME TailerConstants ==
  /\ QueueSize \in Nat \ {0}
  /\ MaxAttempts \in Nat \ {0}
  /\ MaxFaults \in Nat
  /\ MaxCrashes \in Nat
  /\ Files \in [Sessions -> SUBSET Seq(Kinds)]
  /\ Written \in [Sessions -> Nat]
  /\ \A s \in Sessions : \A f \in Files[s] : Written[s] <= Len(f)

VARIABLES
  file,      \* file[s]: the kinds of the records s writes in the end
  size,      \* size[s]: half records written so far (0: no file yet)
  cursor,    \* cursor[s]: its TailCursor, None when not registered
  job,       \* job[s]: its pending commit or quarantine, None when there is none
  snap,      \* snap[s]: records in the tier 1 copy
  row,       \* row[s][n]: the record stored under seq n, 0 when there is none
  letters,   \* letters[s]: records dead-lettered by themselves
  windows,   \* windows[s]: records dead-lettered with a whole window
  poller,    \* the poll thread: None, or the session it has statted and the size
  phase,     \* the life of the capture runtime
  left,      \* sessions the final poll has still to visit
  bound,     \* sessions whose run has a binding in this process
  coming,    \* sessions whose register_session_cursor is scheduled on the loop
  ended,     \* sessions whose run was unregistered
  faults, crashes

tables == <<row, letters, windows>>
runs == <<bound, coming, ended>>
vars == <<file, size, cursor, job, snap, tables, poller, phase, left, runs, faults, crashes>>

-----------------------------------------------------------------------------

\* iter_complete_records: a half-written line waits for the next read.
Complete(s) == size[s] \div 2

\* The seq of record r: what _plan_ingest_records counts from the cursor's.
Spoken(s, from, to) == {q \in (from + 1)..to : file[s][q] # "silent"}
SeqOf(s, j, r) == j.seq + Cardinality(Spoken(s, j.from, r - 1))

NewCursor == [off |-> 0, seq |-> 0, attempts |-> 0, sig |-> 0]

CommitStages == {"posted", "queued", "running", "full", "stored", "transient", "other"}
LetterStages == {"writing", "written", "failed"}
IsLetter(j) == j.stage \in LetterStages
Done(j) == j.stage \notin {"posted", "queued", "running", "writing"}

Cursors == [off : Nat, seq : Nat, attempts : Nat, sig : Nat]
Jobs == [stage : CommitStages \cup LetterStages, from : Nat, to : Nat, seq : Nat, sig : Nat]
Visits == [session : Sessions, sig : Nat]

ASSUME NoneIsNoValue == None \notin Cursors \cup Jobs \cup Visits

Phases == {"down", "running", "disabled", "draining", "stopped", "closing", "closed"}

TypeOK ==
  /\ file \in [Sessions -> Seq(Kinds)]
  /\ size \in [Sessions -> Nat] /\ snap \in [Sessions -> Nat]
  /\ cursor \in [Sessions -> Cursors \cup {None}]
  /\ job \in [Sessions -> Jobs \cup {None}]
  /\ DOMAIN row = Sessions
  /\ \A s \in Sessions : row[s] \in [0..Len(file[s]) -> Nat]
  /\ letters \in [Sessions -> SUBSET Nat] /\ windows \in [Sessions -> SUBSET Nat]
  /\ poller \in Visits \cup {None}
  /\ phase \in Phases
  /\ left \subseteq Sessions /\ bound \subseteq Sessions
  /\ coming \subseteq Sessions /\ ended \subseteq Sessions
  /\ faults \in Nat /\ crashes \in Nat

Init ==
  /\ file \in {f \in [Sessions -> UNION Range(Files)] : \A s \in Sessions : f[s] \in Files[s]}
  /\ size = [s \in Sessions |-> 2 * Written[s]]
  /\ cursor = [s \in Sessions |-> None]
  /\ job = [s \in Sessions |-> None]
  /\ snap = [s \in Sessions |-> 0]
  /\ row = [s \in Sessions |-> [n \in 0..Len(file[s]) |-> 0]]
  /\ letters = [s \in Sessions |-> {}]
  /\ windows = [s \in Sessions |-> {}]
  /\ poller = None
  /\ phase = "down"
  /\ left = {}
  /\ bound = {} /\ coming = {} /\ ended = {}
  /\ faults = 0 /\ crashes = 0

-----------------------------------------------------------------------------
(* The harness, the start of the capture runtime, and the runs it is told. *)

\* The harness appends half a record.
Write(s) ==
  /\ size[s] < 2 * Len(file[s])
  /\ size' = [size EXCEPT ![s] = @ + 1]
  /\ UNCHANGED <<file, cursor, job, snap, tables, poller, phase, left, runs, faults, crashes>>

starting == <<file, size, cursor, job, snap, tables, poller, left, runs, crashes>>

\* _start_session_capture: writer, shards and poll thread, then the exchange sink.
Start == phase = "down" /\ phase' = "running" /\ UNCHANGED <<starting, faults>>

\* load_shared_capture_runtime goes on without capture when that fails.
StartFails ==
  /\ phase = "down" /\ faults < MaxFaults
  /\ phase' = "disabled" /\ faults' = faults + 1
  /\ UNCHANGED starting

registering == <<file, size, job, snap, tables, poller, phase, left, faults, crashes>>

\* register_binding.  A run that owns its transcript has its cursor registered at
\* once, or is refused when there is no tailer; another waits for an exchange.
Bind(s) ==
  /\ s \notin bound \cup ended
  /\ \E owned \in BOOLEAN :
       /\ phase = "running" \/ (phase = "disabled" /\ ~owned)
       /\ coming' = IF owned THEN coming \cup {s} ELSE coming
  /\ bound' = bound \cup {s}
  /\ UNCHANGED <<registering, cursor, ended>>

\* The exchange sink: a persisted exchange names the session of a bound run.
Announce(s) ==
  /\ phase \in {"running", "draining", "stopped", "closing"}
  /\ s \in bound \ coming /\ cursor[s] = None
  /\ coming' = coming \cup {s}
  /\ UNCHANGED <<registering, cursor, bound, ended>>

\* The tier 1 copy of a session goes through the writer of its run's binding.
Writable(s) == s \in bound

\* register: a second cursor for the session changes nothing, nor does one that
\* comes after the end of its run: without a writer it can read nothing.
Register(s) ==
  /\ s \in coming
  /\ coming' = coming \ {s}
  /\ cursor' = IF Writable(s) /\ cursor[s] = None THEN [cursor EXCEPT ![s] = NewCursor] ELSE cursor
  /\ UNCHANGED <<registering, bound, ended>>

\* unregister_binding: writer and cursor go, without a last poll.
Unregister(s) ==
  /\ phase \in {"running", "disabled"} /\ s \in bound
  /\ cursor' = [cursor EXCEPT ![s] = None]
  /\ bound' = bound \ {s} /\ ended' = ended \cup {s}
  /\ UNCHANGED <<registering, coming>>

-----------------------------------------------------------------------------
(* One visit of the poll thread to a cursor: the pending work first, then  *)
(* a look at the file; the read that follows is a step of its own.         *)

\* The answer records the size the file has by then.
ConsumedNow(s, c, j) == [c EXCEPT !.off = j.to, !.attempts = 0, !.sig = size[s]]
\* _mark_consumed.  Only an acknowledged commit applies the cursor state.
Consumed(s, c, j) == [c EXCEPT !.off = j.to, !.attempts = 0, !.sig = j.sig]
\* The next seq counts the rows the commit stored.
CommittedRows(s, c, j) ==
  [Consumed(s, c, j) EXCEPT !.seq = @ + Cardinality({r \in (j.from + 1)..j.to : file[s][r] = "event"})]
Committed(s, c, j) == [Consumed(s, c, j) EXCEPT !.seq = SeqOf(s, j, j.to + 1)]

\* The visit ends here: the work is under way, or it failed and is tried again.
Waits(s, c, j) == ~Done(j) /\ cursor' = cursor /\ job' = job
Retries(s, c, j) ==
  /\ j.stage \in {"transient", "failed"}
  /\ cursor' = [cursor EXCEPT ![s].attempts = IF IsLetter(j) THEN @ ELSE 0]
  /\ job' = [job EXCEPT ![s] = None]
\* _handle_commit_failure
Refuses(s, c, j) ==
  /\ j.stage = "other"
  /\ cursor' = [cursor EXCEPT ![s].attempts = @ + 1]
  /\ job' = [job EXCEPT ![s] =
       IF c.attempts + 1 < MaxAttempts THEN None ELSE [j EXCEPT !.stage = "writing"]]

\* The visit goes on with cursor c: an unchanged file is not read.
GoesOn(s, c) ==
  /\ cursor' = [cursor EXCEPT ![s] = c]
  /\ job' = [job EXCEPT ![s] = None]
  /\ poller' = IF c.sig = size[s] THEN None ELSE [session |-> s, sig |-> size[s]]

Poll(s) ==
  /\ poller = None /\ cursor[s] # None
  /\ phase = "running" \/ (phase = "draining" /\ s \in left)
  /\ left' = left \ {s}
  /\ LET c == cursor[s]  j == job[s] IN
       \/ /\ j # None /\ (Waits(s, c, j) \/ Retries(s, c, j) \/ Refuses(s, c, j))
          /\ UNCHANGED poller
       \/ j = None /\ GoesOn(s, c)
       \/ j # None /\ j.stage = "stored" /\ GoesOn(s, Committed(s, c, j))
       \/ j # None /\ j.stage = "written" /\ GoesOn(s, Consumed(s, c, j))
       \/ j # None /\ j.stage = "full" /\ GoesOn(s, c)
  /\ UNCHANGED <<file, size, snap, tables, phase, runs, faults, crashes>>

\* The window is copied to tier 1 before anything is submitted.
Copied(s, to) == snap[s] >= cursor[s].off /\ snap' = [snap EXCEPT ![s] = IF to > @ THEN to ELSE @]

\* Records without an event are passed over at once; others wait for an answer.
Submits(s, c, to) ==
  IF Spoken(s, c.off, to) = {}
  THEN /\ cursor' = [cursor EXCEPT ![s] =
            [c EXCEPT !.off = to, !.sig = poller.sig, !.attempts = IF to > c.off THEN 0 ELSE @]]
       /\ UNCHANGED job
  ELSE /\ job' = [job EXCEPT ![s] = [stage |-> "posted", from |-> c.off, to |-> to,
                                     seq |-> c.seq, sig |-> poller.sig]]
       /\ UNCHANGED cursor

Read ==
  /\ poller # None /\ poller' = None
  /\ LET s == poller.session  to == Complete(s) IN
       \/ cursor[s] # None /\ Copied(s, to) /\ Submits(s, cursor[s], to) /\ UNCHANGED faults
       \/ /\ cursor[s] # None /\ to > cursor[s].off /\ faults < MaxFaults
          /\ faults' = faults + 1
          /\ UNCHANGED <<cursor, job, snap>>
       \/ cursor[s] = None /\ UNCHANGED <<cursor, job, snap, faults>>
  /\ UNCHANGED <<file, size, tables, phase, left, runs, crashes>>

-----------------------------------------------------------------------------
(* The dispatcher on the server's loop.                                    *)

In(stage, shard) == {s \in Sessions : job[s] # None /\ job[s].stage = stage /\ Shard[s] = shard}

Stage(s, to) == job' = [job EXCEPT ![s].stage = to]
loopLeaves == <<file, size, cursor, snap, poller, phase, left, runs, crashes>>

\* _enqueue: a full shard refuses through the future.
Enqueue(s) ==
  /\ job[s] # None /\ job[s].stage = "posted"
  /\ Stage(s, IF Cardinality(In("queued", Shard[s])) < QueueSize THEN "queued" ELSE "full")
  /\ UNCHANGED <<loopLeaves, tables, faults>>

\* _worker: one job of the shard at a time.
Take(s) ==
  /\ job[s] # None /\ job[s].stage = "queued"
  /\ In("running", Shard[s]) = {}
  /\ Stage(s, "running")
  /\ UNCHANGED <<loopLeaves, tables, faults>>

\* The poisoned events of a batch are dropped.
StoresSilently(s, j) ==
  LET good == {r \in Spoken(s, j.from, j.to) : file[s][r] = "event"} IN
    /\ row' = [row EXCEPT ![s] = [n \in DOMAIN @ |->
         IF \E r \in good : SeqOf(s, j, r) = n THEN CHOOSE r \in good : SeqOf(s, j, r) = n ELSE @[n]]]
    /\ UNCHANGED <<letters, windows>>
\* _commit_batch: each event under a savepoint of its own; a poisoned one is
\* dead-lettered in the same transaction.
Stores(s, j) ==
  LET spoken == Spoken(s, j.from, j.to)
      good == {r \in spoken : file[s][r] = "event"}
      at(n) == {r \in good : SeqOf(s, j, r) = n}
  IN /\ row' = [row EXCEPT ![s] =
          [n \in DOMAIN @ |-> IF at(n) = {} THEN @[n] ELSE CHOOSE r \in at(n) : TRUE]]
     /\ letters' = [letters EXCEPT ![s] = @ \cup (spoken \ good)]
     /\ UNCHANGED windows

Toxic(s, j) == \E r \in Spoken(s, j.from, j.to) : file[s][r] = "toxic"

Commit(s) ==
  /\ job[s] # None /\ job[s].stage = "running"
  /\ IF Toxic(s, job[s]) THEN Stage(s, "other") /\ UNCHANGED tables
                         ELSE Stage(s, "stored") /\ Stores(s, job[s])
  /\ UNCHANGED <<loopLeaves, faults>>

\* The connection breaks, or the answer misses the commit deadline: then the
\* transaction may be in the store all the same.
CommitLost(s) ==
  /\ job[s] # None /\ job[s].stage = "running" /\ faults < MaxFaults
  /\ faults' = faults + 1
  /\ Stage(s, "transient")
  /\ UNCHANGED tables \/ (~Toxic(s, job[s]) /\ Stores(s, job[s]))
  /\ UNCHANGED loopLeaves

\* quarantine_window: one dead letter for the whole window.
Quarantine(s) ==
  /\ job[s] # None /\ job[s].stage = "writing"
  /\ windows' = [windows EXCEPT ![s] = @ \cup ((job[s].from + 1)..job[s].to)]
  /\ \/ Stage(s, "written") /\ UNCHANGED faults
     \/ Stage(s, "failed") /\ faults < MaxFaults /\ faults' = faults + 1
  /\ UNCHANGED <<loopLeaves, row, letters>>

QuarantineFails(s) ==
  /\ job[s] # None /\ job[s].stage = "writing" /\ faults < MaxFaults
  /\ faults' = faults + 1
  /\ Stage(s, "failed")
  /\ UNCHANGED <<loopLeaves, tables>>

-----------------------------------------------------------------------------
(* The end of the process: orderly, or not.                                *)

\* close_capture_runtime: tailer.stop joins the thread and polls once more.
Stop ==
  /\ phase = "running" /\ poller = None
  /\ phase' = "draining"
  /\ left' = {s \in Sessions : cursor[s] # None}
  /\ UNCHANGED <<file, size, cursor, job, snap, tables, poller, runs, faults, crashes>>

Drained ==
  /\ phase = "draining" /\ left = {} /\ poller = None
  /\ phase' = "stopped"
  /\ UNCHANGED <<file, size, cursor, job, snap, tables, poller, left, runs, faults, crashes>>

closing == <<file, size, cursor, snap, tables, poller, left, runs, faults, crashes>>

\* The dispatcher closes without waiting for the queues and fails what is left.
CloseAtOnce ==
  /\ phase = "stopped"
  /\ phase' = "closing"
  /\ job' = [s \in Sessions |-> IF job[s] # None /\ ~IsLetter(job[s]) THEN [job[s] EXCEPT !.stage = "stored"] ELSE job[s]]
  /\ UNCHANGED closing
\* aclose of the dispatcher waits for what the shards have accepted.
Close ==
  /\ phase = "stopped"
  /\ \A s \in Sessions : job[s] # None => job[s].stage \notin {"posted", "queued", "running"}
  /\ phase' = "closing"
  /\ UNCHANGED <<closing, job>>

\* aclose of the writer: the pool closes, a window being written then is lost;
\* the exchange sink goes last.
PoolCloses ==
  /\ phase = "closing"
  /\ phase' = "closed"
  /\ job' = [s \in Sessions |-> IF job[s] # None /\ job[s].stage = "writing" THEN None ELSE job[s]]
  /\ UNCHANGED closing

\* Cursors, bindings and work in flight live in memory; files, copies and
\* tables do not.
Crash ==
  /\ phase # "closed" /\ crashes < MaxCrashes
  /\ crashes' = crashes + 1
  /\ cursor' = [s \in Sessions |-> None] /\ job' = [s \in Sessions |-> None]
  /\ poller' = None /\ left' = {} /\ phase' = "down"
  /\ bound' = {} /\ coming' = {}
  /\ UNCHANGED <<file, size, snap, tables, ended, faults>>

-----------------------------------------------------------------------------
Next ==
  \/ \E s \in Sessions :
       \/ Write(s) \/ Bind(s) \/ Announce(s) \/ Register(s) \/ Unregister(s) \/ Poll(s)
       \/ Enqueue(s) \/ Take(s) \/ Commit(s) \/ CommitLost(s)
       \/ Quarantine(s) \/ QuarantineFails(s)
  \/ Start \/ StartFails \/ Read \/ Stop \/ Drained \/ Close \/ PoolCloses \/ Crash

Spec == Init /\ [][Next]_vars

\* The poll thread visits every cursor again and again; the loop runs its
\* callbacks and workers.  Faults, crashes and the close are owed to nobody.
FairSpec ==
  /\ Spec
  /\ WF_vars(Read)
  /\ \A s \in Sessions :
       /\ WF_vars(Register(s)) /\ SF_vars(Poll(s))
       /\ WF_vars(Enqueue(s)) /\ SF_vars(Take(s))
       /\ WF_vars(Commit(s)) /\ WF_vars(Quarantine(s))

-----------------------------------------------------------------------------
(* Properties                                                              *)

Arrived(s, r) ==
  \/ file[s][r] = "silent" \/ r \in letters[s] \cup windows[s]
  \/ r \in Range(row[s])

\* No record is passed over: behind the cursor everything is a row, a dead
\* letter, or gives no event.
NothingSkipped ==
  \A s \in Sessions : cursor[s] # None => \A r \in 1..cursor[s].off : Arrived(s, r)

\* The seq a replay of the file from its start gives to record r.
ReplaySeq(s, r) == Cardinality(Spoken(s, 0, r - 1))

\* A replay of the transcript reproduces the rows of the live tail, whatever
\* was lost, repeated or refused on the way (ingest_records), as long as no
\* window was quarantined.
ReplayAgrees ==
  \A s \in Sessions : windows[s] = {} =>
    \A n \in DOMAIN row[s] : row[s][n] # 0 => ReplaySeq(s, row[s][n]) = n

\* The orderly close loses nothing it had accepted: afterwards a record the
\* tailer has copied is missing only where a commit of it had failed or was
\* still being answered at the last poll, or the cursor came after that poll.
CloseKeepsAccepted ==
  phase = "closed" =>
    \A s \in Sessions : cursor[s] # None =>
      \/ \A r \in 1..snap[s] : Arrived(s, r)
      \/ cursor[s].attempts > 0 \/ faults > 0
      \/ job[s] # None /\ (IsLetter(job[s]) \/ job[s].stage \in {"other", "full"})
      \/ job[s] = None /\ cursor[s] = NewCursor

\* Every complete record of a session with a cursor, or with one coming, arrives
\* in the store once the database and the disk are well: no transcript stalls.
RecordsArrive ==
  []<>\A s \in Sessions :
         \/ \A r \in 1..Complete(s) : Arrived(s, r)
         \/ cursor[s] = None /\ s \notin coming
         \/ phase # "running"
=============================================================================
