----------------------- MODULE TranscriptTailerProofs -----------------------
(***************************************************************************)
(* Proofs about TranscriptTailer: nothing is skipped, a replay agrees and  *)
(* the close keeps what was accepted, for any sessions, transcripts,       *)
(* queues, faults and crashes.                                             *)
(***************************************************************************)
EXTENDS TranscriptTailer, FiniteSetTheorems, TLAPS

\* Record r gives no event, or is a dead letter, or has a row below seq n.
Settled(s, r, n) ==
  \/ file[s][r] = "silent" \/ r \in letters[s] \cup windows[s]
  \/ \E m \in 0..(n - 1) : row[s][m] = r

\* A cursor has passed only complete records, its seq is the one a replay gives,
\* and it has seen the file at least up to the size it remembers.
CursorInv(s) == cursor[s] # None =>
  /\ cursor[s].off <= Complete(s)
  /\ cursor[s].seq <= cursor[s].off
  /\ cursor[s].sig \div 2 <= cursor[s].off
  /\ \A r \in 1..cursor[s].off : Settled(s, r, cursor[s].seq)
  /\ windows[s] = {} => cursor[s].seq = Cardinality(Spoken(s, 0, cursor[s].off))
  /\ s \in bound

\* A job begins where the cursor stands and reaches over all that was copied.
JobInv(s) == job[s] # None =>
  /\ job[s].from < job[s].to /\ job[s].to <= Complete(s)
  /\ job[s].seq <= job[s].from
  /\ job[s].sig \div 2 <= job[s].to
  /\ snap[s] <= job[s].to
  /\ cursor[s] = None => s \in ended
  /\ cursor[s] # None => cursor[s].off = job[s].from /\ cursor[s].seq = job[s].seq
  /\ windows[s] = {} => job[s].seq = Cardinality(Spoken(s, 0, job[s].from))

\* What the stage of a job says of the store and of the past.
StageInv(s) == job[s] # None =>
  /\ job[s].stage = "stored" =>
       \A r \in Spoken(s, job[s].from, job[s].to) :
         r \in letters[s] \/ row[s][SeqOf(s, job[s], r)] = r
  /\ job[s].stage = "written" => (job[s].from + 1)..job[s].to \subseteq windows[s]
  /\ job[s].stage \in {"transient", "failed"} => faults > 0
  /\ IsLetter(job[s]) /\ cursor[s] # None => cursor[s].attempts > 0

\* The rows are those of a replay.
RowInv(s) == windows[s] = {} =>
  \A n \in 0..Len(file[s]) : row[s][n] # 0 => ReplaySeq(s, row[s][n]) = n

\* Without a fault, what was copied is behind the cursor, or at work, or about to be
\* read, or was refused once, or the cursor has not begun.
CopyInv(s) ==
  /\ size[s] <= 2 * Len(file[s])
  /\ snap[s] <= Complete(s)
  /\ cursor[s] # None /\ faults = 0 =>
       \/ snap[s] <= cursor[s].off \/ job[s] # None
       \/ poller # None /\ poller.session = s
       \/ cursor[s].attempts > 0
       \/ cursor[s] = NewCursor

SessionInv(s) ==
  CursorInv(s) /\ JobInv(s) /\ StageInv(s) /\ RowInv(s) /\ CopyInv(s)

ProcessInv ==
  /\ bound \cap ended = {}
  /\ poller # None => /\ job[poller.session] = None
                      /\ poller.sig <= size[poller.session]
                      /\ phase \in {"running", "draining"}
  /\ phase \in {"closing", "closed"} =>
       \A s \in Sessions : job[s] # None => job[s].stage \notin {"posted", "queued", "running"}

Inv == TypeOK /\ ProcessInv /\ \A s \in Sessions : SessionInv(s)

-----------------------------------------------------------------------------
(* The records that give an event, counted.                                *)

LEMMA SpokenCount ==
  ASSUME NEW s, NEW a \in Nat, NEW b \in Nat
  PROVE  /\ IsFiniteSet(Spoken(s, a, b)) /\ Cardinality(Spoken(s, a, b)) \in Nat
         /\ a <= b => Cardinality(Spoken(s, a, b)) <= b - a
<1>1. IsFiniteSet((a + 1)..b) /\ (a <= b => Cardinality((a + 1)..b) = b - a)
  <2>1. /\ IsFiniteSet((a + 1)..b)
        /\ Cardinality((a + 1)..b) = IF a + 1 > b THEN 0 ELSE b - (a + 1) + 1
    <3>1. a + 1 \in Int /\ b \in Int
      OBVIOUS
    <3> QED BY <3>1, FS_Interval
  <2> QED BY <2>1
<1>2. Spoken(s, a, b) \in SUBSET ((a + 1)..b)
  BY DEF Spoken
<1>3. /\ IsFiniteSet(Spoken(s, a, b))
      /\ Cardinality(Spoken(s, a, b)) <= Cardinality((a + 1)..b)
  BY <1>1, <1>2, FS_Subset
<1>4. Cardinality(Spoken(s, a, b)) \in Nat
  BY <1>3, FS_CardinalityType
<1> QED BY <1>1, <1>3, <1>4

LEMMA SpokenSum ==
  ASSUME NEW s, NEW a \in Nat, NEW m \in Nat, NEW b \in Nat, a <= m, m <= b
  PROVE  Cardinality(Spoken(s, a, b))
           = Cardinality(Spoken(s, a, m)) + Cardinality(Spoken(s, m, b))
<1> DEFINE A == Spoken(s, a, m)  B == Spoken(s, m, b)
<1>1. A \cup B = Spoken(s, a, b) /\ A \cap B = {}
  BY DEF Spoken
<1>2. IsFiniteSet(A) /\ IsFiniteSet(B) /\ Cardinality(A) \in Nat /\ Cardinality(B) \in Nat
  BY SpokenCount
<1>3. Cardinality(A \cup B) = Cardinality(A) + Cardinality(B) - Cardinality(A \cap B)
  BY <1>2, FS_Union
<1> HIDE DEF A, B
<1>4. Cardinality(A \cap B) = 0
  BY <1>1, FS_EmptySet
<1>5. Cardinality(A \cup B) = Cardinality(A) + Cardinality(B)
  BY <1>2, <1>3, <1>4
<1> QED BY <1>1, <1>5 DEF A, B

LEMMA SpokenStep ==
  ASSUME NEW s, NEW a \in Nat, NEW r \in Nat, a < r, file[s][r] # "silent"
  PROVE  Cardinality(Spoken(s, a, r)) = Cardinality(Spoken(s, a, r - 1)) + 1
<1>1. r - 1 \in Nat /\ a <= r - 1 /\ r - 1 <= r
  OBVIOUS
<1>2. Spoken(s, r - 1, r) = {r}
  BY DEF Spoken
<1>3. Cardinality(Spoken(s, r - 1, r)) = 1
  BY <1>2, FS_Singleton
<1> QED BY <1>1, <1>3, SpokenSum

LEMMA NothingSpoken ==
  ASSUME NEW s, NEW a \in Nat
  PROVE  Cardinality(Spoken(s, a, a)) = 0
<1>1. Spoken(s, a, a) = {}
  BY DEF Spoken
<1> QED BY <1>1, FS_EmptySet

\* The seqs a job counts: within its rows, one for each record, and those of a
\* replay where the job's first is.
LEMMA SeqFacts ==
  ASSUME NEW s, NEW j \in Jobs, NEW r \in Spoken(s, j.from, j.to)
  PROVE  /\ r \in Nat /\ j.from < r /\ r <= j.to
         /\ SeqOf(s, j, r) \in Nat
         /\ j.seq <= SeqOf(s, j, r)
         /\ SeqOf(s, j, r) <= j.seq + (r - 1 - j.from)
         /\ SeqOf(s, j, r) < SeqOf(s, j, j.to + 1)
<1> USE DEF Jobs
<1>1. r \in Nat /\ j.from < r /\ r <= j.to /\ file[s][r] # "silent"
  BY DEF Spoken
<1>2. r - 1 \in Nat /\ j.from <= r - 1 /\ (j.to + 1) - 1 = j.to
  BY <1>1
<1>3. /\ Cardinality(Spoken(s, j.from, r - 1)) \in Nat
      /\ Cardinality(Spoken(s, j.from, r - 1)) <= (r - 1) - j.from
  BY <1>2, SpokenCount
<1>4. Cardinality(Spoken(s, j.from, r)) = Cardinality(Spoken(s, j.from, r - 1)) + 1
  BY <1>1, SpokenStep
<1>5. Cardinality(Spoken(s, j.from, j.to))
        = Cardinality(Spoken(s, j.from, r)) + Cardinality(Spoken(s, r, j.to))
  BY <1>1, SpokenSum
<1>6. Cardinality(Spoken(s, r, j.to)) \in Nat
  BY <1>1, SpokenCount
<1> QED BY <1>1, <1>2, <1>3, <1>4, <1>5, <1>6 DEF SeqOf

LEMMA SeqInjective ==
  ASSUME NEW s, NEW j \in Jobs,
         NEW q \in Spoken(s, j.from, j.to), NEW r \in Spoken(s, j.from, j.to), q < r
  PROVE  SeqOf(s, j, q) < SeqOf(s, j, r)
<1> USE DEF Jobs
<1>1. q \in Nat /\ r \in Nat /\ j.from < q /\ file[s][q] # "silent"
  BY DEF Spoken
<1>2. q - 1 \in Nat /\ r - 1 \in Nat /\ j.from <= q - 1 /\ q <= r - 1
  BY <1>1
<1>3. Cardinality(Spoken(s, j.from, q)) = Cardinality(Spoken(s, j.from, q - 1)) + 1
  BY <1>1, SpokenStep
<1>4. Cardinality(Spoken(s, j.from, r - 1))
        = Cardinality(Spoken(s, j.from, q)) + Cardinality(Spoken(s, q, r - 1))
  BY <1>1, <1>2, SpokenSum
<1>5. /\ Cardinality(Spoken(s, q, r - 1)) \in Nat
      /\ Cardinality(Spoken(s, j.from, q - 1)) \in Nat
  BY <1>1, <1>2, SpokenCount
<1> QED BY <1>3, <1>4, <1>5 DEF SeqOf
-----------------------------------------------------------------------------
(* Types.                                                                  *)

LEMMA CountedType ==
  ASSUME NEW s, NEW j \in Jobs, NEW r \in Nat \ {0}
  PROVE  SeqOf(s, j, r) \in Nat
<1>1. r - 1 \in Nat /\ j.from \in Nat /\ j.seq \in Nat
  BY DEF Jobs
<1> QED BY <1>1, SpokenCount DEF SeqOf

LEMMA NewTypes == NewCursor \in Cursors /\ \A c \in Cursors \cup Jobs \cup Visits : c # None
BY NoneIsNoValue DEF NewCursor, Cursors

\* What a visit makes of cursors and jobs.
LEMMA VisitTypes ==
  ASSUME NEW s, NEW c \in Cursors, NEW j \in Jobs
  PROVE  Committed(s, c, j) \in Cursors /\ Consumed(s, c, j) \in Cursors
<1>1. SeqOf(s, j, j.to + 1) \in Nat
  <2>1. j.to + 1 \in Nat \ {0}
    BY DEF Jobs
  <2> QED BY <2>1, CountedType
<1>2. Consumed(s, c, j) \in Cursors
  BY DEF Consumed, Cursors, Jobs
<1> QED BY <1>1, <1>2 DEF Committed, Cursors

\* What a commit stores.
LEMMA StoresTypes ==
  ASSUME TypeOK, NEW s \in Sessions, job[s] # None, Stores(s, job[s])
  PROVE  /\ DOMAIN row' = Sessions
         /\ \A t \in Sessions : row'[t] \in [0..Len(file[t]) -> Nat]
         /\ letters' \in [Sessions -> SUBSET Nat] /\ windows' = windows
<1> DEFINE j == job[s]
           spoken == Spoken(s, j.from, j.to)
           good == {r \in spoken : file[s][r] = "event"}
           At(n) == {r \in good : SeqOf(s, j, r) = n}
<1>1. j \in Jobs
  BY DEF TypeOK
<1>2. spoken \subseteq Nat
  BY <1>1 DEF Spoken, Jobs
<1>3. /\ row' = [row EXCEPT ![s] =
           [n \in DOMAIN row[s] |-> IF At(n) = {} THEN row[s][n] ELSE CHOOSE r \in At(n) : TRUE]]
      /\ letters' = [letters EXCEPT ![s] = letters[s] \cup (spoken \ good)]
      /\ windows' = windows
  BY DEF Stores, TypeOK
<1>4. \A n : At(n) \subseteq Nat /\ (At(n) # {} => (CHOOSE r \in At(n) : TRUE) \in At(n))
  BY <1>2
<1> HIDE DEF At, spoken, good
<1>5. row'[s] \in [0..Len(file[s]) -> Nat]
  BY <1>3, <1>4 DEF TypeOK
<1> QED BY <1>2, <1>3, <1>5 DEF TypeOK

LEMMA Typing == TypeOK /\ [Next]_vars => TypeOK'
<1> SUFFICES ASSUME TypeOK, [Next]_vars PROVE TypeOK'
  OBVIOUS
<1> USE NewTypes
<1>1. ASSUME NEW s \in Sessions, Write(s) PROVE TypeOK'
  BY <1>1 DEF Write, tables, runs, TypeOK
<1>2. ASSUME NEW s \in Sessions, Bind(s) \/ Announce(s) \/ Unregister(s) PROVE TypeOK'
  BY <1>2 DEF Bind, Announce, Unregister, registering, tables, TypeOK
<1>3. ASSUME NEW s \in Sessions, Register(s) PROVE TypeOK'
  BY <1>3 DEF Register, registering, tables, TypeOK
<1>4. ASSUME NEW s \in Sessions, Poll(s) PROVE TypeOK'
  <2>1. cursor[s] \in Cursors /\ (job[s] # None => job[s] \in Jobs)
    BY <1>4 DEF Poll, TypeOK
  <2>2. /\ UNCHANGED <<file, size, snap, row, letters, windows, phase, bound, coming, ended,
                       faults, crashes>>
        /\ left' = left \ {s}
    BY <1>4 DEF Poll, tables, runs
  <2>3. ASSUME job[s] # None, Waits(s, cursor[s], job[s]) \/ Retries(s, cursor[s], job[s])
                \/ Refuses(s, cursor[s], job[s])
        PROVE  cursor' \in [Sessions -> Cursors \cup {None}] /\ job' \in [Sessions -> Jobs \cup {None}]
    <3>1. CASE Waits(s, cursor[s], job[s])
      BY <3>1 DEF Waits, TypeOK
    <3>2. CASE Retries(s, cursor[s], job[s])
      <4>1. \A n \in Nat : [cursor[s] EXCEPT !.attempts = n] \in Cursors
        BY <2>1 DEF Cursors
      <4>2. cursor[s].attempts \in Nat
        BY <2>1 DEF Cursors
      <4> QED BY <3>2, <4>1, <4>2 DEF Retries, TypeOK
    <3>3. CASE Refuses(s, cursor[s], job[s])
      <4>1. [cursor[s] EXCEPT !.attempts = cursor[s].attempts + 1] \in Cursors
        BY <2>1 DEF Cursors
      <4>2. [job[s] EXCEPT !.stage = "writing"] \in Jobs
        BY <2>1, <2>3 DEF Jobs, LetterStages
      <4> QED BY <3>3, <4>1, <4>2 DEF Refuses, TypeOK
    <3> QED BY <2>3, <3>1, <3>2, <3>3
  <2>4. ASSUME NEW c \in Cursors, GoesOn(s, c)
        PROVE  /\ cursor' \in [Sessions -> Cursors \cup {None}]
               /\ job' \in [Sessions -> Jobs \cup {None}]
               /\ poller' \in Visits \cup {None}
    BY <2>4 DEF GoesOn, TypeOK, Visits
  <2>5. job[s] # None => Committed(s, cursor[s], job[s]) \in Cursors
                         /\ Consumed(s, cursor[s], job[s]) \in Cursors
    BY <2>1, VisitTypes
  <2>6. /\ cursor' \in [Sessions -> Cursors \cup {None}]
        /\ job' \in [Sessions -> Jobs \cup {None}]
        /\ poller' \in Visits \cup {None}
    BY <1>4, <2>1, <2>3, <2>4, <2>5 DEF Poll, TypeOK
  <2> QED BY <2>2, <2>6 DEF TypeOK
<1>5. CASE Read
  <2> DEFINE s == poller.session  to == Complete(s)
  <2>1. poller \in Visits /\ s \in Sessions /\ size[s] \in Nat /\ poller.sig \in Nat
    BY <1>5 DEF Read, TypeOK, Visits
  <2>2. to \in Nat
    BY <2>1 DEF Complete
  <2>3. /\ UNCHANGED <<file, size, row, letters, windows, phase, left, bound, coming, ended, crashes>>
        /\ poller' = None
    BY <1>5 DEF Read, tables, runs
  <2> HIDE DEF s, to
  <2>4. ASSUME cursor[s] # None, Copied(s, to), Submits(s, cursor[s], to)
        PROVE  /\ cursor' \in [Sessions -> Cursors \cup {None}]
               /\ job' \in [Sessions -> Jobs \cup {None}] /\ snap' \in [Sessions -> Nat]
    <3>1. cursor[s] \in Cursors
      BY <2>1, <2>4 DEF TypeOK
    <3>2. snap' \in [Sessions -> Nat]
      BY <2>1, <2>2, <2>4 DEF Copied, TypeOK
    <3>3. [stage |-> "posted", from |-> cursor[s].off, to |-> to, seq |-> cursor[s].seq,
           sig |-> poller.sig] \in Jobs
      BY <2>1, <2>2, <3>1 DEF Jobs, Cursors, CommitStages
    <3>4. [cursor[s] EXCEPT !.off = to, !.sig = poller.sig,
             !.attempts = IF to > cursor[s].off THEN 0 ELSE @] \in Cursors
      BY <2>1, <2>2, <3>1 DEF Cursors
    <3>5. \/ /\ UNCHANGED job
             /\ cursor' = [cursor EXCEPT ![s] = [cursor[s] EXCEPT !.off = to, !.sig = poller.sig,
                  !.attempts = IF to > cursor[s].off THEN 0 ELSE @]]
          \/ /\ UNCHANGED cursor
             /\ job' = [job EXCEPT ![s] = [stage |-> "posted", from |-> cursor[s].off, to |-> to,
                                           seq |-> cursor[s].seq, sig |-> poller.sig]]
      BY <2>4, Zenon DEF Submits
    <3>6. cursor' \in [Sessions -> Cursors \cup {None}] /\ job' \in [Sessions -> Jobs \cup {None}]
      BY <2>1, <3>3, <3>4, <3>5 DEF TypeOK
    <3> QED BY <3>2, <3>6
  <2>5. /\ cursor' \in [Sessions -> Cursors \cup {None}] /\ faults' \in Nat
        /\ job' \in [Sessions -> Jobs \cup {None}] /\ snap' \in [Sessions -> Nat]
    BY <1>5, <2>4 DEF Read, TypeOK, s, to
  <2> QED BY <2>3, <2>5 DEF TypeOK
<1>6. ASSUME NEW s \in Sessions, NEW x \in CommitStages \cup LetterStages,
             job[s] # None, Stage(s, x)
      PROVE  job' \in [Sessions -> Jobs \cup {None}]
  <2>1. job[s] \in Jobs
    BY <1>6 DEF TypeOK
  <2>2. [job[s] EXCEPT !.stage = x] \in Jobs
    BY <1>6, <2>1 DEF Jobs
  <2> QED BY <1>6, <2>2 DEF Stage, TypeOK
<1>7. ASSUME NEW s \in Sessions, Enqueue(s) \/ Take(s) \/ Commit(s) \/ CommitLost(s)
                \/ Quarantine(s) \/ QuarantineFails(s)
      PROVE  job' \in [Sessions -> Jobs \cup {None}]
  <2>1. PICK x \in CommitStages \cup LetterStages : job[s] # None /\ Stage(s, x)
    BY <1>7 DEF Enqueue, Take, Commit, CommitLost, Quarantine, QuarantineFails,
         CommitStages, LetterStages
  <2> QED BY <1>6, <2>1
<1>8. ASSUME NEW s \in Sessions, Enqueue(s) \/ Take(s) \/ QuarantineFails(s) PROVE TypeOK'
  BY <1>7, <1>8 DEF Enqueue, Take, QuarantineFails, loopLeaves, tables, runs, TypeOK
<1>9. ASSUME NEW s \in Sessions, Commit(s) \/ CommitLost(s) PROVE TypeOK'
  <2>1. UNCHANGED <<file, size, cursor, snap, poller, phase, left, bound, coming, ended, crashes>>
    BY <1>9 DEF Commit, CommitLost, loopLeaves, runs
  <2>2. job[s] # None /\ faults' \in Nat /\ (Stores(s, job[s]) \/ UNCHANGED <<row, letters, windows>>)
    BY <1>9 DEF Commit, CommitLost, tables, TypeOK
  <2>3. /\ DOMAIN row' = Sessions
        /\ \A t \in Sessions : row'[t] \in [0..Len(file[t]) -> Nat]
        /\ letters' \in [Sessions -> SUBSET Nat] /\ windows' \in [Sessions -> SUBSET Nat]
    <3>1. CASE Stores(s, job[s])
      BY <2>2, <3>1, StoresTypes DEF TypeOK
    <3>2. CASE UNCHANGED <<row, letters, windows>>
      BY <3>2 DEF TypeOK
    <3> QED BY <2>2, <3>1, <3>2
  <2>4. job' \in [Sessions -> Jobs \cup {None}]
    BY <1>7, <1>9
  <2> QED BY <2>1, <2>2, <2>3, <2>4 DEF TypeOK
<1>10. ASSUME NEW s \in Sessions, Quarantine(s) PROVE TypeOK'
  <2>1. (job[s].from + 1)..job[s].to \subseteq Nat
    BY <1>10 DEF Quarantine, TypeOK, Jobs
  <2>2. windows' \in [Sessions -> SUBSET Nat] /\ faults' \in Nat
    BY <1>10, <2>1 DEF Quarantine, TypeOK
  <2> QED BY <1>7, <1>10, <2>2 DEF Quarantine, loopLeaves, runs, TypeOK
<1>11. CASE Start \/ StartFails \/ Stop \/ Drained
  BY <1>11 DEF Start, StartFails, Stop, Drained, starting, tables, runs, TypeOK, Phases
<1>12. CASE Close \/ PoolCloses
  BY <1>12 DEF Close, PoolCloses, closing, tables, runs, TypeOK, Phases
<1>13. CASE Crash
  BY <1>13 DEF Crash, tables, TypeOK, Phases
<1>14. CASE UNCHANGED vars
  BY <1>14 DEF vars, tables, runs, TypeOK
<1> QED BY <1>1, <1>2, <1>3, <1>4, <1>5, <1>8, <1>9, <1>10, <1>11, <1>12, <1>13, <1>14 DEF Next
-----------------------------------------------------------------------------
(* What a step leaves of the invariant of a session.                       *)

LEMMA Halves == \A x, y \in Nat : x <= y => x \div 2 \in Nat /\ x \div 2 <= y \div 2
OBVIOUS

\* The numbers of a session.
LEMMA Numbers ==
  ASSUME TypeOK, NEW s \in Sessions
  PROVE  /\ size[s] \in Nat /\ snap[s] \in Nat /\ Complete(s) \in Nat /\ Len(file[s]) \in Nat
         /\ cursor[s] # None => /\ cursor[s] \in Cursors
                                /\ cursor[s].off \in Nat /\ cursor[s].seq \in Nat
                                /\ cursor[s].sig \in Nat /\ cursor[s].attempts \in Nat
         /\ job[s] # None => /\ job[s] \in Jobs
                             /\ job[s].from \in Nat /\ job[s].to \in Nat
                             /\ job[s].seq \in Nat /\ job[s].sig \in Nat
BY DEF TypeOK, Complete, Cursors, Jobs

LEMMA CursorKept ==
  ASSUME TypeOK, TypeOK', NEW s \in Sessions, CursorInv(s),
         file' = file, size[s] <= size'[s],
         cursor'[s] # None => /\ cursor[s] # None
                              /\ cursor'[s].off = cursor[s].off
                              /\ cursor'[s].seq = cursor[s].seq
                              /\ cursor'[s].sig = cursor[s].sig
                              /\ \A m \in 0..(cursor[s].seq - 1) : row'[s][m] = row[s][m]
                              /\ s \in bound => s \in bound',
         letters[s] \subseteq letters'[s], windows[s] \subseteq windows'[s]
  PROVE  CursorInv(s)'
<1> SUFFICES ASSUME cursor'[s] # None PROVE CursorInv(s)'
  BY DEF CursorInv
<1>1. Complete(s) <= Complete(s)' /\ Complete(s)' \in Nat
  BY Halves DEF TypeOK, Complete
<1>2. \A a, b : Spoken(s, a, b)' = Spoken(s, a, b)
  BY DEF Spoken
<1>3. /\ cursor[s].off \in Nat /\ cursor[s].off <= Complete(s) /\ Complete(s) \in Nat
      /\ cursor[s].seq <= cursor[s].off /\ cursor[s].sig \div 2 <= cursor[s].off
      /\ windows[s] = {} => cursor[s].seq = Cardinality(Spoken(s, 0, cursor[s].off))
      /\ s \in bound
  BY Numbers DEF CursorInv
<1>4. ASSUME NEW r \in 1..cursor[s].off PROVE Settled(s, r, cursor[s].seq)'
  <2>1. Settled(s, r, cursor[s].seq)
    BY <1>4 DEF CursorInv
  <2>2. CASE file[s][r] = "silent" \/ r \in letters[s] \cup windows[s]
    BY <2>2 DEF Settled
  <2>3. CASE \E m \in 0..(cursor[s].seq - 1) : row[s][m] = r
    BY <2>3 DEF Settled
  <2> QED BY <2>1, <2>2, <2>3 DEF Settled
<1>5. windows'[s] = {} => windows[s] = {}
  OBVIOUS
<1>6. cursor'[s].off <= Complete(s)'
  BY <1>1, <1>3
<1>7. windows'[s] = {} => cursor'[s].seq = Cardinality(Spoken(s, 0, cursor[s].off))'
  BY <1>2, <1>3, <1>5
<1> QED BY <1>3, <1>4, <1>6, <1>7 DEF CursorInv

LEMMA JobKept ==
  ASSUME TypeOK, TypeOK', NEW s \in Sessions, JobInv(s),
         file' = file, size[s] <= size'[s], snap'[s] = snap[s],
         windows[s] \subseteq windows'[s],
         job'[s] # None => /\ job[s] # None
                           /\ job'[s].from = job[s].from /\ job'[s].to = job[s].to
                           /\ job'[s].seq = job[s].seq /\ job'[s].sig = job[s].sig
                           /\ cursor'[s] # None => /\ cursor[s] # None
                                                   /\ cursor'[s].off = cursor[s].off
                                                   /\ cursor'[s].seq = cursor[s].seq
                           /\ cursor'[s] = None => \/ s \in ended'
                                                   \/ cursor[s] = None /\ ended' = ended
  PROVE  JobInv(s)'
<1> SUFFICES ASSUME job'[s] # None PROVE JobInv(s)'
  BY DEF JobInv
<1>1. Complete(s) <= Complete(s)' /\ Complete(s)' \in Nat
  BY Halves DEF TypeOK, Complete
<1>2. /\ job[s].to \in Nat /\ job[s].to <= Complete(s) /\ Complete(s) \in Nat
      /\ windows[s] = {} => job[s].seq = Cardinality(Spoken(s, 0, job[s].from))
  BY Numbers DEF JobInv
<1>3. Spoken(s, 0, job[s].from)' = Spoken(s, 0, job[s].from)
  BY DEF Spoken
<1>4. windows'[s] = {} => job'[s].seq = Cardinality(Spoken(s, 0, job[s].from)')
  BY <1>2, <1>3
<1>5. job'[s].to <= Complete(s)'
  BY <1>1, <1>2
<1> QED BY <1>4, <1>5 DEF JobInv

LEMMA StageKept ==
  ASSUME TypeOK, TypeOK', NEW s \in Sessions, StageInv(s),
         file' = file, row'[s] = row[s], faults <= faults',
         letters[s] \subseteq letters'[s], windows[s] \subseteq windows'[s],
         job'[s] # None => /\ job'[s] = job[s]
                           /\ cursor'[s] # None => /\ cursor[s] # None
                                                   /\ cursor'[s].attempts = cursor[s].attempts
  PROVE  StageInv(s)'
<1> SUFFICES ASSUME job'[s] # None PROVE StageInv(s)'
  BY DEF StageInv
<1>1. \A a, b : Spoken(s, a, b)' = Spoken(s, a, b)
  BY DEF Spoken
<1>2. \A r : SeqOf(s, job[s], r)' = SeqOf(s, job[s], r)
  BY DEF SeqOf, Spoken
<1>3. ASSUME job[s].stage = "stored", NEW r \in Spoken(s, job[s].from, job[s].to)
      PROVE  r \in letters'[s] \/ row'[s][SeqOf(s, job[s], r)'] = r
  BY <1>2, <1>3 DEF StageInv
<1>4. faults > 0 => faults' > 0
  BY DEF TypeOK
<1>5. IsLetter(job[s])' => IsLetter(job[s])
  BY DEF IsLetter
<1> QED BY <1>1, <1>3, <1>4, <1>5 DEF StageInv

LEMMA RowKept ==
  ASSUME NEW s \in Sessions, RowInv(s),
         file' = file, row'[s] = row[s], windows[s] \subseteq windows'[s]
  PROVE  RowInv(s)'
BY DEF RowInv, ReplaySeq, Spoken

LEMMA CopyKept ==
  ASSUME TypeOK, TypeOK', NEW s \in Sessions, CopyInv(s),
         file' = file, size'[s] = size[s], snap'[s] = snap[s], faults <= faults',
         cursor'[s] # None => \/ cursor'[s] = NewCursor
                              \/ /\ cursor'[s] = cursor[s]
                                 /\ job[s] # None => job'[s] # None
                                 /\ poller # None /\ poller.session = s =>
                                      poller' # None /\ poller'.session = s
  PROVE  CopyInv(s)'
<1>1. Complete(s)' = Complete(s)
  BY DEF Complete
<1> QED BY <1>1, Numbers DEF CopyInv, TypeOK

\* A session that a step does not touch.
LEMMA Untouched ==
  ASSUME TypeOK, TypeOK', NEW s \in Sessions, SessionInv(s), file' = file, faults <= faults',
         size'[s] = size[s], cursor'[s] = cursor[s], job'[s] = job[s], snap'[s] = snap[s],
         row'[s] = row[s], letters'[s] = letters[s], windows'[s] = windows[s],
         s \in bound => s \in bound', s \in ended => s \in ended',
         poller # None /\ poller.session = s => poller' # None /\ poller'.session = s
  PROVE  SessionInv(s)'
<1>1. size[s] <= size'[s] /\ snap'[s] = snap[s]
  BY DEF TypeOK
<1>2. CursorInv(s)'
  BY <1>1, CursorKept DEF SessionInv
<1>3. JobInv(s)'
  <2>1. Complete(s)' = Complete(s)
    BY DEF Complete
  <2> QED BY <2>1 DEF SessionInv, JobInv, Spoken
<1>4. StageInv(s)'
  BY StageKept DEF SessionInv
<1>5. RowInv(s)'
  BY RowKept DEF SessionInv
<1>6. CopyInv(s)'
  BY CopyKept DEF SessionInv
<1> QED BY <1>2, <1>3, <1>4, <1>5, <1>6 DEF SessionInv

-----------------------------------------------------------------------------
\* A commit puts each of its records in the row of its seq, or among the letters,
\* disturbs no earlier row, and agrees with a replay.
LEMMA StoresFacts ==
  ASSUME TypeOK, NEW s \in Sessions, JobInv(s), CopyInv(s), RowInv(s),
         job[s] # None, Stores(s, job[s]), file' = file
  PROVE  /\ \A r \in Spoken(s, job[s].from, job[s].to) :
              r \in letters'[s] \/ row'[s][SeqOf(s, job[s], r)] = r
         /\ \A m \in 0..(job[s].seq - 1) : row'[s][m] = row[s][m]
         /\ letters[s] \subseteq letters'[s] /\ windows' = windows
         /\ \A t \in Sessions \ {s} : row'[t] = row[t] /\ letters'[t] = letters[t]
         /\ RowInv(s)'
<1> DEFINE j == job[s]
           spoken == Spoken(s, j.from, j.to)
           good == {r \in spoken : file[s][r] = "event"}
           At(n) == {r \in good : SeqOf(s, j, r) = n}
<1>1. /\ j \in Jobs /\ j.from \in Nat /\ j.to \in Nat /\ j.seq \in Nat
      /\ size[s] \in Nat /\ Len(file[s]) \in Nat
  BY Numbers
<1>2. j.to <= Len(file[s]) /\ j.seq <= j.from /\ j.from < j.to
  <2>1. /\ j.to <= Complete(s) /\ size[s] <= 2 * Len(file[s])
        /\ j.seq <= j.from /\ j.from < j.to
    BY DEF JobInv, CopyInv
  <2>2. Complete(s) <= Len(file[s])
    BY <1>1, <2>1 DEF Complete
  <2>3. Complete(s) \in Nat
    BY Numbers
  <2> QED BY <1>1, <2>1, <2>2, <2>3
<1>3. DOMAIN row[s] = 0..Len(file[s])
  BY DEF TypeOK
<1>4. /\ row' = [row EXCEPT ![s] =
           [n \in 0..Len(file[s]) |->
              IF At(n) = {} THEN row[s][n] ELSE CHOOSE r \in At(n) : TRUE]]
      /\ letters' = [letters EXCEPT ![s] = letters[s] \cup (spoken \ good)]
      /\ windows' = windows
  BY <1>3 DEF Stores, TypeOK
<1>5. /\ \A n \in 0..Len(file[s]) :
           row'[s][n] = IF At(n) = {} THEN row[s][n] ELSE CHOOSE r \in At(n) : TRUE
      /\ letters'[s] = letters[s] \cup (spoken \ good)
      /\ \A t \in Sessions \ {s} : row'[t] = row[t] /\ letters'[t] = letters[t]
  BY <1>4 DEF TypeOK
<1>6. \A r \in spoken : /\ r \in Nat /\ j.from < r /\ r <= j.to
                        /\ SeqOf(s, j, r) \in Nat
                        /\ j.seq <= SeqOf(s, j, r)
                        /\ SeqOf(s, j, r) <= j.seq + (r - 1 - j.from)
  BY <1>1, SeqFacts
<1>7. \A r \in spoken : SeqOf(s, j, r) \in 0..Len(file[s])
  BY <1>1, <1>2, <1>6
<1>8. \A q, r \in spoken : SeqOf(s, j, q) = SeqOf(s, j, r) => q = r
  <2> SUFFICES ASSUME NEW q \in spoken, NEW r \in spoken, q # r
               PROVE  SeqOf(s, j, q) # SeqOf(s, j, r)
    OBVIOUS
  <2>1. q < r \/ r < q
    BY <1>6
  <2>2. CASE q < r
    BY <1>1, <1>6, <2>2, SeqInjective
  <2>3. CASE r < q
    BY <1>1, <1>6, <2>3, SeqInjective
  <2> QED BY <2>1, <2>2, <2>3
<1>9. \A r \in good : At(SeqOf(s, j, r)) = {r}
  BY <1>8
<1>10. \A m \in 0..(j.seq - 1) : m \in 0..Len(file[s]) /\ At(m) = {}
  <2> SUFFICES ASSUME NEW m \in 0..(j.seq - 1) PROVE m \in 0..Len(file[s]) /\ At(m) = {}
    OBVIOUS
  <2>1. \A r \in spoken : SeqOf(s, j, r) # m
    BY <1>1, <1>6
  <2> QED BY <1>1, <1>2, <2>1
<1>11. \A r \in good : row'[s][SeqOf(s, j, r)] = r
  <2> SUFFICES ASSUME NEW r \in good PROVE row'[s][SeqOf(s, j, r)] = r
    OBVIOUS
  <2> DEFINE n == SeqOf(s, j, r)
  <2>1. At(n) = {r} /\ n \in 0..Len(file[s])
    BY <1>7, <1>9
  <2>2. row'[s][n] = IF At(n) = {} THEN row[s][n] ELSE CHOOSE q \in At(n) : TRUE
    BY <1>5, <2>1
  <2> HIDE DEF At, n
  <2>3. row'[s][n] = CHOOSE q \in {r} : TRUE
    BY <2>1, <2>2
  <2> QED BY <2>3 DEF n
<1>12. RowInv(s)'
  <2> SUFFICES ASSUME windows[s] = {}, NEW n \in 0..Len(file[s]), row'[s][n] # 0
               PROVE  Cardinality(Spoken(s, 0, row'[s][n] - 1)) = n
    BY <1>4 DEF RowInv, ReplaySeq, Spoken
  <2>1. CASE At(n) = {}
    BY <1>5, <2>1 DEF RowInv, ReplaySeq
  <2>2. CASE At(n) # {}
    <3> DEFINE r == row'[s][n]
    <3>1. r \in At(n)
      BY <1>5, <2>2
    <3>2. r \in spoken /\ SeqOf(s, j, r) = n
      BY <3>1
    <3>3. r \in Nat /\ r - 1 \in Nat /\ j.from <= r - 1
      BY <1>1, <1>6, <3>2
    <3> HIDE DEF r
    <3>4. Cardinality(Spoken(s, 0, r - 1))
            = Cardinality(Spoken(s, 0, j.from)) + Cardinality(Spoken(s, j.from, r - 1))
      BY <1>1, <3>3, SpokenSum
    <3>5. Cardinality(Spoken(s, 0, j.from)) = j.seq
      BY DEF JobInv
    <3>6. Cardinality(Spoken(s, 0, r - 1)) = n
      BY <3>2, <3>4, <3>5 DEF SeqOf
    <3> QED BY <3>6 DEF r
  <2> QED BY <2>1, <2>2
<1> HIDE DEF At
<1> QED BY <1>4, <1>5, <1>10, <1>11, <1>12
-----------------------------------------------------------------------------
(* The steps.                                                              *)

Sessionwise == \A s \in Sessions : SessionInv(s)

LEMMA Initial == Init => Inv
<1> SUFFICES ASSUME Init PROVE Inv
  OBVIOUS
<1>1. file \in [Sessions -> Seq(Kinds)] /\ \A s \in Sessions : Written[s] <= Len(file[s])
  <2>1. /\ \A s \in Sessions : file[s] \in Files[s]
        /\ file \in [Sessions -> UNION Range(Files)]
    BY DEF Init
  <2>2. \A s \in Sessions : file[s] \in Seq(Kinds)
    BY <2>1, TailerConstants
  <2> QED BY <2>1, <2>2, TailerConstants
<1>2. TypeOK
  <2>1. \A s \in Sessions : Len(file[s]) \in Nat
    BY <1>1
  <2>2. size \in [Sessions -> Nat]
    BY TailerConstants DEF Init
  <2>3. \A s \in Sessions : row[s] \in [0..Len(file[s]) -> Nat]
    BY <2>1 DEF Init
  <2> QED BY <1>1, <2>2, <2>3 DEF Init, TypeOK, Phases
<1>3. ASSUME NEW s \in Sessions PROVE SessionInv(s)
  <2>1. CursorInv(s) /\ JobInv(s) /\ StageInv(s) /\ RowInv(s)
    BY <1>3 DEF Init, CursorInv, JobInv, StageInv, RowInv
  <2>2. size[s] = 2 * Written[s] /\ Written[s] \in Nat /\ Len(file[s]) \in Nat
    BY <1>1, TailerConstants DEF Init
  <2>3. size[s] <= 2 * Len(file[s]) /\ 0 <= Complete(s)
    BY <1>1, <2>2 DEF Complete
  <2>4. CopyInv(s)
    BY <2>3 DEF Init, CopyInv
  <2> QED BY <2>1, <2>4 DEF SessionInv
<1> QED BY <1>2, <1>3 DEF Inv, ProcessInv, Init

LEMMA WriteStep ==
  ASSUME Inv, TypeOK', NEW s \in Sessions, Write(s)
  PROVE  ProcessInv' /\ Sessionwise'
<1>1. TypeOK /\ SessionInv(s) /\ size[s] \in Nat /\ size[s] < 2 * Len(file[s])
  BY DEF Inv, Write, TypeOK
<1>2. /\ UNCHANGED <<file, cursor, job, snap, row, letters, windows, poller, phase,
                     bound, ended, faults>>
      /\ size'[s] = size[s] + 1 /\ \A t \in Sessions \ {s} : size'[t] = size[t]
  BY DEF Write, tables, runs, Inv, TypeOK
<1>3. faults <= faults'
  BY <1>1, <1>2 DEF TypeOK
<1>4. ASSUME NEW t \in Sessions \ {s} PROVE SessionInv(t)'
  BY <1>1, <1>2, <1>3, Untouched DEF Inv
<1>5. SessionInv(s)'
  <2>1. CursorInv(s)'
    BY <1>1, <1>2, CursorKept DEF SessionInv
  <2>2. JobInv(s)'
    BY <1>1, <1>2, JobKept DEF SessionInv
  <2>3. StageInv(s)'
    BY <1>1, <1>2, <1>3, StageKept DEF SessionInv
  <2>4. RowInv(s)'
    BY <1>1, <1>2, RowKept DEF SessionInv
  <2>5. Complete(s) <= Complete(s)'
    BY <1>1, <1>2, Halves DEF Complete
  <2>6. snap'[s] <= Complete(s)'
    <3>1. snap[s] <= Complete(s) /\ snap[s] \in Nat /\ Complete(s) \in Nat
      BY <1>1, Numbers DEF SessionInv, CopyInv
    <3>2. Complete(s)' \in Nat
      BY <1>1, <1>2 DEF Complete
    <3> QED BY <1>2, <2>5, <3>1, <3>2
  <2>7. size'[s] <= 2 * Len(file'[s])
    BY <1>1, <1>2 DEF TypeOK
  <2>8. CopyInv(s)'
    BY <1>1, <1>2, <2>6, <2>7 DEF SessionInv, CopyInv
  <2> QED BY <2>1, <2>2, <2>3, <2>4, <2>8 DEF SessionInv
<1>6. ProcessInv'
  <2>1. \A t \in Sessions : size[t] \in Nat /\ size[t] <= size'[t] /\ size'[t] \in Nat
    BY <1>1, <1>2 DEF TypeOK
  <2>2. poller # None => poller.session \in Sessions /\ poller.sig \in Nat
    BY <1>1 DEF TypeOK, Visits
  <2> QED BY <1>2, <2>1, <2>2 DEF Inv, ProcessInv
<1> QED BY <1>4, <1>5, <1>6 DEF Sessionwise

LEMMA RunSteps ==
  ASSUME Inv, TypeOK', NEW s \in Sessions,
         Bind(s) \/ Announce(s) \/ Register(s) \/ Unregister(s)
  PROVE  ProcessInv' /\ Sessionwise'
<1>1. /\ TypeOK /\ \A t \in Sessions : SessionInv(t)
      /\ UNCHANGED <<file, size, job, snap, row, letters, windows, poller, phase, faults>>
  BY DEF Inv, Bind, Announce, Register, Unregister, registering, tables
<1>2. faults <= faults'
  BY <1>1 DEF TypeOK
<1>3. CASE Bind(s) \/ Announce(s)
  <2>1. /\ cursor' = cursor /\ ended' = ended /\ bound \subseteq bound'
        /\ bound' \subseteq bound \cup {s} /\ (bound' # bound => s \notin ended)
    BY <1>3 DEF Bind, Announce
  <2>2. ASSUME NEW t \in Sessions PROVE SessionInv(t)'
    BY <1>1, <1>2, <2>1, Untouched
  <2> QED BY <1>1, <2>1, <2>2 DEF Inv, ProcessInv, Sessionwise
<1>4. CASE Register(s) /\ cursor' = cursor
  <2>1. ASSUME NEW t \in Sessions PROVE SessionInv(t)'
    BY <1>1, <1>2, <1>4, Untouched DEF Register
  <2> QED BY <1>1, <1>4, <2>1 DEF Inv, ProcessInv, Sessionwise, Register
<1>5. CASE Register(s) /\ cursor' # cursor
  <2>1. /\ s \in bound /\ cursor[s] = None /\ cursor'[s] = NewCursor
        /\ bound' = bound /\ ended' = ended
        /\ \A t \in Sessions \ {s} : cursor'[t] = cursor[t]
    BY <1>1, <1>5 DEF Register, Writable, TypeOK
  <2>2. job[s] = None
    BY <1>1, <2>1 DEF Inv, ProcessInv, SessionInv, JobInv
  <2>3. ASSUME NEW t \in Sessions \ {s} PROVE SessionInv(t)'
    BY <1>1, <1>2, <2>1, Untouched
  <2>4. CursorInv(s)'
    <3>1. Cardinality(Spoken(s, 0, 0)) = 0 /\ Spoken(s, 0, 0)' = Spoken(s, 0, 0)
      BY <1>1, NothingSpoken DEF Spoken
    <3>2. Complete(s)' \in Nat /\ 0 \div 2 = 0
      BY Numbers, <1>1 DEF Complete
    <3> QED BY <2>1, <3>1, <3>2 DEF CursorInv, NewCursor
  <2>5. JobInv(s)' /\ StageInv(s)'
    BY <1>1, <2>2 DEF JobInv, StageInv
  <2>6. RowInv(s)' /\ CopyInv(s)'
    BY <1>1, <1>2, <2>1, RowKept, CopyKept DEF SessionInv
  <2> QED BY <1>1, <2>1, <2>3, <2>4, <2>5, <2>6 DEF Inv, ProcessInv, Sessionwise, SessionInv
<1>6. CASE Unregister(s)
  <2>1. /\ cursor'[s] = None /\ s \in ended'
        /\ bound' = bound \ {s} /\ ended' = ended \cup {s}
        /\ \A t \in Sessions \ {s} : cursor'[t] = cursor[t]
    BY <1>1, <1>6 DEF Unregister, TypeOK
  <2>2. ASSUME NEW t \in Sessions \ {s} PROVE SessionInv(t)'
    BY <1>1, <1>2, <2>1, Untouched
  <2>3. size[s] <= size'[s]
    BY <1>1 DEF TypeOK
  <2>4. CursorInv(s)' /\ JobInv(s)' /\ StageInv(s)' /\ RowInv(s)' /\ CopyInv(s)'
    BY <1>1, <1>2, <2>1, <2>3, CursorKept, JobKept, StageKept, RowKept, CopyKept DEF SessionInv
  <2> QED BY <1>1, <2>1, <2>2, <2>4 DEF Inv, ProcessInv, Sessionwise, SessionInv
<1> QED BY <1>3, <1>4, <1>5, <1>6
\* The visit that ends at the pending work.
LEMMA PendingStep ==
  ASSUME Inv, TypeOK', NEW s \in Sessions, poller = None, cursor[s] # None, job[s] # None,
         \/ Waits(s, cursor[s], job[s]) \/ Retries(s, cursor[s], job[s])
         \/ Refuses(s, cursor[s], job[s]),
         UNCHANGED <<file, size, snap, row, letters, windows, poller, phase, bound, ended, faults>>,
         phase \in {"running", "draining"}
  PROVE  ProcessInv' /\ Sessionwise'
<1>1. TypeOK /\ SessionInv(s) /\ faults <= faults' /\ size[s] <= size'[s]
  BY DEF Inv, TypeOK
<1>2. /\ cursor[s] \in Cursors /\ cursor[s].attempts \in Nat
      /\ job[s] \in Jobs /\ s \in bound
  BY <1>1, Numbers DEF SessionInv, CursorInv
<1>3. \A t \in Sessions \ {s} : cursor'[t] = cursor[t] /\ job'[t] = job[t]
  BY <1>1 DEF Waits, Retries, Refuses, TypeOK
<1>4. ASSUME NEW t \in Sessions \ {s} PROVE SessionInv(t)'
  BY <1>1, <1>3, Untouched DEF Inv
<1>5. SessionInv(s)'
  <2>1. CASE Waits(s, cursor[s], job[s])
    BY <1>1, <2>1, Untouched DEF Waits
  <2>2. CASE Retries(s, cursor[s], job[s])
    <3>1. /\ job'[s] = None /\ job[s].stage \in {"transient", "failed"}
          /\ cursor'[s] = [cursor[s] EXCEPT !.attempts = IF IsLetter(job[s]) THEN @ ELSE 0]
      BY <1>1, <2>2 DEF Retries, TypeOK
    <3>2. /\ cursor'[s].off = cursor[s].off /\ cursor'[s].seq = cursor[s].seq
          /\ cursor'[s].sig = cursor[s].sig
      BY <1>2, <3>1 DEF Cursors
    <3>3. CursorInv(s)' /\ JobInv(s)' /\ StageInv(s)' /\ RowInv(s)'
      BY <1>1, <1>2, <3>1, <3>2, CursorKept, JobKept, StageKept, RowKept DEF SessionInv
    <3>4. faults > 0
      BY <1>1, <3>1 DEF SessionInv, StageInv
    <3>5. CopyInv(s)'
      BY <1>1, <3>4 DEF SessionInv, CopyInv, Complete, TypeOK
    <3> QED BY <3>3, <3>5 DEF SessionInv
  <2>3. CASE Refuses(s, cursor[s], job[s])
    <3>1. /\ cursor'[s] = [cursor[s] EXCEPT !.attempts = @ + 1]
          /\ job'[s] = None \/ job'[s] = [job[s] EXCEPT !.stage = "writing"]
      BY <1>1, <2>3 DEF Refuses, TypeOK
    <3>2. /\ cursor'[s].off = cursor[s].off /\ cursor'[s].seq = cursor[s].seq
          /\ cursor'[s].sig = cursor[s].sig /\ cursor'[s].attempts > 0
      BY <1>2, <3>1 DEF Cursors
    <3>3. job'[s] # None => /\ job'[s].from = job[s].from /\ job'[s].to = job[s].to
                            /\ job'[s].seq = job[s].seq /\ job'[s].sig = job[s].sig
                            /\ job'[s].stage = "writing"
      BY <1>2, <3>1 DEF Jobs
    <3>4. cursor'[s] # None
      <4>1. cursor'[s] \in Cursors
        BY <1>2, <3>1 DEF Cursors
      <4> QED BY <4>1, NewTypes
    <3>5. CursorInv(s)' /\ JobInv(s)' /\ RowInv(s)'
      BY <1>1, <1>2, <3>2, <3>3, <3>4, CursorKept, JobKept, RowKept DEF SessionInv
    <3>6. StageInv(s)'
      BY <3>2, <3>3 DEF StageInv
    <3>7. CopyInv(s)'
      BY <1>1, <3>2 DEF SessionInv, CopyInv, Complete
    <3> QED BY <3>5, <3>6, <3>7 DEF SessionInv
  <2> QED BY <2>1, <2>2, <2>3
<1> QED BY <1>4, <1>5 DEF Inv, ProcessInv, Sessionwise

\* The visit that goes on with a cursor that stands by the invariant.
LEMMA VisitStep ==
  ASSUME Inv, TypeOK', NEW s \in Sessions, NEW c \in Cursors, GoesOn(s, c),
         poller = None, cursor[s] # None, phase \in {"running", "draining"},
         UNCHANGED <<file, size, snap, row, letters, windows, phase, bound, ended, faults>>,
         c.off <= Complete(s), c.seq <= c.off, c.sig \div 2 <= c.off,
         \A r \in 1..c.off : Settled(s, r, c.seq),
         windows[s] = {} => c.seq = Cardinality(Spoken(s, 0, c.off)),
         faults = 0 => \/ snap[s] <= c.off \/ c.attempts > 0 \/ c = NewCursor
                       \/ c.sig # size[s]
  PROVE  ProcessInv' /\ Sessionwise'
<1>1. /\ TypeOK /\ SessionInv(s) /\ faults <= faults'
      /\ cursor'[s] = c /\ job'[s] = None
      /\ poller' = IF c.sig = size[s] THEN None ELSE [session |-> s, sig |-> size[s]]
      /\ \A t \in Sessions \ {s} : cursor'[t] = cursor[t] /\ job'[t] = job[t]
  BY DEF Inv, TypeOK, GoesOn
<1>2. ASSUME NEW t \in Sessions \ {s} PROVE SessionInv(t)'
  BY <1>1, Untouched DEF Inv
<1>3. CursorInv(s)'
  <2>1. Complete(s)' = Complete(s)
    BY DEF Complete
  <2>2. \A r \in 1..c.off : Settled(s, r, cursor[s].seq)'
    BY <1>1 DEF Settled
  <2>3. windows'[s] = {} => cursor'[s].seq = Cardinality(Spoken(s, 0, cursor[s].off)')
    BY <1>1 DEF Spoken
  <2>4. s \in bound
    BY <1>1 DEF SessionInv, CursorInv
  <2> QED BY <1>1, <2>1, <2>2, <2>3, <2>4 DEF CursorInv
<1>4. JobInv(s)' /\ StageInv(s)' /\ RowInv(s)'
  BY <1>1, RowKept DEF SessionInv, JobInv, StageInv
<1>5. CopyInv(s)'
  <2>1. c.sig # size[s] => poller' # None /\ poller'.session = s
    <3>1. [session |-> s, sig |-> size[s]] \in Visits
      BY <1>1 DEF Visits, TypeOK
    <3> QED BY <1>1, <3>1, NewTypes
  <2>2. Complete(s)' = Complete(s)
    BY DEF Complete
  <2> QED BY <1>1, <2>1, <2>2 DEF SessionInv, CopyInv, NewCursor
<1>6. ProcessInv'
  <2>1. size[s] <= size[s]
    BY <1>1 DEF TypeOK
  <2> QED BY <1>1, <2>1 DEF Inv, ProcessInv
<1> QED BY <1>2, <1>3, <1>4, <1>5, <1>6 DEF Sessionwise, SessionInv

LEMMA SettledBelow ==
  ASSUME NEW s, NEW r, NEW n \in Nat, NEW m \in Nat, m < n, row[s][m] = r
  PROVE  Settled(s, r, n)
BY DEF Settled

LEMMA PollStep ==
  ASSUME Inv, TypeOK', NEW s \in Sessions, Poll(s)
  PROVE  ProcessInv' /\ Sessionwise'
<1> DEFINE c == cursor[s]  j == job[s]
<1>1. /\ TypeOK /\ SessionInv(s) /\ poller = None /\ c # None
      /\ phase \in {"running", "draining"}
      /\ UNCHANGED <<file, size, snap, row, letters, windows, phase, bound, ended, faults>>
  BY DEF Inv, Poll, tables, runs
<1>2. /\ c \in Cursors /\ c.off \in Nat /\ c.seq \in Nat /\ c.sig \in Nat /\ Complete(s) \in Nat
      /\ c.off <= Complete(s) /\ c.seq <= c.off /\ c.sig \div 2 <= c.off
      /\ \A r \in 1..c.off : Settled(s, r, c.seq)
      /\ windows[s] = {} => c.seq = Cardinality(Spoken(s, 0, c.off))
      /\ snap[s] \in Nat /\ size[s] \in Nat
  BY <1>1, Numbers DEF SessionInv, CursorInv
<1>3. j # None => /\ j \in Jobs /\ j.from \in Nat /\ j.to \in Nat /\ j.seq \in Nat /\ j.sig \in Nat
                  /\ j.from < j.to /\ j.to <= Complete(s) /\ j.sig \div 2 <= j.to
                  /\ snap[s] <= j.to /\ c.off = j.from /\ c.seq = j.seq
  BY <1>1, Numbers DEF SessionInv, JobInv
<1>4. CASE /\ j # None /\ (Waits(s, c, j) \/ Retries(s, c, j) \/ Refuses(s, c, j))
           /\ UNCHANGED poller
  BY <1>1, <1>4, PendingStep
<1>5. CASE j = None /\ GoesOn(s, c)
  <2>1. faults = 0 => snap[s] <= c.off \/ c.attempts > 0 \/ c = NewCursor
    BY <1>1, <1>5 DEF SessionInv, CopyInv
  <2> QED BY <1>1, <1>2, <1>5, <2>1, VisitStep
<1>6. CASE j # None /\ j.stage = "stored" /\ GoesOn(s, Committed(s, c, j))
  <2> DEFINE d == Committed(s, c, j)  k == Cardinality(Spoken(s, j.from, j.to))
  <2>1. k \in Nat /\ k <= j.to - j.from /\ SeqOf(s, j, j.to + 1) = j.seq + k
    <3>1. (j.to + 1) - 1 = j.to
      BY <1>3, <1>6
    <3>2. k \in Nat /\ k <= j.to - j.from
      BY <1>3, <1>6, SpokenCount
    <3> QED BY <3>1, <3>2 DEF SeqOf
  <2>2. /\ d \in Cursors /\ d.off = j.to /\ d.seq = j.seq + k /\ d.sig = j.sig
    <3>1. d \in Cursors
      BY <1>2, <1>3, <1>6, VisitTypes
    <3>2. d.off = j.to /\ d.seq = SeqOf(s, j, j.to + 1) /\ d.sig = j.sig
      BY <1>2 DEF Committed, Consumed, Cursors
    <3> QED BY <2>1, <3>1, <3>2
  <2>3. ASSUME NEW r \in 1..j.to PROVE Settled(s, r, j.seq + k)
    <3> HIDE DEF k
    <3>1. CASE r <= j.from
      <4>1. Settled(s, r, j.seq)
        BY <1>2, <1>3, <1>6, <3>1
      <4>2. 0..(j.seq - 1) \subseteq 0..(j.seq + k - 1)
        BY <1>3, <1>6, <2>1
      <4>3. CASE \E m \in 0..(j.seq - 1) : row[s][m] = r
        <5>1. PICK m \in Nat : m < j.seq + k /\ row[s][m] = r
          BY <1>3, <1>6, <2>1, <4>3
        <5>2. j.seq + k \in Nat
          BY <1>3, <1>6, <2>1
        <5> QED BY <5>1, <5>2, SettledBelow
      <4> QED BY <4>1, <4>3 DEF Settled
    <3>2. CASE j.from < r /\ file[s][r] # "silent"
      <4>1. r \in Spoken(s, j.from, j.to)
        BY <1>3, <1>6, <3>2 DEF Spoken
      <4>2. r \in letters[s] \/ row[s][SeqOf(s, j, r)] = r
        BY <1>1, <1>6, <4>1 DEF SessionInv, StageInv
      <4>3. SeqOf(s, j, r) \in 0..(j.seq + k - 1)
        BY <1>3, <1>6, <2>1, <4>1, SeqFacts
      <4>4. CASE row[s][SeqOf(s, j, r)] = r
        <5>1. j.seq + k \in Nat /\ SeqOf(s, j, r) \in Nat /\ SeqOf(s, j, r) < j.seq + k
          BY <1>3, <1>6, <2>1, <4>3
        <5> QED BY <4>4, <5>1, SettledBelow
      <4> QED BY <4>2, <4>4 DEF Settled
    <3>3. CASE file[s][r] = "silent"
      BY <3>3 DEF Settled
    <3> QED BY <1>3, <1>6, <3>1, <3>2, <3>3
  <2>4. windows[s] = {} => j.seq + k = Cardinality(Spoken(s, 0, j.to))
    <3>1. Cardinality(Spoken(s, 0, j.to)) = Cardinality(Spoken(s, 0, j.from)) + k
      BY <1>3, <1>6, SpokenSum
    <3> QED BY <1>2, <1>3, <1>6, <3>1
  <2>5. j.seq + k <= j.to
    BY <1>2, <1>3, <1>6, <2>1
  <2> HIDE DEF d, k
  <2> QED BY <1>1, <1>3, <1>6, <2>2, <2>3, <2>4, <2>5, VisitStep DEF d
<1>7. CASE j # None /\ j.stage = "written" /\ GoesOn(s, Consumed(s, c, j))
  <2> DEFINE d == Consumed(s, c, j)
  <2>1. d \in Cursors /\ d.off = j.to /\ d.seq = j.seq /\ d.sig = j.sig
    <3>1. d \in Cursors
      BY <1>2, <1>3, <1>7, VisitTypes
    <3> QED BY <1>2, <1>3, <1>7, <3>1 DEF Consumed, Cursors
  <2>2. (j.from + 1)..j.to \subseteq windows[s] /\ j.to \in (j.from + 1)..j.to
    BY <1>1, <1>3, <1>7 DEF SessionInv, StageInv
  <2>3. ASSUME NEW r \in 1..j.to PROVE Settled(s, r, j.seq)
    <3>1. CASE r <= j.from
      BY <1>2, <1>3, <1>7, <3>1
    <3>2. CASE j.from < r
      BY <1>3, <1>7, <2>2, <3>2 DEF Settled
    <3> QED BY <1>3, <1>7, <3>1, <3>2
  <2>4. j.seq <= j.to
    BY <1>2, <1>3, <1>7
  <2> HIDE DEF d
  <2> QED BY <1>1, <1>3, <1>7, <2>1, <2>2, <2>3, <2>4, VisitStep DEF d
<1>8. CASE j # None /\ j.stage = "full" /\ GoesOn(s, c)
  <2>1. c.sig # size[s]
    BY <1>2, <1>3, <1>8 DEF Complete
  <2> QED BY <1>1, <1>2, <1>8, <2>1, VisitStep
<1> QED BY <1>4, <1>5, <1>6, <1>7, <1>8 DEF Poll
LEMMA ReadStep ==
  ASSUME Inv, TypeOK', Read
  PROVE  ProcessInv' /\ Sessionwise'
<1>s. PICK s \in Sessions : s = poller.session
  BY DEF Inv, Read, TypeOK, Visits
<1> DEFINE to == Complete(s)  c == cursor[s]
<1>1. /\ TypeOK /\ poller # None /\ poller \in Visits
      /\ poller.sig \in Nat /\ poller' = None
      /\ UNCHANGED <<file, size, row, letters, windows, phase, bound, ended>>
      /\ size[s] \in Nat /\ snap[s] \in Nat /\ to \in Nat /\ faults \in Nat
  BY <1>s DEF Inv, Read, TypeOK, Visits, tables, runs, Complete
<1>2. /\ SessionInv(s) /\ job[s] = None /\ poller.sig <= size[s]
      /\ phase \in {"running", "draining"}
  BY <1>s, <1>1 DEF Inv, ProcessInv
<1>3. \/ /\ c # None /\ Copied(s, to) /\ Submits(s, c, to) /\ faults' = faults
      \/ /\ faults' = faults + 1 /\ UNCHANGED <<cursor, job, snap>>
      \/ /\ c = None /\ UNCHANGED <<cursor, job, snap, faults>>
  BY <1>s DEF Read
<1> HIDE DEF to, c
<1>4. faults <= faults'
  BY <1>1, <1>3
<1>5. \A t \in Sessions \ {s} : cursor'[t] = cursor[t] /\ job'[t] = job[t] /\ snap'[t] = snap[t]
  BY <1>1, <1>3 DEF Copied, Submits, TypeOK
<1>6. ASSUME NEW t \in Sessions \ {s} PROVE SessionInv(t)'
  <2>1. ~(poller # None /\ poller.session = t)
    BY <1>s
  <2> QED BY <1>1, <1>4, <1>5, <2>1, Untouched DEF Inv
<1>7. to = Complete(s) /\ c = cursor[s] /\ snap[s] <= to /\ poller.sig \div 2 <= to
  <2>1. poller.sig \div 2 <= size[s] \div 2
    BY <1>1, <1>2, Halves
  <2> QED BY <1>2, <2>1 DEF to, c, SessionInv, CopyInv, Complete
<1>8. SessionInv(s)'
  <2>1. RowInv(s)'
    BY <1>1, <1>2, RowKept DEF SessionInv
  <2>2. CASE cursor' = cursor /\ job' = job /\ snap' = snap /\ (c = None \/ faults' > 0)
    <3>1. size[s] <= size'[s]
      BY <1>1
    <3>2. CursorInv(s)' /\ JobInv(s)' /\ StageInv(s)'
      BY <1>1, <1>2, <1>4, <2>2, <3>1, CursorKept, JobKept, StageKept DEF SessionInv
    <3>3. CopyInv(s)'
      BY <1>1, <1>2, <1>7, <2>2 DEF SessionInv, CopyInv, Complete, TypeOK
    <3> QED BY <2>1, <3>2, <3>3 DEF SessionInv
  <2>3. CASE c # None /\ Copied(s, to) /\ Submits(s, c, to)
    <3>1. snap'[s] = to
      BY <1>1, <1>7, <2>3 DEF Copied, TypeOK
    <3>2. /\ c \in Cursors /\ c.off \in Nat /\ c.seq \in Nat /\ c.sig \in Nat
          /\ c.off <= to /\ c.seq <= c.off
          /\ \A r \in 1..c.off : Settled(s, r, c.seq)
          /\ windows[s] = {} => c.seq = Cardinality(Spoken(s, 0, c.off))
          /\ s \in bound
      BY <1>1, <1>2, <1>7, <2>3, Numbers DEF SessionInv, CursorInv
    <3>3. Complete(s)' = Complete(s)
      BY <1>1 DEF Complete
    <3>4. \A a, b : Spoken(s, a, b)' = Spoken(s, a, b)
      BY <1>1 DEF Spoken
    <3>5. \A r, n : Settled(s, r, n) =>
            \/ file'[s][r] = "silent" \/ r \in letters'[s] \cup windows'[s]
            \/ \E m \in 0..(n - 1) : row'[s][m] = r
      BY <1>1 DEF Settled
    <3>6. size'[s] <= 2 * Len(file'[s]) /\ snap'[s] <= Complete(s)'
      BY <1>1, <1>2, <1>7, <3>1, <3>3 DEF SessionInv, CopyInv
    <3>7. CASE Spoken(s, c.off, to) = {}
      <4>1. /\ job'[s] = None
            /\ cursor'[s] = [c EXCEPT !.off = to, !.sig = poller.sig,
                               !.attempts = IF to > c.off THEN 0 ELSE @]
        BY <1>1, <1>2, <2>3, <3>7 DEF Submits, TypeOK
      <4>2. cursor'[s].off = to /\ cursor'[s].seq = c.seq /\ cursor'[s].sig = poller.sig
        BY <3>2, <4>1 DEF Cursors
      <4>3. ASSUME NEW r \in 1..to
            PROVE  \/ file'[s][r] = "silent" \/ r \in letters'[s] \cup windows'[s]
                   \/ \E m \in 0..(c.seq - 1) : row'[s][m] = r
        <5>1. CASE r <= c.off
          BY <1>1, <3>2, <3>5, <5>1
        <5>2. CASE c.off < r
          <6>1. r \in (c.off + 1)..to
            BY <1>1, <3>2, <5>2
          <6> QED BY <1>1, <3>7, <6>1 DEF Spoken
        <5> QED BY <1>1, <3>2, <5>1, <5>2
      <4>4. windows[s] = {} => c.seq = Cardinality(Spoken(s, 0, to))
        <5>1. Cardinality(Spoken(s, 0, to))
                = Cardinality(Spoken(s, 0, c.off)) + Cardinality(Spoken(s, c.off, to))
          BY <1>1, <3>2, SpokenSum
        <5>2. Cardinality(Spoken(s, c.off, to)) = 0
          BY <3>7, FS_EmptySet
        <5>3. Cardinality(Spoken(s, 0, c.off)) \in Nat
          BY <3>2, SpokenCount
        <5> QED BY <3>2, <5>1, <5>2, <5>3
      <4>5. CursorInv(s)'
        <5>1. windows'[s] = {} => cursor'[s].seq = Cardinality(Spoken(s, 0, cursor[s].off)')
          BY <1>1, <4>2, <4>4 DEF Spoken
        <5>2. c.seq <= to
          BY <1>1, <3>2
        <5> QED BY <1>1, <1>7, <3>2, <3>3, <4>2, <4>3, <5>1, <5>2 DEF CursorInv, Settled
      <4>6. JobInv(s)' /\ StageInv(s)'
        BY <4>1 DEF JobInv, StageInv
      <4>7. CopyInv(s)'
        BY <1>1, <3>1, <3>6, <4>2 DEF CopyInv
      <4> QED BY <2>1, <4>5, <4>6, <4>7 DEF SessionInv
    <3>8. CASE Spoken(s, c.off, to) # {}
      <4> DEFINE j == [stage |-> "posted", from |-> c.off, to |-> to, seq |-> c.seq,
                       sig |-> poller.sig]
      <4>1. job'[s] = j /\ cursor' = cursor
        BY <1>1, <2>3, <3>8 DEF Submits, TypeOK
      <4>2. j \in Jobs
        BY <1>1, <3>2 DEF Jobs, CommitStages
      <4>3. j # None
        BY <4>2, NewTypes
      <4>4. c.off < to
        BY <1>1, <3>2, <3>8 DEF Spoken
      <4>5. CursorInv(s)'
        <5>1. size[s] <= size'[s]
          BY <1>1
        <5> QED BY <1>1, <1>2, <4>1, <5>1, CursorKept DEF SessionInv
      <4>6. JobInv(s)'
        <5>1. windows'[s] = {} => job'[s].seq = Cardinality(Spoken(s, 0, job[s].from)')
          BY <1>1, <3>2, <4>1 DEF Spoken
        <5>2. snap'[s] <= to /\ to <= to
          BY <1>1, <3>1
        <5> QED BY <1>1, <1>7, <2>3, <3>2, <3>3, <4>1, <4>4, <5>1, <5>2 DEF JobInv
      <4>7. StageInv(s)'
        BY <4>1 DEF StageInv, IsLetter, LetterStages
      <4>8. CopyInv(s)'
        BY <1>1, <3>6, <4>1, <4>3 DEF CopyInv
      <4> QED BY <2>1, <4>5, <4>6, <4>7, <4>8 DEF SessionInv
    <3> QED BY <3>7, <3>8
  <2> QED BY <1>1, <1>3, <2>2, <2>3
<1>9. ProcessInv'
  BY <1>1, <1>2 DEF Inv, ProcessInv
<1> QED BY <1>6, <1>8, <1>9 DEF Sessionwise

\* A job that goes on to the next stage.
LEMMA StagedStep ==
  ASSUME Inv, TypeOK', NEW s \in Sessions, NEW x \in CommitStages \cup LetterStages,
         job[s] # None, Stage(s, x), loopLeaves' = loopLeaves, faults <= faults',
         letters[s] \subseteq letters'[s], windows[s] \subseteq windows'[s],
         \A m \in 0..(job[s].seq - 1) : row'[s][m] = row[s][m],
         \A t \in Sessions \ {s} : /\ row'[t] = row[t] /\ letters'[t] = letters[t]
                                   /\ windows'[t] = windows[t],
         RowInv(s)', job'[s].stage = x => StageInv(s)',
         x \in {"posted", "queued", "running"} => job[s].stage \in {"posted", "queued", "running"}
  PROVE  ProcessInv' /\ Sessionwise'
<1>1. /\ TypeOK /\ SessionInv(s)
      /\ UNCHANGED <<file, size, cursor, snap, poller, phase, bound, ended>>
  BY DEF Inv, loopLeaves, runs
<1>2. job'[s] = [job[s] EXCEPT !.stage = x] /\ \A t \in Sessions \ {s} : job'[t] = job[t]
  BY <1>1 DEF Stage, TypeOK
<1>3. /\ job[s] \in Jobs /\ job'[s] \in Jobs /\ job'[s] # None
      /\ job'[s].from = job[s].from /\ job'[s].to = job[s].to
      /\ job'[s].seq = job[s].seq /\ job'[s].sig = job[s].sig /\ job'[s].stage = x
      /\ size[s] <= size'[s]
  <2>1. job[s] \in Jobs
    BY <1>1 DEF TypeOK
  <2>2. [job[s] EXCEPT !.stage = x] \in Jobs
    BY <2>1 DEF Jobs
  <2>3. size[s] <= size'[s]
    BY <1>1 DEF TypeOK
  <2> QED BY <1>2, <2>1, <2>2, <2>3, NewTypes DEF Jobs
<1>4. ASSUME NEW t \in Sessions \ {s} PROVE SessionInv(t)'
  BY <1>1, <1>2, Untouched DEF Inv
<1>5. SessionInv(s)'
  <2>1. cursor[s] # None => cursor[s].seq = job[s].seq
    BY <1>1 DEF SessionInv, JobInv
  <2>2. CursorInv(s)'
    BY <1>1, <1>3, <2>1, CursorKept DEF SessionInv
  <2>3. JobInv(s)'
    BY <1>1, <1>3, JobKept DEF SessionInv
  <2>4. CopyInv(s)'
    BY <1>1, <1>3, CopyKept DEF SessionInv
  <2> QED BY <1>3, <2>2, <2>3, <2>4 DEF SessionInv
<1>6. ProcessInv'
  <2>1. poller # None => poller.session \in Sessions \ {s}
    BY <1>1 DEF Inv, ProcessInv, TypeOK, Visits
  <2> QED BY <1>1, <1>2, <1>3, <2>1 DEF Inv, ProcessInv
<1> QED BY <1>4, <1>5, <1>6 DEF Sessionwise
LEMMA EnqueueTakeStep ==
  ASSUME Inv, TypeOK', NEW s \in Sessions, Enqueue(s) \/ Take(s)
  PROVE  ProcessInv' /\ Sessionwise'
<1>1. PICK x \in {"queued", "full", "running"} :
        /\ job[s] # None /\ Stage(s, x) /\ job[s].stage \in {"posted", "queued"}
        /\ loopLeaves' = loopLeaves /\ UNCHANGED <<row, letters, windows, faults>>
  BY DEF Enqueue, Take, tables, loopLeaves
<1>2. x \in CommitStages \cup LetterStages /\ faults <= faults' /\ file' = file
  BY <1>1 DEF CommitStages, loopLeaves, Inv, TypeOK
<1>3. RowInv(s)'
  BY <1>1, <1>2, RowKept DEF Inv, SessionInv
<1>4. job'[s].stage = x => StageInv(s)'
  BY <1>1 DEF StageInv, IsLetter, LetterStages
<1> QED BY <1>1, <1>2, <1>3, <1>4, StagedStep

LEMMA CommitStep ==
  ASSUME Inv, TypeOK', NEW s \in Sessions, Commit(s) \/ CommitLost(s)
  PROVE  ProcessInv' /\ Sessionwise'
<1>1. /\ TypeOK /\ SessionInv(s) /\ job[s] # None /\ loopLeaves' = loopLeaves /\ file' = file
      /\ faults \in Nat /\ faults' \in {faults, faults + 1}
  BY DEF Inv, TypeOK, Commit, CommitLost, loopLeaves
<1>2. faults <= faults'
  BY <1>1
<1>3. ASSUME NEW x \in {"other", "transient"}, Stage(s, x), x = "transient" => faults' > 0,
             UNCHANGED <<row, letters, windows>>
      PROVE  ProcessInv' /\ Sessionwise'
  <2>1. RowInv(s)'
    BY <1>1, <1>3, RowKept DEF SessionInv
  <2>2. job'[s].stage = x => StageInv(s)'
    BY <1>3 DEF StageInv, IsLetter, LetterStages
  <2>3. x \in CommitStages \cup LetterStages
    BY DEF CommitStages
  <2> QED BY <1>1, <1>2, <1>3, <2>1, <2>2, <2>3, StagedStep
<1>4. ASSUME NEW x \in {"stored", "transient"}, Stage(s, x), x = "transient" => faults' > 0,
             Stores(s, job[s])
      PROVE  ProcessInv' /\ Sessionwise'
  <2>1. /\ \A r \in Spoken(s, job[s].from, job[s].to) :
             r \in letters'[s] \/ row'[s][SeqOf(s, job[s], r)] = r
        /\ \A m \in 0..(job[s].seq - 1) : row'[s][m] = row[s][m]
        /\ letters[s] \subseteq letters'[s] /\ windows' = windows
        /\ \A t \in Sessions \ {s} : row'[t] = row[t] /\ letters'[t] = letters[t]
        /\ RowInv(s)'
    BY <1>1, <1>4, StoresFacts DEF SessionInv
  <2>2. job[s] \in Jobs /\ job'[s] = [job[s] EXCEPT !.stage = x]
    BY <1>1, <1>4 DEF Stage, TypeOK
  <2>3. job'[s].from = job[s].from /\ job'[s].to = job[s].to /\ job'[s].seq = job[s].seq
    BY <2>2 DEF Jobs
  <2>4. /\ \A a, b : Spoken(s, a, b)' = Spoken(s, a, b)
        /\ \A r : SeqOf(s, job[s], r)' = SeqOf(s, job[s], r)
    BY <1>1, <2>3 DEF Spoken, SeqOf
  <2>5. ASSUME NEW r \in Spoken(s, job[s].from, job[s].to)'
        PROVE  r \in letters'[s] \/ row'[s][SeqOf(s, job[s], r)'] = r
    <3>1. r \in Spoken(s, job[s].from, job[s].to)
      BY <1>1, <2>3, <2>5 DEF Spoken
    <3> QED BY <2>1, <2>4, <3>1
  <2>6. job'[s].stage = x => StageInv(s)'
    BY <1>4, <2>5 DEF StageInv, IsLetter, LetterStages
  <2>7. x \in CommitStages \cup LetterStages
    BY DEF CommitStages
  <2> QED BY <1>1, <1>2, <1>4, <2>1, <2>6, <2>7, StagedStep
<1>5. CASE Commit(s)
  BY <1>3, <1>4, <1>5 DEF Commit, tables
<1>6. CASE CommitLost(s)
  <2>1. faults' > 0
    BY <1>1, <1>6 DEF CommitLost
  <2> QED BY <1>3, <1>4, <1>6, <2>1 DEF CommitLost, tables
<1> QED BY <1>5, <1>6

LEMMA QuarantineStep ==
  ASSUME Inv, TypeOK', NEW s \in Sessions, Quarantine(s) \/ QuarantineFails(s)
  PROVE  ProcessInv' /\ Sessionwise'
<1>1. /\ TypeOK /\ SessionInv(s) /\ job[s] # None /\ loopLeaves' = loopLeaves
      /\ file' = file /\ cursor' = cursor /\ job[s].stage = "writing"
      /\ faults \in Nat /\ faults' \in {faults, faults + 1} /\ job[s] \in Jobs
      /\ row' = row /\ letters' = letters
  BY DEF Inv, TypeOK, Quarantine, QuarantineFails, loopLeaves, tables
<1>2. PICK x \in {"written", "failed"} :
        /\ Stage(s, x) /\ (x = "failed" => faults' > 0)
        /\ x = "written" => (job[s].from + 1)..job[s].to \subseteq windows'[s]
        /\ windows[s] \subseteq windows'[s]
        /\ \A t \in Sessions \ {s} : windows'[t] = windows[t]
  BY <1>1 DEF Quarantine, QuarantineFails, tables, TypeOK
<1>3. job'[s] = [job[s] EXCEPT !.stage = x]
  BY <1>1, <1>2 DEF Stage, TypeOK
<1>4. job'[s].from = job[s].from /\ job'[s].to = job[s].to
  BY <1>1, <1>3 DEF Jobs
<1>5. cursor[s] # None => cursor[s].attempts > 0
  BY <1>1 DEF SessionInv, StageInv, IsLetter, LetterStages
<1>6. job'[s].stage = x => StageInv(s)'
  BY <1>1, <1>2, <1>4, <1>5 DEF StageInv
<1>7. RowInv(s)'
  BY <1>1, <1>2, RowKept DEF SessionInv
<1>8. x \in CommitStages \cup LetterStages /\ faults <= faults'
  BY <1>1 DEF LetterStages
<1> QED BY <1>1, <1>2, <1>6, <1>7, <1>8, StagedStep

LEMMA PhaseStep ==
  ASSUME Inv, TypeOK', Start \/ StartFails \/ Stop \/ Drained \/ Close
  PROVE  ProcessInv' /\ Sessionwise'
<1>1. /\ TypeOK /\ faults <= faults' /\ poller = None
      /\ UNCHANGED <<file, size, cursor, job, snap, row, letters, windows, poller, bound, ended>>
  BY DEF Inv, ProcessInv, TypeOK, Start, StartFails, Stop, Drained, Close, starting, closing,
       tables, runs
<1>2. ASSUME NEW s \in Sessions PROVE SessionInv(s)'
  BY <1>1, Untouched DEF Inv
<1>3. ProcessInv'
  BY <1>1 DEF Inv, ProcessInv, Start, StartFails, Stop, Drained, Close
<1> QED BY <1>2, <1>3 DEF Sessionwise

\* The pool closes over windows being written.
LEMMA PoolStep ==
  ASSUME Inv, TypeOK', PoolCloses
  PROVE  ProcessInv' /\ Sessionwise'
<1>1. /\ TypeOK /\ poller = None /\ faults <= faults' /\ phase = "closing" /\ phase' = "closed"
      /\ UNCHANGED <<file, size, cursor, snap, row, letters, windows, poller, bound, ended, faults>>
      /\ \A s \in Sessions : \/ job'[s] = job[s]
                             \/ job'[s] = None /\ job[s] # None /\ job[s].stage = "writing"
  BY DEF Inv, ProcessInv, TypeOK, PoolCloses, closing, tables, runs
<1>2. ASSUME NEW s \in Sessions PROVE SessionInv(s)'
  <2>1. SessionInv(s) /\ size[s] <= size'[s]
    BY <1>1 DEF Inv, TypeOK
  <2>2. CASE job'[s] = job[s]
    BY <1>1, <2>1, <2>2, Untouched
  <2>3. CASE job'[s] = None /\ job[s] # None /\ job[s].stage = "writing"
    <3>1. CursorInv(s)' /\ JobInv(s)' /\ StageInv(s)' /\ RowInv(s)'
      BY <1>1, <2>1, <2>3, CursorKept, JobKept, StageKept, RowKept DEF SessionInv
    <3>2. cursor[s] # None => cursor[s].attempts > 0
      BY <2>1, <2>3 DEF SessionInv, StageInv, IsLetter, LetterStages
    <3>3. CopyInv(s)'
      BY <1>1, <2>1, <3>2 DEF SessionInv, CopyInv, Complete
    <3> QED BY <3>1, <3>3 DEF SessionInv
  <2> QED BY <1>1, <2>2, <2>3
<1>3. ProcessInv'
  BY <1>1 DEF Inv, ProcessInv
<1> QED BY <1>2, <1>3 DEF Sessionwise

LEMMA CrashStep ==
  ASSUME Inv, TypeOK', Crash
  PROVE  ProcessInv' /\ Sessionwise'
<1>1. /\ TypeOK /\ poller' = None /\ bound' = {} /\ phase' = "down"
      /\ UNCHANGED <<file, size, snap, row, letters, windows>>
      /\ \A s \in Sessions : cursor'[s] = None /\ job'[s] = None
  BY DEF Inv, Crash, tables
<1>2. ASSUME NEW s \in Sessions PROVE SessionInv(s)'
  <2>1. CursorInv(s)' /\ JobInv(s)' /\ StageInv(s)'
    BY <1>1 DEF CursorInv, JobInv, StageInv
  <2>2. RowInv(s)'
    BY <1>1, RowKept DEF Inv, SessionInv
  <2>3. CopyInv(s)'
    BY <1>1 DEF Inv, SessionInv, CopyInv, Complete
  <2> QED BY <2>1, <2>2, <2>3 DEF SessionInv
<1> QED BY <1>1, <1>2 DEF ProcessInv, Sessionwise

LEMMA Step == Inv /\ [Next]_vars => Inv'
<1> SUFFICES ASSUME Inv, [Next]_vars PROVE Inv'
  OBVIOUS
<1>1. TypeOK'
  BY Typing DEF Inv
<1>2. CASE UNCHANGED vars
  <2>1. /\ UNCHANGED <<file, size, cursor, job, snap, row, letters, windows, poller, phase,
                       bound, ended, faults>>
        /\ faults <= faults'
    BY <1>2 DEF vars, tables, runs, Inv, TypeOK
  <2>2. ASSUME NEW s \in Sessions PROVE SessionInv(s)'
    BY <1>1, <2>1, Untouched DEF Inv
  <2>3. ProcessInv'
    BY <2>1 DEF Inv, ProcessInv
  <2> QED BY <1>1, <2>2, <2>3 DEF Inv
<1>3. ProcessInv' /\ Sessionwise' => Inv'
  BY <1>1 DEF Inv, Sessionwise
<1> QED BY <1>1, <1>2, <1>3, WriteStep, RunSteps, PollStep, ReadStep, EnqueueTakeStep,
        CommitStep, QuarantineStep, PhaseStep, PoolStep, CrashStep DEF Next

-----------------------------------------------------------------------------
\* The types of cursors, jobs, rows and letters, for any sessions and transcripts.
THEOREM TypeTheorem == Spec => []TypeOK
<1>1. Inv => TypeOK
  BY DEF Inv
<1> QED BY <1>1, Initial, Step, PTL DEF Spec

\* Nothing is skipped: behind a cursor every record is a row, a dead letter or
\* silent, for any transcripts, faults, crashes and ends of runs.
THEOREM NothingSkippedTheorem == Spec => []NothingSkipped
<1>1. Inv => NothingSkipped
  <2> SUFFICES ASSUME Inv, NEW s \in Sessions, cursor[s] # None, NEW r \in 1..cursor[s].off
               PROVE  Arrived(s, r)
    BY DEF NothingSkipped
  <2>1. /\ Settled(s, r, cursor[s].seq) /\ cursor[s].seq <= cursor[s].off
        /\ cursor[s].off <= Complete(s) /\ size[s] <= 2 * Len(file[s]) /\ TypeOK
    BY DEF Inv, SessionInv, CursorInv, CopyInv
  <2>2. /\ cursor[s].off \in Nat /\ cursor[s].seq \in Nat /\ Complete(s) \in Nat
        /\ Len(file[s]) \in Nat /\ size[s] \in Nat
    BY <2>1, Numbers
  <2>3. Complete(s) <= Len(file[s])
    BY <2>1, <2>2 DEF Complete
  <2>4. 0..(cursor[s].seq - 1) \subseteq DOMAIN row[s]
    BY <2>1, <2>2, <2>3 DEF TypeOK
  <2>5. ASSUME NEW m \in 0..(cursor[s].seq - 1), row[s][m] = r PROVE r \in Range(row[s])
    BY <2>4, <2>5 DEF Range
  <2> QED BY <2>1, <2>5 DEF Settled, Arrived
<1> QED BY <1>1, Initial, Step, PTL DEF Spec

\* The rows are those of a replay, whatever was lost, repeated or refused, as long
\* as no window was quarantined: for any transcripts, faults and crashes.
THEOREM ReplayTheorem == Spec => []ReplayAgrees
<1>1. Inv => ReplayAgrees
  BY DEF Inv, TypeOK, SessionInv, RowInv, ReplayAgrees
<1> QED BY <1>1, Initial, Step, PTL DEF Spec

\* The orderly close loses nothing it had accepted, for any sessions and queues.
THEOREM CloseTheorem == Spec => []CloseKeepsAccepted
<1>1. Inv /\ NothingSkipped => CloseKeepsAccepted
  <2> SUFFICES ASSUME Inv, NothingSkipped, phase = "closed", NEW s \in Sessions, cursor[s] # None,
                      ~(cursor[s].attempts > 0), ~(faults > 0),
                      ~(job[s] # None /\ (IsLetter(job[s]) \/ job[s].stage \in {"other", "full"})),
                      ~(job[s] = None /\ cursor[s] = NewCursor),
                      NEW r \in 1..snap[s]
               PROVE  Arrived(s, r)
    BY DEF CloseKeepsAccepted
  <2>1. /\ TypeOK /\ SessionInv(s) /\ poller = None /\ faults = 0
        /\ job[s] # None => job[s].stage \notin {"posted", "queued", "running"}
    BY DEF Inv, ProcessInv, TypeOK
  <2>2. /\ cursor[s].off \in Nat /\ snap[s] \in Nat
        /\ job[s] # None => job[s] \in Jobs /\ job[s].from \in Nat /\ job[s].to \in Nat
                            /\ job[s].seq \in Nat
        /\ Complete(s) \in Nat /\ Len(file[s]) \in Nat /\ size[s] \in Nat
    BY <2>1, Numbers
  <2>3. CASE r <= cursor[s].off
    BY <2>2, <2>3 DEF NothingSkipped
  <2>4. CASE cursor[s].off < r
    <3> DEFINE j == job[s]
    <3>1. j # None
      BY <2>1, <2>2, <2>4 DEF SessionInv, CopyInv
    <3>2. j.stage = "stored"
      <4>1. j.stage \in CommitStages \cup LetterStages
        BY <2>2, <3>1 DEF Jobs
      <4>2. j.stage # "transient"
        BY <2>1, <3>1 DEF SessionInv, StageInv
      <4> QED BY <2>1, <3>1, <4>1, <4>2 DEF CommitStages, IsLetter
    <3>3. /\ snap[s] <= j.to /\ cursor[s].off = j.from /\ j.seq <= j.from
          /\ j.to <= Complete(s) /\ size[s] <= 2 * Len(file[s])
      BY <2>1, <3>1 DEF SessionInv, JobInv, CopyInv
    <3>4. CASE file[s][r] = "silent"
      BY <3>4 DEF Arrived
    <3>5. CASE file[s][r] # "silent"
      <4>1. r \in Spoken(s, j.from, j.to)
        BY <2>2, <2>4, <3>1, <3>3, <3>5 DEF Spoken
      <4>2. r \in letters[s] \/ row[s][SeqOf(s, j, r)] = r
        BY <2>1, <3>1, <3>2, <4>1 DEF SessionInv, StageInv
      <4>3. /\ SeqOf(s, j, r) \in Nat /\ SeqOf(s, j, r) <= j.seq + (r - 1 - j.from)
            /\ r \in Nat /\ r <= j.to
        BY <2>2, <3>1, <4>1, SeqFacts
      <4>4. Complete(s) <= Len(file[s])
        BY <2>2, <3>3 DEF Complete
      <4>5. SeqOf(s, j, r) \in DOMAIN row[s]
        BY <2>1, <2>2, <3>1, <3>3, <4>3, <4>4 DEF TypeOK
      <4> QED BY <4>2, <4>5 DEF Arrived, Range
    <3> QED BY <3>4, <3>5
  <2> QED BY <2>2, <2>3, <2>4
<1>2. Spec => []Inv
  BY Initial, Step, PTL DEF Spec
<1> QED BY <1>1, <1>2, NothingSkippedTheorem, PTL
=============================================================================
