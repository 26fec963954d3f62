------------------------------- MODULE Spaces -------------------------------
(***************************************************************************)
(* Spaces and their worktrees (space/store.py, space/detection.py): a call *)
(* detects what a directory is, claims or finds its space and writes what  *)
(* it detected, while directories and git worktrees change and other calls *)
(* run; at startup the stored sessions get their spaces                    *)
(* (session/backfill.py), all in one transaction.  The database gives a    *)
(* repository's key to one transaction; the others wait for its end.       *)
(* One repository and one owner; a worktree's id is its path.              *)
(***************************************************************************)
EXTENDS Naturals, Sequences, FiniteSets

CONSTANTS
  Calls,
  SessionCwds,  \* cwds of the stored sessions, in the order of their last update
  MaxChanges,   \* bound: changes of the file system
  MaxSpaces     \* bound: spaces ever inserted

Paths == {"main", "linked", "sub"}    \* sub is a directory of main

VARIABLES
  exists,    \* the directories there are
  listed,    \* the worktrees git lists, gone ones included; {} when main is no repository
  db,        \* spaces, identity (those with the repository's key), tree: path -> row, of: session -> space
  call,      \* call -> [at, path, found, space]
  startup,   \* [at, batch, seen, resolved, again, saved, cwd]
  fresh,     \* ghost: the last write was of the repository as it is
  changes

vars == <<exists, listed, db, call, startup, fresh, changes>>

BACKFILL_BATCH_SIZE == 2
NoRow == [space |-> 0, missing |-> FALSE, primary |-> FALSE]
NoRows == [spaces |-> {}, identity |-> {}, tree |-> [p \in Paths |-> NoRow], of |-> [s \in 1..4 |-> 0]]

-----------------------------------------------------------------------------
\* detect_space and resolve_session_cwd: a missing directory is written as a plain one.
Root(p) == IF p = "sub" /\ listed # {} THEN "main" ELSE p
DetectSpace(p) ==
  IF p \in exists /\ Root(p) \in listed
  THEN [git |-> TRUE, rows |-> [q \in listed |-> [missing |-> q \notin exists, primary |-> q = "main"]]]
  ELSE [git |-> FALSE, rows |-> [q \in {p} |-> [missing |-> p \notin exists, primary |-> p \in exists]]]

Unused == (1..(MaxSpaces + 1)) \ (db.spaces \cup {call[c].space : c \in {d \in Calls : call[d].at = "write"}})
FirstOf(S) == CHOOSE s \in S : \A o \in S : s <= o

Idle == [at |-> "idle", path |-> "main", found |-> [git |-> FALSE, rows |-> <<>>], space |-> 0]

\* The space of what was found, a new one if there is none.
SpaceFor(d, found, p, new) ==
  IF found.git THEN IF d.identity = {} THEN new ELSE CHOOSE s \in d.identity : TRUE
  ELSE IF d.tree[p].space = 0 THEN new ELSE d.tree[p].space

\* Mutant: the worktrees git no longer lists stay as they are.
UpsertedUnmarked(d, found, space) ==
  [d EXCEPT
    !.spaces = @ \cup {space},
    !.identity = IF found.git THEN @ \cup {space} ELSE @,
    !.tree = [p \in Paths |->
      IF p \in DOMAIN found.rows
      THEN [space |-> space, missing |-> found.rows[p].missing, primary |-> found.rows[p].primary]
      ELSE d.tree[p]]]

\* _upsert_worktree for every row, then _mark_missing_worktrees of a repository.
Upserted(d, found, space) ==
  [d EXCEPT
    !.spaces = @ \cup {space},
    !.identity = IF found.git THEN @ \cup {space} ELSE @,
    !.tree = [p \in Paths |->
      IF p \in DOMAIN found.rows
      THEN [space |-> space, missing |-> found.rows[p].missing, primary |-> found.rows[p].primary]
      ELSE IF found.git /\ d.tree[p].space = space
      THEN [space |-> space, missing |-> TRUE, primary |-> FALSE] ELSE d.tree[p]]]

\* What the write of a row for p in a space makes of the ghost: a plain directory's row
\* that was one of the repository's, or becomes one, is not what git lists.
FreshAfter(found, p, space) ==
  IF found.git THEN found = DetectSpace(p) ELSE fresh /\ {db.tree[p].space, space} \cap db.identity = {}

-----------------------------------------------------------------------------
(* Calls: a resolution, a refresh, the meta route.                         *)

Detect(c, p) ==
  /\ startup.at = "serving" /\ call[c].at = "idle"
  /\ call' = [call EXCEPT ![c] = [at |-> "lookup", path |-> p, found |-> DetectSpace(p), space |-> 0]]
  /\ UNCHANGED <<exists, listed, db, startup, fresh, changes>>

\* The key of a repository without a space is claimed, unless another transaction has it;
\* who lost deletes its candidate and takes the winner's space.
Lookup(c) ==
  LET found == call[c].found IN
  /\ call[c].at = "lookup" /\ FirstOf(Unused) <= MaxSpaces
  /\ \/ ~found.git \/ db.identity # {}
     \/ \A o \in Calls : call[o].at # "write" \/ ~call[o].found.git
  /\ call' = [call EXCEPT ![c].at = "write", ![c].space = SpaceFor(db, found, call[c].path, FirstOf(Unused))]
  /\ UNCHANGED <<exists, listed, db, startup, fresh, changes>>

Write(c) ==
  LET found == call[c].found IN
  /\ call[c].at = "write"
  /\ db' = Upserted(db, found, call[c].space)
  /\ fresh' = FreshAfter(found, call[c].path, call[c].space)
  /\ call' = [call EXCEPT ![c] = Idle]
  /\ UNCHANGED <<exists, listed, startup, changes>>

\* git or the database fails, or the request is cancelled.
Abort(c) ==
  /\ call[c].at # "idle"
  /\ call' = [call EXCEPT ![c] = Idle]
  /\ UNCHANGED <<exists, listed, db, startup, fresh, changes>>

-----------------------------------------------------------------------------
(* Startup, before the first call.                                         *)

SpaceOf(d, p) == SpaceFor(d, DetectSpace(p), p, FirstOf(Unused))
Resolved(d, p) == Upserted(d, DetectSpace(p), SpaceOf(d, p))
Missing == {s \in DOMAIN startup.cwd : db.of[s] = 0}
\* The first sessions without a space, those without a cwd last.
Serving == [startup EXCEPT !.at = "serving", !.batch = {}, !.seen = {}, !.resolved = 0, !.again = FALSE, !.saved = NoRows]

Before(o, s) == IF (startup.cwd[o] = "") = (startup.cwd[s] = "") THEN o < s ELSE startup.cwd[s] = ""
Batch == {s \in Missing : Cardinality({o \in Missing : Before(o, s)}) < BACKFILL_BATCH_SIZE}

ResolveCurrentSpace ==
  /\ startup.at = "starting"
  /\ db' = IF "main" \in exists THEN Resolved(db, "main") ELSE db
  /\ fresh' = ("main" \in exists)
  /\ startup' = [startup EXCEPT !.at = "listing", !.saved = db']
  /\ UNCHANGED <<exists, listed, call, changes>>

BackfillList ==
  /\ startup.at = "listing"
  /\ startup' = IF Batch = {} THEN Serving
                ELSE [startup EXCEPT !.at = "batch", !.batch = Batch, !.resolved = 0, !.again = TRUE]
  /\ UNCHANGED <<exists, listed, db, call, fresh, changes>>

\* A session seen without a cwd stays without a space; a cwd that cannot be
\* detected ends the backfill, and its transaction is rolled back.
BackfillSession ==
  /\ startup.at = "batch" /\ startup.batch # {}
  /\ \E s \in {CHOOSE n \in startup.batch : \A o \in startup.batch : o = n \/ Before(n, o)} :
       LET cwd == startup.cwd[s] IN
       \/ /\ cwd = ""
          /\ startup' = [startup EXCEPT !.batch = @ \ {s}, !.seen = @ \cup {s}, !.again = @ /\ s \in startup.seen]
          /\ UNCHANGED <<db, fresh>>
       \/ /\ cwd \in Paths
          /\ \E p \in {IF DetectSpace(cwd).git THEN Root(cwd) ELSE cwd} :
               db' = [Resolved(db, cwd) EXCEPT !.of[s] = Resolved(db, cwd).tree[p].space]
          /\ fresh' = FreshAfter(DetectSpace(cwd), cwd, SpaceOf(db, cwd))
          /\ startup' = [startup EXCEPT !.batch = @ \ {s}, !.resolved = @ + 1, !.again = FALSE]
       \/ /\ cwd = "file"
          /\ db' = startup.saved /\ fresh' = FALSE
          /\ startup' = Serving
  /\ UNCHANGED <<exists, listed, call, changes>>

BackfillNext ==
  /\ startup.at = "batch" /\ startup.batch = {}
  /\ startup' = IF startup.resolved = 0 \/ startup.again THEN Serving ELSE [startup EXCEPT !.at = "listing"]
  /\ UNCHANGED <<exists, listed, db, call, fresh, changes>>

-----------------------------------------------------------------------------
(* The file system.                                                        *)

Change(there, trees) ==
  /\ changes < MaxChanges /\ changes' = changes + 1
  /\ <<there, trees>> # <<exists, listed>>
  /\ exists' = there /\ listed' = trees /\ fresh' = FALSE
  /\ UNCHANGED <<db, call, startup>>

FileSystem ==
  \/ "main" \in exists /\ listed = {} /\ Change(exists, {"main"})
  \/ listed # {} /\ Change(exists \cup {"linked"}, listed \cup {"linked"})
  \/ Change(exists, {p \in listed : p \in exists})
  \/ "linked" \in listed /\ Change(exists \ {"linked"}, listed \ {"linked"})
  \/ "main" \in listed /\ Change(exists, {})
  \/ \E p \in exists : IF p = "main" THEN Change(exists \ {"main", "sub"}, {}) ELSE Change(exists \ {p}, listed)
  \/ \E p \in Paths : (p = "sub" => "main" \in exists) /\ Change(exists \cup {p}, listed)

Init ==
  /\ listed \in {{}, {"main"}, {"main", "linked"}} /\ exists \in {{"main", "sub"}, {"main", "sub"} \cup listed}
  /\ db = NoRows
  /\ call = [c \in Calls |-> Idle]
  /\ \E cwd \in SessionCwds :
       startup = [at |-> "starting", batch |-> {}, seen |-> {}, resolved |-> 0, again |-> FALSE, saved |-> NoRows, cwd |-> cwd]
  /\ fresh = FALSE /\ changes = 0

Next ==
  \/ \E c \in Calls, p \in Paths : Detect(c, p)
  \/ \E c \in Calls : Lookup(c) \/ Write(c) \/ Abort(c)
  \/ ResolveCurrentSpace \/ BackfillList \/ BackfillSession \/ BackfillNext
  \/ FileSystem

Spec == Init /\ [][Next]_vars

-----------------------------------------------------------------------------
\* A repository has one space, however many calls met it first; and once a detection of
\* what git lists now was written last, its rows are what git lists, and the
\* other rows of its space are missing ones.
RepoRowsMatch ==
  /\ \A s, t \in db.identity : s = t
  /\ fresh /\ listed # {} => \A p \in Paths :
       IF p \in listed
       THEN db.tree[p].space \in db.identity /\ db.tree[p].missing = (p \notin exists) /\ db.tree[p].primary = (p = "main")
       ELSE db.tree[p].space \in db.identity => db.tree[p].missing /\ ~db.tree[p].primary

=============================================================================
