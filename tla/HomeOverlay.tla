---------------------------- MODULE HomeOverlay ----------------------------
(***************************************************************************)
(* The home of a run's client (cli/runtime_home.py, cli/home_overlay.py,   *)
(* cli/home_seeders.py, cli/claude_home.py, cli/codex_home.py): a new      *)
(* directory of links to the native home, a home given by the user or a    *)
(* template, with copies of what the run must have for itself; then it is  *)
(* seeded, the client writes into it, and it is removed.  The entries of a *)
(* home stand for the classes of names the code distinguishes.             *)
(***************************************************************************)
EXTENDS Naturals, Sequences

CONSTANTS Configs     \* bound: config.toml files, as sequences of kinds of lines

Copied == {"config", "settings"}
Names == Copied \cup {"daemon", "credential", "state", "content", "git"}
Homes == {"native", "manual", "template"}
Absent == "none"

VARIABLES
  plan,     \* [harness, mode, configured: CLAUDE_CONFIG_DIR or CODEX_HOME is set, config: lines]
  homes,    \* home -> its entries
  entry,    \* entry of the run's home -> none, own, copied, or the home it is a link to
  config,   \* of the run: [from, account, hooks, lines]
  phase,
  touched   \* <<home, entry>> written into, by the launch or through links by its client

vars == <<plan, homes, entry, config, phase, touched>>

-----------------------------------------------------------------------------
\* plan_runtime_home: the content is the home's the user gave or the template's, the credentials
\* are always the native home's.
ContentSource == plan.mode
AuthSource == "native"
IsClaude == plan.harness = "claude"

\* _CLAUDE_OVERLAY_LOCAL_NAMES and _CODEX_OVERLAY_LOCAL_NAMES: Codex has neither a daemon nor settings.
OverlayLocalNames == {"config", "credential"} \cup IF IsClaude THEN {"settings", "daemon"} ELSE {}
NeverLinked == {"git"}

\* validate_runtime_home_template: a template has no credentials and no account.
Valid == plan.mode = "template" => "credential" \notin homes["template"]

\* Mutant: the state of a template is linked like its content.
LinkedWithState == homes[ContentSource] \ (NeverLinked \cup OverlayLocalNames)

Linked ==
  homes[ContentSource] \
    (NeverLinked \cup OverlayLocalNames \cup IF plan.mode = "template" THEN {"state"} ELSE {})

\* _source_claude_config_path; a template's own is pinned.
ConfigSource ==
  IF plan.mode # "template" /\ IsClaude /\ plan.configured THEN "native" ELSE ContentSource

EntryOf(n) ==
  IF n \in Linked THEN ContentSource
  ELSE IF n = "config" /\ n \in homes[ConfigSource] THEN "copied"
  ELSE IF n = "settings" /\ IsClaude /\ n \in homes[ContentSource] THEN "copied"
  ELSE IF n = "credential" /\ n \in homes[AuthSource] THEN AuthSource
  ELSE IF n \in {"state", "daemon"} /\ plan.mode = "template" /\ n \in homes["template"] THEN "own"
  ELSE Absent

Materialize ==
  /\ phase = "planned"
  /\ IF ~Valid THEN phase' = "refused" /\ UNCHANGED <<entry, config>>
     ELSE
       /\ entry' = [n \in Names |-> EntryOf(n)]
       /\ config' = IF "config" \in homes[ConfigSource]
                    THEN [config EXCEPT !.from = ConfigSource, !.hooks = ConfigSource, !.lines = plan.config,
                                        !.account = IF ConfigSource = "template" THEN Absent ELSE ConfigSource]
                    ELSE config
       /\ phase' = "materialized"
  /\ UNCHANGED <<plan, homes, touched>>

-----------------------------------------------------------------------------
(* Seeding.                                                                *)

\* ClaudeSeeder: the account of the auth source's config, which is inside of the native home only
\* if the user configured that home; onboarding, trust, and settings with the run's route.
SeedClaude ==
  /\ config' = IF config.account = Absent /\ plan.configured /\ "config" \in homes[AuthSource]
               THEN [config EXCEPT !.account = AuthSource] ELSE config
  /\ entry' = [entry EXCEPT !["config"] = IF @ \in Homes THEN @ ELSE "own", !["settings"] = IF @ \in Homes THEN @ ELSE "own"]
  /\ touched' = touched \cup {<<entry[n], n>> : n \in {m \in Copied : entry[m] \in Homes}}

\* Lines: header (of the run's directory), trust (a trust_level), other, table (another one's header).
Header(lines) == {i \in DOMAIN lines : lines[i] = "header"}

TableEnd(lines, start) ==
  CHOOSE e \in start..(Len(lines) + 1) :
    /\ e = Len(lines) + 1 \/ lines[e] \in {"header", "table"}
    /\ \A i \in start..(e - 1) : lines[i] \notin {"header", "table"}
TrustLines(lines) ==
  UNION {{i \in (h + 1)..(TableEnd(lines, h + 1) - 1) : lines[i] \in {"trust", "trusted"}} : h \in Header(lines)}
IsTrusted(lines) == \E i \in TrustLines(lines) : lines[i] = "trusted"

\* _write_project_trust.
WriteProjectTrust(lines) ==
  IF IsTrusted(lines) THEN lines
  ELSE IF Header(lines) = {} THEN lines \o <<"header", "trusted">>
  ELSE IF TrustLines(lines) # {} THEN [lines EXCEPT ![CHOOSE i \in TrustLines(lines) : TRUE] = "trusted"]
  ELSE LET e == TableEnd(lines, (CHOOSE h \in Header(lines) : TRUE) + 1)
       IN SubSeq(lines, 1, e - 1) \o <<"trusted">> \o SubSeq(lines, e, Len(lines))

\* Hooks trusted at the source are trusted at the run's home.
Relocated(hooks) == IF hooks = ContentSource THEN "own" ELSE hooks

\* CodexSeeder: hooks, project trust.
SeedCodex ==
  /\ config' = [config EXCEPT !.hooks = Relocated(@), !.lines = WriteProjectTrust(@)]
  /\ entry' = [entry EXCEPT !["config"] = IF @ \in Homes THEN @ ELSE "own"]
  /\ touched' = IF entry["config"] \in Homes THEN touched \cup {<<entry["config"], "config">>} ELSE touched

\* A daemon of the source would drop the run's route: fail closed.
Seed ==
  /\ phase = "materialized"
  /\ \/ IsClaude /\ SeedClaude
     \/ ~IsClaude /\ SeedCodex
  /\ phase' = IF IsClaude /\ entry["daemon"] \in Homes THEN "refused" ELSE "running"
  /\ UNCHANGED <<plan, homes>>

-----------------------------------------------------------------------------
\* The client writes an entry: through the link, or into the run's home.
ClientWrites(n) ==
  /\ phase = "running" /\ n \in Names \ {"git"}
  /\ IF entry[n] \in Homes THEN touched' = touched \cup {<<entry[n], n>>} /\ UNCHANGED entry
                           ELSE entry' = [entry EXCEPT ![n] = "own"] /\ UNCHANGED touched
  /\ UNCHANGED <<plan, homes, config, phase>>

\* rmtree removes links, not what they lead to.
Remove == phase \in {"running", "refused"} /\ phase' = "removed" /\ entry' = [n \in Names |-> Absent] /\ UNCHANGED <<plan, homes, config, touched>>

Init ==
  /\ plan \in [harness : {"claude", "codex"}, mode : Homes, configured : BOOLEAN, config : Configs]
  /\ homes \in [Homes -> {Names, Names \ {"credential"}, {}}]
  /\ IsClaude => plan.config = <<>>
  /\ \A h \in Homes \ {"native", plan.mode} : homes[h] = {}
  /\ entry = [n \in Names |-> Absent]
  /\ config = [from |-> Absent, account |-> Absent, hooks |-> Absent, lines |-> <<>>]
  /\ phase = "planned" /\ touched = {}

Next == Materialize \/ Seed \/ (\E n \in Names : ClientWrites(n)) \/ Remove

Spec == Init /\ [][Next]_vars

-----------------------------------------------------------------------------
\* The trust of the run's directory is added to its copy of config.toml and nothing else
\* changes: every other line stays, in its order and in its table.
Own(lines, i) ==
  \E h \in 1..(i - 1) : lines[h] = "header" /\ \A j \in (h + 1)..i : lines[j] \notin {"header", "table"}
Others(lines) ==
  SelectSeq([i \in DOMAIN lines |-> <<lines[i], Own(lines, i)>>],
            LAMBDA l : l[1] # "header" /\ ~(l[2] /\ l[1] \in {"trust", "trusted"}))
TrustIsAdded ==
  phase = "running" /\ ~IsClaude =>
    /\ \E i \in DOMAIN config.lines : config.lines[i] = "trusted" /\ Own(config.lines, i)
    /\ config.from # Absent => Others(config.lines) = Others(plan.config)

\* Whatever the launch and the client do: no home's own config, settings, daemon state or
\* repository is written, a template's state is not, credentials are the native home's
\* alone, and a template's run gets no account but the native one; what is
\* copied and seeded differs from its source by the trust alone.
HomesAreKept ==
  /\ \A t \in touched :
       /\ IsClaude => t[2] \notin Copied \cup {"daemon"}
       /\ t[2] # "config" /\ t[2] # "git"
       /\ t[2] = "credential" => t[1] = "native"
       /\ t[1] = "template" => t[2] # "state"
  /\ phase = "running" => config.account # "template" /\ entry["git"] = Absent
  /\ TrustIsAdded
=============================================================================
