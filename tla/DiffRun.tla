------------------------------ MODULE DiffRun ------------------------------
(***************************************************************************)
(* One run of zdm --diff or --diff-staged, beside other processes that     *)
(* commit, check out, fetch or stage while it runs.                        *)
(*                                                                         *)
(* The run never pins a commit.  It resolves the base reference and HEAD   *)
(* to compute the diff, HEAD once more for the tree it lists, once more    *)
(* for every file it opens, and all of them again when the first dropped   *)
(* column asks for model evidence; only the index is held by the           *)
(* repository handle after it was first opened.  Each of these reads is    *)
(* an action here, and the others may move a reference between any two.    *)
(*                                                                         *)
(* Left outside: configuration and CLI scopes (Migrations and Others are   *)
(* the paths in scope and not excluded, Others the ones no allowed pattern *)
(* matches), line suppressions, and the order and wording of the report.   *)
(***************************************************************************)
EXTENDS Naturals

CONSTANTS
    Commits, NoCommit,
    Migrations,   \* numbered in the order of the diff
    Others,       \* the other paths
    Tree,         \* commit -> path -> content
    Models,       \* commit -> what the models in its tree say of the column
    Configured,   \* the commits whose tree configures model-sources
    MergeBase,    \* <<commit, commit>> -> commit, or NoCommit
    Selections,   \* the sets of enabled rules a run may have
    MaxMoves      \* bound on the reference updates of other processes

Contents == {"absent", "broken", "clean", "unsafe", "drop", "state", "database", "waiver"}
Unparsed == {"unread", "absent", "broken"}

ASSUME CommitsAssumption == NoCommit \notin Commits
ASSUME MigrationsAssumption == Migrations \subseteq Nat
ASSUME TreeAssumption ==
    \A c \in Commits : \A f \in Migrations : Tree[c][f] \in Contents
ASSUME ModelsAssumption == Models \in [Commits -> {"absent", "mapped", "error"}]
ASSUME ConfiguredAssumption == Configured \subseteq Commits
ASSUME MergeBaseAssumption ==
    MergeBase \in [Commits \X Commits -> Commits \cup {NoCommit}]
ASSUME SelectionsAssumption == Selections \subseteq SUBSET {"R005", "R008", "R009"}
ASSUME BoundAssumption == MaxMoves \in Nat

VARIABLES
    head, baseRef, index,   \* the repository
    moves,                  \* updates of it since the run began
    moments,                \* <<base reference, HEAD, index>> held during the run
    mode, enabled,          \* command line and configuration
    pc,
    tip,                    \* the base reference as last resolved
    base, target,           \* DiffContext.files: the two trees compared
    staged,                 \* the index held by the repository handle
    todo,                   \* the rest of migration_paths
    read,                   \* path -> the content it was opened with
    current,                \* the path that asks for evidence
    evidenceBase,           \* the commit of the evidence's base snapshot
    evidenceTarget,         \* the commit of the other one
    evidence,               \* DiffContext.model_evidence
    reported,               \* paths with an error of a migration rule
    hasParseErrors,
    exit

repository == <<head, baseRef, index, moves, moments>>
run == <<mode, enabled, pc, tip, base, target, staged, todo, read, current,
         evidenceBase, evidenceTarget, evidence, reported, hasParseErrors, exit>>
vars == <<head, baseRef, index, moves, moments, mode, enabled, pc, tip, base,
          target, staged, todo, read, current, evidenceBase, evidenceTarget,
          evidence, reported, hasParseErrors, exit>>

Refs == Commits \cup {NoCommit}
Findings == {"absent", "mapped", "error"}
NoEvidence == [base |-> "none", target |-> "none"]
Failed == [base |-> "error", target |-> "error"]
Steps == {"base_ref", "head", "target", "list", "files", "evidence_base_ref",
          "evidence_head", "evidence_target", "changeset", "done"}

TypeOK ==
    /\ head \in Refs /\ baseRef \in Refs /\ index \in Commits
    /\ moves \in 0..MaxMoves
    /\ moments \subseteq Refs \X Refs \X Commits
    /\ mode \in {"head", "index"} /\ enabled \in Selections
    /\ pc \in Steps
    /\ tip \in Refs /\ base \in Refs /\ target \in Refs /\ staged \in Refs
    /\ todo \subseteq Migrations
    /\ read \in [Migrations -> Contents \cup {"unread"}]
    /\ current \in Migrations \cup {0}
    /\ evidenceBase \in Refs /\ evidenceTarget \in Refs
    /\ evidence \in [base : Findings, target : Findings] \cup {NoEvidence}
    /\ reported \subseteq Migrations
    /\ hasParseErrors \in BOOLEAN
    /\ exit \in {"running", "0", "1", "2"}

Init ==
    /\ head \in Refs /\ baseRef \in Refs /\ index \in Commits
    /\ moves = 0 /\ moments = {<<baseRef, head, index>>}
    /\ mode \in {"head", "index"} /\ enabled \in Selections
    /\ pc = "base_ref"
    /\ tip = NoCommit /\ base = NoCommit /\ target = NoCommit /\ staged = NoCommit
    /\ todo = {} /\ read = [f \in Migrations |-> "unread"] /\ current = 0
    /\ evidenceBase = NoCommit /\ evidenceTarget = NoCommit
    /\ evidence = NoEvidence
    /\ reported = {} /\ hasParseErrors = FALSE
    /\ exit = "running"

-----------------------------------------------------------------------------
(* Other processes.                                                        *)

MoveHead(c) ==
    /\ moves < MaxMoves /\ c # head
    /\ head' = c /\ moves' = moves + 1
    /\ moments' = moments \cup {<<baseRef, c, index>>}
    /\ UNCHANGED <<baseRef, index>> /\ UNCHANGED run

MoveBaseRef(c) ==
    /\ moves < MaxMoves /\ c # baseRef
    /\ baseRef' = c /\ moves' = moves + 1
    /\ moments' = moments \cup {<<c, head, index>>}
    /\ UNCHANGED <<head, index>> /\ UNCHANGED run

\* git add of a whole tree; the paths between two trees are never staged here.
Stage(c) ==
    /\ moves < MaxMoves /\ c # index
    /\ index' = c /\ moves' = moves + 1
    /\ moments' = moments \cup {<<baseRef, head, c>>}
    /\ UNCHANGED <<head, baseRef>> /\ UNCHANGED run

Environment ==
    \/ \E c \in Refs : MoveHead(c) \/ MoveBaseRef(c)
    \/ \E c \in Commits : Stage(c)

-----------------------------------------------------------------------------
(* DiffContext::new.                                                       *)

\* The `?` operator: the run ends with exit code 2.
Abort ==
    /\ pc' = "done" /\ exit' = "2"
    /\ UNCHANGED <<tip, base, target, staged, todo, read, current, evidenceBase,
                   evidenceTarget, evidence, reported, hasParseErrors>>

\* commit_at(base_ref)
ResolveBaseRef ==
    /\ pc = "base_ref"
    /\ IF baseRef = NoCommit
         THEN Abort
         ELSE /\ tip' = baseRef /\ pc' = "head"
              /\ UNCHANGED <<base, target, staged, todo, read, current, evidenceBase,
                             evidenceTarget, evidence, reported, hasParseErrors, exit>>
    /\ UNCHANGED repository /\ UNCHANGED <<mode, enabled>>

\* Mutant: the diff starts at the tip of the base reference.
TipWithHead == IF head = NoCommit THEN NoCommit ELSE tip

\* The merge base with what HEAD is now, or NoCommit.
MergeBaseWithHead == IF head = NoCommit THEN NoCommit ELSE MergeBase[tip, head]

\* The rest of merge_base_tree.
ResolveMergeBase ==
    /\ pc = "head"
    /\ IF MergeBaseWithHead = NoCommit
         THEN Abort
         ELSE /\ base' = MergeBaseWithHead /\ pc' = "target"
              /\ UNCHANGED <<tip, target, staged, todo, read, current, evidenceBase,
                             evidenceTarget, evidence, reported, hasParseErrors, exit>>
    /\ UNCHANGED repository /\ UNCHANGED <<mode, enabled>>

\* Mutant: every use of the index opens it again.
ReloadedSource == IF mode = "head" THEN head ELSE index

\* What head_tree() or the handle's index gives at this moment.
Source ==
    IF mode = "head" THEN head
    ELSE IF staged = NoCommit THEN index ELSE staged

\* The rest of changed_files_for_source.
ListTarget ==
    /\ pc = "target"
    /\ IF Source = NoCommit
         THEN Abort
         ELSE /\ target' = Source /\ pc' = "list"
              /\ staged' = IF mode = "index" THEN Source ELSE staged
              /\ UNCHANGED <<tip, base, todo, read, current, evidenceBase,
                             evidenceTarget, evidence, reported, hasParseErrors, exit>>
    /\ UNCHANGED repository /\ UNCHANGED <<mode, enabled>>

-----------------------------------------------------------------------------
(* run                                                                     *)

\* Paths that differ between two trees.
Changed(paths, a, b) == {f \in paths : Tree[a][f] # Tree[b][f]}

\* Mutant: paths of other files are opened like migrations.
OpenedOfAll(a, b) == {f \in Changed(Migrations \cup Others, a, b) : Tree[b][f] # "absent"}

\* migration_paths: the deleted ones are not opened.
Opened(a, b) == {f \in Changed(Migrations, a, b) : Tree[b][f] # "absent"}

Discover ==
    /\ pc = "list"
    /\ IF Changed(Migrations, base, target) = {}
         THEN pc' = "done" /\ exit' = "0" /\ todo' = {}
         ELSE pc' = "files" /\ exit' = exit /\ todo' = Opened(base, target)
    /\ UNCHANGED repository
    /\ UNCHANGED <<mode, enabled, tip, base, target, staged, read, current,
                   evidenceBase, evidenceTarget, evidence, reported, hasParseErrors>>

\* Mutant: only the checked revision is asked.
TargetAbsent(ev) == ev.target = "absent"

\* ModelEvidence::column_absence
ColumnAbsent(ev) == ev.base = "absent" /\ ev.target = "absent"

\* R005 asks for evidence; unsafe stands for an error of any other rule.
Asks(content) == content = "drop" /\ "R005" \in enabled
Reports(content, ev) == content = "unsafe" \/ (Asks(content) /\ ~ColumnAbsent(ev))

\* Mutant: model_evidence is built for every file that asks.
BuildsEachTime(content) == Asks(content)

\* get_or_init
Builds(content) == Asks(content) /\ evidence = NoEvidence

\* Mutant: a path that has left the tree counts as deleted.
FailsIfPresent(content) == content = "broken"

\* read_head_file, read_staged_file or the parser returns an error.
Fails(content) == content \in {"absent", "broken"}

\* Mutant: a path that failed is tried again.
RetryFailed(f, content) == IF Fails(content) THEN todo ELSE todo \ {f}

\* migration_paths after f.
Rest(f, content) == todo \ {f}

\* parse_and_check_file up to the rules, at the first path left.
Open(f) ==
    /\ pc = "files" /\ f \in todo /\ \A g \in todo : f <= g
    /\ LET content == IF Source = NoCommit THEN "absent" ELSE Tree[Source][f]
       IN  /\ read' = [read EXCEPT ![f] = content]
           /\ todo' = Rest(f, content)
           /\ hasParseErrors' = (hasParseErrors \/ Fails(content))
           /\ IF Builds(content)
                THEN current' = f /\ pc' = "evidence_base_ref" /\ reported' = reported
                ELSE /\ current' = current /\ pc' = pc
                     /\ reported' = IF Reports(content, evidence)
                                      THEN reported \cup {f} ELSE reported
    /\ UNCHANGED repository
    /\ UNCHANGED <<mode, enabled, tip, base, target, staged, evidenceBase,
                   evidenceTarget, evidence, exit>>

-----------------------------------------------------------------------------
(* ModelEvidence::from_git, and the rules on the path that asked for it.   *)

\* The index of `tree`, read with the scopes configured in `scopes`.
BuildIndex(scopes, tree) == IF scopes \in Configured THEN Models[tree] ELSE "error"

Settle(ev) ==
    /\ evidence' = ev /\ pc' = "files"
    /\ reported' = IF ColumnAbsent(ev) THEN reported ELSE reported \cup {current}
    /\ UNCHANGED <<base, target, staged, todo, read, current, hasParseErrors, exit>>
    /\ UNCHANGED repository /\ UNCHANGED <<mode, enabled>>

\* merge_base_tree again: commit_at(base_ref) ...
EvidenceBaseRef ==
    /\ pc = "evidence_base_ref"
    /\ UNCHANGED <<evidenceBase, evidenceTarget>>
    /\ IF baseRef = NoCommit
         THEN Settle(Failed) /\ tip' = tip
         ELSE /\ tip' = baseRef /\ pc' = "evidence_head"
              /\ UNCHANGED <<base, target, staged, todo, read, current, evidence,
                             reported, hasParseErrors, exit, mode, enabled>>
              /\ UNCHANGED repository

\* ... head_commit(), and model_sources of the tree they lead to.
EvidenceHead ==
    /\ pc = "evidence_head"
    /\ UNCHANGED <<tip, evidenceTarget>>
    /\ IF MergeBaseWithHead \notin Configured
         THEN Settle(Failed) /\ evidenceBase' = evidenceBase
         ELSE /\ evidenceBase' = MergeBaseWithHead /\ pc' = "evidence_target"
              /\ UNCHANGED <<base, target, staged, todo, read, current, evidence,
                             reported, hasParseErrors, exit, mode, enabled>>
              /\ UNCHANGED repository

\* model_snapshot(None, source), and both indexes.
EvidenceTarget ==
    /\ pc = "evidence_target"
    /\ UNCHANGED <<tip, evidenceBase>>
    /\ IF Source = NoCommit
         THEN Settle(Failed) /\ evidenceTarget' = evidenceTarget
         ELSE /\ evidenceTarget' = Source
              /\ Settle([base |-> BuildIndex(evidenceBase, evidenceBase),
                         target |-> BuildIndex(evidenceBase, Source)])

-----------------------------------------------------------------------------
(* Changeset rules and the exit code.                                      *)

LoopEnds ==
    /\ pc = "files" /\ todo = {}
    /\ pc' = "changeset"
    /\ UNCHANGED repository
    /\ UNCHANGED <<mode, enabled, tip, base, target, staged, todo, read, current,
                   evidenceBase, evidenceTarget, evidence, reported, hasParseErrors, exit>>

\* The migrations that were opened and parsed, by content.
Parsed == {read[f] : f \in {g \in Migrations : read[g] \notin Unparsed}}

\* R008, unless a migration of the changeset ignores it; R009.
ChangesetReports(migrations, others, contents) ==
    \/ /\ "R008" \in enabled /\ migrations # {} /\ others # {}
       /\ "waiver" \notin contents
    \/ "R009" \in enabled /\ {"state", "database"} \subseteq contents

Finish ==
    /\ pc = "changeset"
    /\ pc' = "done"
    /\ exit' = IF hasParseErrors THEN "2"
               ELSE IF \/ reported # {}
                       \/ ChangesetReports(Changed(Migrations, base, target),
                                           Changed(Others, base, target), Parsed)
                      THEN "1" ELSE "0"
    /\ UNCHANGED repository
    /\ UNCHANGED <<mode, enabled, tip, base, target, staged, todo, read, current,
                   evidenceBase, evidenceTarget, evidence, reported, hasParseErrors>>

Run ==
    \/ ResolveBaseRef \/ ResolveMergeBase \/ ListTarget \/ Discover
    \/ \E f \in Migrations : Open(f)
    \/ EvidenceBaseRef \/ EvidenceHead \/ EvidenceTarget
    \/ LoopEnds \/ Finish

Next == Run \/ Environment

\* The process blocks on no other one: it keeps running.
Spec == Init /\ [][Next]_vars /\ WF_vars(Run)

-----------------------------------------------------------------------------
(* Properties.                                                             *)

\* What a run says of a base reference, a HEAD and an index that stand still.
Verdict(b, h, i) ==
    LET m == IF b = NoCommit \/ h = NoCommit THEN NoCommit ELSE MergeBase[b, h]
        t == IF mode = "head" THEN h ELSE i
        changed == {f \in Migrations : Tree[m][f] # Tree[t][f]}
        contents == {Tree[t][f] : f \in changed} \ {"absent"}
        others == {f \in Others : Tree[m][f] # Tree[t][f]}
        absent == m \in Configured /\ Models[m] = "absent" /\ Models[t] = "absent"
    IN  CASE m = NoCommit -> "2"
          [] m # NoCommit /\ changed = {} -> "0"
          [] m # NoCommit /\ changed # {} /\ "broken" \in contents -> "2"
          [] OTHER -> IF \/ "unsafe" \in contents
                         \/ Asks("drop") /\ "drop" \in contents /\ ~absent
                         \/ ChangesetReports(changed, others, contents)
                        THEN "1" ELSE "0"

(***************************************************************************)
(* `--diff ... giving deterministic PR/CI results` (README): when nobody   *)
(* moves a reference during the run, its exit code is the verdict on the   *)
(* repository as it stands, whatever else the run read and in which order. *)
(***************************************************************************)
QuietVerdict ==
    pc = "done" /\ moves = 0 => exit = Verdict(baseRef, head, index)

(***************************************************************************)
(* No exit code 0 or 1 without every migration the diff lists opened,      *)
(* parsed and checked: one that vanishes between the listing and the       *)
(* reading (main.rs run, has_parse_errors) is an error, not a deletion.    *)
(***************************************************************************)
NothingSkipped ==
    pc = "done" /\ exit # "2" =>
        \A f \in Opened(base, target) : read[f] \notin Unparsed

\* The migrations on which R005 had to decide.
Decided == {f \in Migrations : Asks(read[f]) /\ ~(pc \in {"evidence_base_ref",
              "evidence_head", "evidence_target"} /\ f = current)}

(***************************************************************************)
(* The OnceLock of DiffContext: every drop of the column in one run is     *)
(* judged alike, though the references may move between two files.         *)
(***************************************************************************)
OneEvidence ==
    \A f, g \in Decided : f \in reported <=> g \in reported

(***************************************************************************)
(* R005 lets a column go only if the models excluded it at a commit that   *)
(* was HEAD (or the staged tree) during the run, and at the merge base of  *)
(* a base reference and a HEAD of the run, which had configured where the  *)
(* models are.  A failure to find out never counts as absence.             *)
(***************************************************************************)
DropsAuthorised ==
    Decided \ reported # {} =>
        /\ \E s, t \in moments :
              LET m == MergeBase[s[1], t[2]]
              IN  /\ s[1] # NoCommit /\ t[2] # NoCommit
                  /\ m \in Configured /\ Models[m] = "absent"
        /\ \E s \in moments :
              LET t == IF mode = "head" THEN s[2] ELSE s[3]
              IN  t # NoCommit /\ Models[t] = "absent"

(***************************************************************************)
(* --diff-staged `reads the staged blobs` (README): files and evidence     *)
(* come from the tree the diff listed, even if more is staged meanwhile.   *)
(***************************************************************************)
StagedReadsOneTree ==
    mode = "index" =>
        /\ \A f \in Migrations :
              read[f] # "unread" => target # NoCommit /\ read[f] = Tree[target][f]
        /\ evidenceTarget # NoCommit => evidenceTarget = target

\* The run ends, however the repository changes.
Terminates == <>(pc = "done")

=============================================================================
