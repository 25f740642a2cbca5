------------------------------ MODULE FileScan ------------------------------
(***************************************************************************)
(* A run over the file system, without a diff: the search for the          *)
(* configuration (src/config/mod.rs), discovery (src/discovery.rs,         *)
(* src/main.rs), and the bounded read of every migration found             *)
(* (src/file_io.rs), while other processes change the same files.          *)
(*                                                                         *)
(* The working directory is Depth levels below the root.  A configuration  *)
(* file or .git entry is looked at once, so what is found there is chosen  *)
(* when it is.                                                             *)
(***************************************************************************)
EXTENDS Naturals, Sequences

CONSTANTS
    Depth,          \* the level of the working directory, the root being 0
    FileConfigs,    \* contents of a configuration file: [exclude, select, ignore],
                    \* each {} when absent, else the set of the one value
    Clis,           \* command lines: [select, ignore], of the same form
    Rules,          \* the known rules
    Files,          \* paths of files
    Layout,         \* those in a directory of migrations
    ArgumentLists,  \* the paths of a command line: [explicit, files]
    Max,            \* MAX_FILE_SIZE
    NewTypes,       \* what other processes put in the place of a file
    MaxWrites       \* how often they write

ASSUME DepthAssumption == Depth \in Nat
ASSUME ArgumentsAssumption == ArgumentLists \subseteq Seq([explicit : BOOLEAN, files : SUBSET Files])
ASSUME MaxAssumption == Max \in Nat
ASSUME WritesAssumption == MaxWrites \in Nat

Types == {"regular", "link", "directory", "fifo", "absent"}
ASSUME NewTypesAssumption == NewTypes \subseteq Types
Gits == {"none", "trusted", "untrusted"}
Handle(f, version, type, size) == [file |-> f, version |-> version, type |-> type, size |-> size]
NoFile == Handle("none", 0, "absent", 0)
Default == [exclude |-> {}, select |-> {}, ignore |-> {}]

VARIABLES
    phase,      \* where the run is
    level,      \* the directory whose configuration or .git is next
    anchor,     \* the trusted repository boundary
    gits,       \* history: what was found of .git at each level, or "unseen"
    consulted,  \* history: the levels whose configuration was read
    chosen,     \* history: the level of the configuration that was found
    config,     \* Config
    arguments,  \* cli.paths still to be discovered
    pending,    \* entries of the directory that is walked
    queue,      \* migration_paths still to be read
    handle,     \* the open file: [file, version, type, size]
    failed,     \* has_parse_errors
    checked,    \* the files whose content the rules have judged: [file, type, whole]
    exit,       \* the exit code, or "running"
    disk,       \* the object at each path, with its version
    steady,     \* history: the files no other process has written
    scope,      \* history: the files the command line covers
    writes      \* how often other processes have written

search == <<level, anchor, gits, consulted, chosen>>
found == <<arguments, pending, queue>>
reads == <<handle, failed, checked, exit>>
world == <<disk, steady, writes>>
vars == <<phase, search, config, found, reads, world, scope>>

InScope(a) == IF a.explicit THEN a.files ELSE a.files \cap Layout

Init ==
    /\ phase = "start"
    /\ level = Depth
    /\ anchor = 0
    /\ gits = [l \in 0..Depth |-> "unseen"]
    /\ consulted = {} /\ chosen = {}
    /\ config = Default
    /\ arguments \in ArgumentLists
    /\ scope = UNION {InScope(arguments[i]) : i \in DOMAIN arguments}
    /\ pending = {} /\ queue = {}
    /\ handle = NoFile
    /\ failed = FALSE
    /\ checked = {}
    /\ exit = "running"
    /\ disk \in [Files -> {[type |-> t, size |-> s, version |-> 1] : t \in Types, s \in 0..Max + 1}]
    /\ \A f \in Files : disk[f].type # "regular" => disk[f].size = 0
    /\ steady = Files
    /\ writes = 0

Fail ==
    /\ phase' = "done"
    /\ exit' = "2"
    /\ UNCHANGED <<search, config, found, handle, failed, checked, world, scope>>

-----------------------------------------------------------------------------
(* Config::find_config.                                                    *)

Or(option, value) == IF option = {} THEN value ELSE CHOOSE v \in option : TRUE
\* Config::merge: what the file sets replaces what was there.
Merge(c, file) == [exclude |-> Or(file.exclude, c.exclude), select |-> Or(file.select, c.select),
                   ignore |-> Or(file.ignore, c.ignore)]

\* load_from_single_dir: pyproject.toml, then the standalone file over it.  A
\* pyproject.toml without [tool.zdm] is as good as none.
MergeAll(c, file) == IF file = {} THEN c ELSE Merge(c, CHOOSE f \in file : TRUE)
LoadFrom(py, standalone) == MergeAll(MergeAll(Default, py), standalone)
Found(py, standalone) == py \cup standalone # {}
ConfigFiles == {{}} \cup {{c} : c \in FileConfigs}

Continue(py, standalone, elsewhere, next) ==
    /\ consulted' = consulted \cup {level}
    /\ chosen' = IF Found(py, standalone) THEN {level} ELSE {}
    /\ config' = LoadFrom(py, standalone)
    /\ phase' = IF Found(py, standalone) THEN "options" ELSE elsewhere
    /\ level' = IF Found(py, standalone) THEN level ELSE next
    /\ UNCHANGED <<anchor, gits, found, reads, world, scope>>

LoadStart(py, standalone) ==
    /\ phase = "start"
    /\ Continue(py, standalone, "boundary", level)
\* A file that cannot be read or parsed, or has an invalid pattern.
LoadFails ==
    /\ phase \in {"start", "climb"}
    /\ Fail

\* The working directory itself is a repository root, or the search goes on.
CheckStart(git) ==
    /\ phase = "boundary"
    /\ gits' = [gits EXCEPT ![level] = git]
    /\ phase' = IF git # "none" \/ level = 0 THEN "options" ELSE "anchor"
    /\ level' = IF git # "none" \/ level = 0 THEN level ELSE level - 1
    /\ UNCHANGED <<anchor, consulted, chosen, config, found, reads, world, scope>>

\* Mutant: an untrusted repository is passed over for an outer one.
ProbeAnchorBeyond(git) ==
    /\ phase = "anchor"
    /\ gits' = [gits EXCEPT ![level] = git]
    /\ IF git = "trusted" THEN phase' = "climb" /\ anchor' = level /\ level' = Depth - 1
       ELSE IF level = 0 THEN phase' = "options" /\ UNCHANGED <<anchor, level>>
       ELSE level' = level - 1 /\ UNCHANGED <<phase, anchor>>
    /\ UNCHANGED <<consulted, chosen, config, found, reads, world, scope>>
\* Mutant: the walk goes on above the root.
ProbeAnchorOn(git) ==
    /\ phase = "anchor"
    /\ gits' = [gits EXCEPT ![level] = git]
    /\ phase' = IF git = "trusted" THEN "climb" ELSE IF git = "untrusted" THEN "options" ELSE "anchor"
    /\ anchor' = IF git = "trusted" THEN level ELSE anchor
    /\ level' = IF git = "trusted" THEN Depth - 1 ELSE IF git = "none" THEN level - 1 ELSE level
    /\ UNCHANGED <<consulted, chosen, config, found, reads, world, scope>>
\* trusted_git_anchor_strictly_above: the first .git is the boundary.
ProbeAnchor(git) ==
    /\ phase = "anchor"
    /\ gits' = [gits EXCEPT ![level] = git]
    /\ phase' = IF git = "trusted" THEN "climb" ELSE IF git = "untrusted" \/ level = 0 THEN "options" ELSE "anchor"
    /\ anchor' = IF git = "trusted" THEN level ELSE anchor
    /\ level' = IF git = "trusted" THEN Depth - 1 ELSE IF git = "none" /\ level > 0 THEN level - 1 ELSE level
    /\ UNCHANGED <<consulted, chosen, config, found, reads, world, scope>>

\* Mutant: the repository root is not searched.
ClimbShort(py, standalone) ==
    /\ phase = "climb"
    /\ IF level <= anchor + 1 THEN Continue(py, standalone, "options", level)
       ELSE Continue(py, standalone, "climb", level - 1)
Climb(py, standalone) ==
    /\ phase = "climb"
    /\ IF level = anchor THEN Continue(py, standalone, "options", level)
       ELSE Continue(py, standalone, "climb", level - 1)

\* apply_cli_overrides and validate_config_rule_ids.  The search is over.
Options(cli) ==
    LET ignore == config.ignore \cup Or(cli.ignore, {})
        select == Or(cli.select, config.select)
    IN /\ phase = "options"
       /\ IF ~(select \cup ignore \subseteq Rules) THEN Fail
          ELSE /\ config' = [exclude |-> config.exclude, select |-> select, ignore |-> ignore]
               /\ phase' = "discover"
               /\ level' = Depth /\ anchor' = 0 /\ consulted' = {} /\ chosen' = {}
               /\ gits' = [l \in 0..Depth |-> "unseen"]
               /\ UNCHANGED <<found, reads, world, scope>>

-----------------------------------------------------------------------------
(* discover_migrations, argument by argument.                              *)

IsRegular(f) == disk[f].type = "regular"

\* An explicit path: any regular .py file that is not excluded.  A directory
\* that has taken its place is walked, and holds no path of the command line.
DiscoverFile ==
    /\ phase = "discover" /\ arguments # <<>> /\ pending = {}
    /\ Head(arguments).explicit
    /\ LET named == Head(arguments).files
       IN IF \E f \in named : disk[f].type \notin {"regular", "directory"} THEN Fail
          ELSE /\ queue' = queue \cup ({f \in named : IsRegular(f)} \ config.exclude)
               /\ arguments' = Tail(arguments)
               /\ UNCHANGED <<phase, search, config, pending, reads, world, scope>>

\* A directory that went away, or any error of the walk, ends the run.
OpenDirectory ==
    /\ phase = "discover" /\ arguments # <<>> /\ pending = {}
    /\ ~Head(arguments).explicit
    /\ \/ Fail
       \/ /\ pending' = Head(arguments).files
          /\ arguments' = Tail(arguments)
          /\ UNCHANGED <<phase, search, config, queue, reads, world, scope>>

\* An entry that is there when its turn comes: links are not followed.
VisitEntry(f) ==
    /\ phase = "discover" /\ f \in pending
    /\ pending' = pending \ {f}
    /\ queue' = IF IsRegular(f) /\ f \in Layout \ config.exclude THEN queue \cup {f} ELSE queue
    /\ UNCHANGED <<phase, search, config, arguments, reads, world, scope>>

StartReading ==
    /\ phase = "discover" /\ arguments = <<>> /\ pending = {}
    /\ phase' = "next"
    /\ UNCHANGED <<search, config, found, reads, world, scope>>

-----------------------------------------------------------------------------
(* read_bounded_regular_file and parse_and_check_file, path by path.       *)

Step(next, error) ==
    /\ phase' = next
    /\ failed' = (failed \/ error)
    /\ UNCHANGED <<search, config, arguments, pending, exit, world, scope>>

\* Mutant: a path is tried until there is a file.
InspectAgain(f) ==
    /\ phase = "next" /\ f \in queue
    /\ queue' = IF IsRegular(f) THEN queue \ {f} ELSE queue
    /\ IF IsRegular(f) THEN handle' = Handle(f, 0, "absent", 0) /\ Step("open", FALSE)
                       ELSE handle' = NoFile /\ Step("next", FALSE)
    /\ UNCHANGED checked
\* symlink_metadata of the path.
Inspect(f) ==
    /\ phase = "next" /\ f \in queue
    /\ queue' = queue \ {f}
    /\ IF IsRegular(f) THEN handle' = Handle(f, 0, "absent", 0) /\ Step("open", FALSE)
                       ELSE handle' = NoFile /\ Step("next", TRUE)
    /\ UNCHANGED checked

\* O_NOFOLLOW refuses a link; a pipe keeps the run waiting for a writer.
Open ==
    LET f == handle.file
    IN /\ phase = "open" /\ disk[f].type # "fifo"
       /\ IF disk[f].type \in {"absent", "link"}
          THEN handle' = NoFile /\ Step("next", TRUE)
          ELSE handle' = Handle(f, disk[f].version, disk[f].type, disk[f].size)
               /\ Step("metadata", FALSE)
       /\ UNCHANGED <<queue, checked>>

\* The metadata of the handle: no longer those of the path.
Metadata ==
    /\ phase = "metadata"
    /\ IF handle.type # "regular" \/ handle.size > Max
       THEN handle' = NoFile /\ Step("next", TRUE)
       ELSE Step("read", FALSE) /\ UNCHANGED handle
    /\ UNCHANGED <<queue, checked>>

\* Mutant: what exceeds the limit is cut off and judged.
ReadTruncated ==
    /\ phase = "read"
    /\ handle' = NoFile
    /\ checked' = checked \cup {[file |-> handle.file, type |-> handle.type, whole |-> handle.size <= Max]}
    /\ Step("next", FALSE)
    /\ UNCHANGED queue
\* Mutant: a file that does not parse is passed over.
ReadLeniently ==
    /\ phase = "read"
    /\ handle' = NoFile
    /\ \/ /\ handle.size <= Max
          /\ checked' = checked \cup {[file |-> handle.file, type |-> handle.type, whole |-> handle.size <= Max]}
       \/ UNCHANGED checked
    /\ Step("next", FALSE)
    /\ UNCHANGED queue
\* Up to Max + 1 bytes: a file that has grown past the limit is an error, and
\* so is one that is not UTF-8 or does not parse.
Read ==
    /\ phase = "read"
    /\ handle' = NoFile
    /\ \/ /\ handle.size <= Max
          /\ checked' = checked \cup {[file |-> handle.file, type |-> handle.type, whole |-> handle.size <= Max]}
          /\ Step("next", FALSE)
       \/ Step("next", TRUE) /\ UNCHANGED checked
    /\ UNCHANGED queue

\* The exit code: 2 after an error, else 1 if a rule reported an error.
Finish ==
    /\ phase = "next" /\ queue = {}
    /\ phase' = "done"
    /\ exit' \in IF failed THEN {"2"} ELSE IF checked = {} THEN {"0"} ELSE {"0", "1"}
    /\ UNCHANGED <<search, config, found, handle, failed, checked, world, scope>>

-----------------------------------------------------------------------------
(* Other processes.  An open file is still written to through its path     *)
(* until another object takes its place there.                             *)

Write(f) ==
    /\ writes < MaxWrites
    /\ writes' = writes + 1
    /\ steady' = steady \ {f}
    /\ UNCHANGED <<phase, search, config, found, failed, checked, exit, scope>>
Replace(f, type, size) ==
    /\ type # "regular" => size = 0
    /\ Write(f)
    /\ disk' = [disk EXCEPT ![f] = [type |-> type, size |-> size, version |-> disk[f].version + 1]]
    /\ UNCHANGED handle
Append1(f) ==
    /\ IsRegular(f) /\ disk[f].size <= Max
    /\ Write(f)
    /\ disk' = [disk EXCEPT ![f].size = disk[f].size + 1]
    /\ handle' = IF handle.file = f /\ handle.version = disk[f].version
                 THEN [handle EXCEPT !.size = disk[f].size + 1] ELSE handle

-----------------------------------------------------------------------------
Search ==
    \/ \E py, standalone \in ConfigFiles : LoadStart(py, standalone) \/ Climb(py, standalone)
    \/ LoadFails
    \/ \E git \in Gits : CheckStart(git) \/ ProbeAnchor(git)
    \/ \E cli \in Clis : Options(cli)
Discover ==
    \/ DiscoverFile
    \/ OpenDirectory
    \/ \E f \in Files : VisitEntry(f)
    \/ StartReading
Judge ==
    \/ \E f \in Files : Inspect(f)
    \/ Open
    \/ Metadata
    \/ Read
    \/ Finish
Run == Search \/ Discover \/ Judge
Others ==
    \E f \in Files :
        \/ \E type \in NewTypes, size \in 0..Max + 1 : Replace(f, type, size)
        \/ Append1(f)

Next == Run \/ Others

Spec == Init /\ [][Next]_vars /\ WF_vars(Run)

-----------------------------------------------------------------------------
(* Properties.                                                             *)

Phases == {"start", "boundary", "anchor", "climb", "options", "discover", "next", "open", "metadata", "read", "done"}
TypeOK ==
    /\ phase \in Phases
    /\ level \in 0..Depth /\ anchor \in 0..Depth
    /\ gits \in [0..Depth -> Gits \cup {"unseen"}]
    /\ consulted \subseteq 0..Depth /\ chosen \subseteq consulted
    /\ failed \in BOOLEAN
    /\ arguments \in Seq([explicit : BOOLEAN, files : SUBSET Files])
    /\ queue \subseteq Files /\ pending \subseteq Files /\ steady \subseteq Files
    /\ handle \in [file : Files \cup {"none"}, version : Nat, type : Types, size : Nat]
    /\ disk \in [Files -> [type : Types, size : Nat, version : Nat]]
    /\ exit \in {"running", "0", "1", "2"}
    /\ phase = "done" <=> exit # "running"

InRepository(l) ==
    \E b \in 0..l : gits[b] = "trusted" /\ \A m \in b + 1..Depth : gits[m] = "none"

(***************************************************************************)
(* README:333: "The nearest .git is always the boundary; an untrusted      *)
(* boundary never falls through to an outer repository": a configuration   *)
(* is read in the working directory, or at a level above it at or below    *)
(* the first .git, which is trusted.                                       *)
(***************************************************************************)
ConfigInBounds == \A l \in consulted : l = Depth \/ InRepository(l)

(***************************************************************************)
(* README:333: the search "stops at the first directory that contains" a   *)
(* configuration: when it is over, every level that may be searched was,   *)
(* down from the working directory, unless a configuration was found below *)
(* it, and nothing above the one found was read.                           *)
(***************************************************************************)
NearestConfig ==
    /\ \A c \in chosen, l \in consulted : c <= l
    /\ phase = "options" =>
          \A l \in 0..Depth : l = Depth \/ InRepository(l) => l \in consulted \/ \E c \in chosen : c > l

(***************************************************************************)
(* An exit code of 0 or 1 is a verdict: every file the command line        *)
(* covers that is a regular file and that no other process wrote meanwhile *)
(* was read and judged, unless the configuration excludes it.              *)
(***************************************************************************)
QuietMeansChecked ==
    exit \in {"0", "1"} =>
        \A f \in (scope \cap steady) \ config.exclude : IsRegular(f) => \E c \in checked : c.file = f

(***************************************************************************)
(* file_io.rs:20: "avoiding check/open races": whatever takes the place of *)
(* a file or is appended to it between discovery, inspection, opening and  *)
(* reading, only regular files are judged, and never part of one.          *)
(***************************************************************************)
ReadSound == \A c \in checked : c.type = "regular" /\ c.whole

\* The run ends, although other processes keep writing, as long as they do not
\* put a pipe in the place of a file that was inspected.
Terminates == <>(phase = "done")
=============================================================================
