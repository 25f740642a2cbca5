--------------------------- MODULE FileScanProofs ---------------------------
(***************************************************************************)
(* For every depth of the working directory, whatever is found on the way: *)
(* the configuration is the nearest one within bounds.  And for every      *)
(* command line, size limit and interleaving with other processes: only    *)
(* whole regular files are judged, and a verdict means that every file in  *)
(* scope that nobody wrote was judged.                                     *)
(***************************************************************************)
EXTENDS FileScan, TLAPS

\* Where the search is, and what it has seen so far.
Searched ==
    /\ phase \in {"start", "boundary"} => level = Depth /\ \A l \in 0..Depth : gits[l] = "unseen"
    /\ phase \in {"start", "boundary", "anchor", "climb"} => chosen = {}
    /\ phase = "start" => consulted = {}
    /\ phase \in {"boundary", "anchor"} => consulted = {Depth}
    /\ phase = "anchor" =>
          /\ level < Depth
          /\ \A l \in 0..Depth : gits[l] = IF l > level THEN "none" ELSE "unseen"
    /\ phase = "climb" =>
          /\ anchor <= level /\ level < Depth
          /\ gits[anchor] = "trusted" /\ \A l \in anchor + 1..Depth : gits[l] = "none"
          /\ consulted = level + 1..Depth

\* The file that is open is one of the command line's, and a regular one when
\* it is read.
Holding ==
    /\ phase \in {"open", "metadata", "read"} => handle.file \in Files
    /\ phase = "read" => handle.type = "regular"

Inv == TypeOK /\ Searched /\ Holding

\* Where the run will still come across a file of the command line.
Ahead(f) == \E i \in DOMAIN arguments : f \in InScope(arguments[i])
Judged(f) == \E c \in checked : c.file = f
Wanted == {f \in (scope \cap steady) \ config.exclude : IsRegular(f)}
Covered ==
    /\ phase \in {"start", "boundary", "anchor", "climb", "options"} => \A f \in scope : Ahead(f)
    /\ phase = "discover" => \A f \in Wanted : Ahead(f) \/ f \in pending \cap Layout \/ f \in queue
    /\ phase = "next" => failed \/ \A f \in Wanted : f \in queue \/ Judged(f)
    /\ phase \in {"open", "metadata", "read"} =>
          failed \/ \A f \in Wanted : f \in queue \/ f = handle.file \/ Judged(f)
    /\ QuietMeansChecked

-----------------------------------------------------------------------------
(* Types.                                                                  *)

LEMMA InitTypes == Init => TypeOK
<1> SUFFICES ASSUME Init PROVE TypeOK
  OBVIOUS
<1> USE DepthAssumption, MaxAssumption
<1>1. arguments \in Seq([explicit : BOOLEAN, files : SUBSET Files])
  <2>1. arguments \in ArgumentLists
    BY DEF Init
  <2> QED BY <2>1, ArgumentsAssumption
<1>2. handle \in [file : Files \cup {"none"}, version : Nat, type : Types, size : Nat]
  <2>1. handle = NoFile
    BY DEF Init
  <2> QED BY <2>1 DEF NoFile, Handle, Types
<1>3. disk \in [Files -> [type : Types, size : Nat, version : Nat]]
  <2>1. disk \in [Files -> {[type |-> t, size |-> s, version |-> 1] : t \in Types, s \in 0..Max + 1}]
    BY DEF Init
  <2>2. ASSUME NEW f \in Files
        PROVE disk[f] \in [type : Types, size : Nat, version : Nat]
    <3>1. PICK t \in Types, s \in 0..Max + 1 : disk[f] = [type |-> t, size |-> s, version |-> 1]
      BY <2>1
    <3>2. t \in Types /\ s \in Nat
      OBVIOUS
    <3> QED BY <3>1, <3>2
  <2>3. DOMAIN disk = Files /\ disk = [f \in DOMAIN disk |-> disk[f]]
    BY <2>1
  <2> QED BY <2>2, <2>3
<1>4. gits \in [0..Depth -> Gits \cup {"unseen"}] /\ level \in 0..Depth /\ anchor \in 0..Depth
  BY DEF Init
<1>5. phase = "start" /\ exit = "running" /\ failed = FALSE /\ consulted = {} /\ chosen = {}
      /\ queue = {} /\ pending = {} /\ steady = Files
  BY DEF Init
<1> QED BY <1>1, <1>2, <1>3, <1>4, <1>5 DEF TypeOK, Phases

LEMMA FailTypes ==
    ASSUME TypeOK, Fail
    PROVE TypeOK'
BY DEF TypeOK, Fail, Phases, search, found, world

LEMMA ContinueTypes ==
    ASSUME TypeOK, NEW py, NEW standalone, NEW elsewhere \in {"boundary", "options", "climb"}, NEW next \in 0..Depth,
           Continue(py, standalone, elsewhere, next), phase # "done"
    PROVE TypeOK'
<1> USE DEF TypeOK, Continue, Phases, found, reads, world
<1>1. consulted' \subseteq 0..Depth /\ chosen' \subseteq consulted'
  BY DEF Found
<1>2. phase' \in Phases \ {"done"} /\ level' \in 0..Depth
  OBVIOUS
<1>3. arguments' = arguments /\ queue' = queue /\ pending' = pending /\ steady' = steady /\ handle' = handle
      /\ disk' = disk /\ exit' = exit /\ failed' = failed /\ gits' = gits /\ anchor' = anchor
  OBVIOUS
<1> QED BY <1>1, <1>2, <1>3

LEMMA SearchTypes ==
    ASSUME TypeOK, Searched, Search
    PROVE TypeOK'
<1> USE DepthAssumption
<1>1. ASSUME NEW py \in ConfigFiles, NEW standalone \in ConfigFiles, LoadStart(py, standalone)
      PROVE TypeOK'
  <2>1. level \in 0..Depth /\ phase # "done"
    BY <1>1 DEF TypeOK, LoadStart
  <2> QED BY <1>1, <2>1, ContinueTypes DEF LoadStart
<1>2. ASSUME NEW py \in ConfigFiles, NEW standalone \in ConfigFiles, Climb(py, standalone)
      PROVE TypeOK'
  <2>1. phase = "climb" /\ phase # "done" /\ level \in 0..Depth /\ anchor \in 0..Depth
    BY <1>2 DEF TypeOK, Climb
  <2>2. CASE level = anchor
    BY <1>2, <2>1, <2>2, ContinueTypes DEF Climb
  <2>3. CASE level # anchor
    <3>1. level - 1 \in 0..Depth
      BY <2>1, <2>3 DEF Searched
    <3> QED BY <1>2, <2>1, <2>3, <3>1, ContinueTypes DEF Climb
  <2> QED BY <2>2, <2>3
<1>3. CASE LoadFails
  BY <1>3, FailTypes DEF LoadFails
<1>4. ASSUME NEW git \in Gits, CheckStart(git)
      PROVE TypeOK'
  <2> USE <1>4 DEF TypeOK, CheckStart, found, reads, world
  <2>1. phase' \in Phases \ {"done"} /\ level' \in 0..Depth
    BY DEF Phases
  <2>2. gits' \in [0..Depth -> Gits \cup {"unseen"}]
    OBVIOUS
  <2> QED BY <2>1, <2>2
<1>5. ASSUME NEW git \in Gits, ProbeAnchor(git)
      PROVE TypeOK'
  <2> USE <1>5 DEF TypeOK, ProbeAnchor, found, reads, world
  <2>1. phase' \in Phases \ {"done"} /\ anchor' \in 0..Depth
    BY DEF Phases
  <2>2. gits' \in [0..Depth -> Gits \cup {"unseen"}]
    OBVIOUS
  <2>3. level' \in 0..Depth
    BY DEF Searched
  <2> QED BY <2>1, <2>2, <2>3
<1>6. ASSUME NEW cli \in Clis, Options(cli)
      PROVE TypeOK'
  <2>1. CASE Fail
    BY <2>1, FailTypes
  <2>2. CASE ~Fail
    <3> USE <1>6, <2>2 DEF TypeOK, Options, found, reads, world
    <3>1. phase' = "discover" /\ level' = Depth /\ anchor' = 0 /\ consulted' = {} /\ chosen' = {}
          /\ gits' = [l \in 0..Depth |-> "unseen"]
      OBVIOUS
    <3>2. gits' \in [0..Depth -> Gits \cup {"unseen"}]
      BY <3>1
    <3> QED BY <3>1, <3>2 DEF Phases
  <2> QED BY <2>1, <2>2
<1> QED BY <1>1, <1>2, <1>3, <1>4, <1>5, <1>6 DEF Search

-----------------------------------------------------------------------------
LEMMA HeadTypes ==
    ASSUME NEW S, NEW s \in Seq(S), s # <<>>
    PROVE Head(s) \in S
OBVIOUS

LEMMA DiscoverTypes ==
    ASSUME TypeOK, Discover
    PROVE TypeOK'
<1>1. CASE Fail
  BY <1>1, FailTypes
<1>2. CASE ~Fail
  <2>0. phase = "discover" /\ phase' \in {"discover", "next"} /\ exit' = exit
    BY <1>2 DEF Discover, DiscoverFile, OpenDirectory, VisitEntry, StartReading, reads
  <2>1. arguments' \in Seq([explicit : BOOLEAN, files : SUBSET Files]) /\ pending' \subseteq Files
    <3>1. arguments # <<>> =>
             /\ Tail(arguments) \in Seq([explicit : BOOLEAN, files : SUBSET Files])
             /\ Head(arguments).files \subseteq Files
      <4>1. arguments # <<>> => Head(arguments) \in [explicit : BOOLEAN, files : SUBSET Files]
        BY HeadTypes DEF TypeOK
      <4> QED BY <4>1 DEF TypeOK
    <3> QED BY <1>2, <3>1 DEF TypeOK, Discover, DiscoverFile, OpenDirectory, VisitEntry, StartReading, found
  <2>2. queue' \subseteq Files
    <3>1. arguments # <<>> => Head(arguments).files \subseteq Files
      <4>1. arguments # <<>> => Head(arguments) \in [explicit : BOOLEAN, files : SUBSET Files]
        BY HeadTypes DEF TypeOK
      <4> QED BY <4>1
    <3> QED BY <1>2, <3>1 DEF TypeOK, Discover, DiscoverFile, OpenDirectory, VisitEntry, StartReading, found
  <2>3. UNCHANGED <<search, reads, world>>
    BY <1>2 DEF Discover, DiscoverFile, OpenDirectory, VisitEntry, StartReading
  <2> QED BY <2>0, <2>1, <2>2, <2>3 DEF TypeOK, Phases, search, reads, world
<1> QED BY <1>1, <1>2

LEMMA JudgeTypes ==
    ASSUME TypeOK, Holding, Judge
    PROVE TypeOK'
<1>1. ASSUME NEW f \in Files, Inspect(f)
      PROVE TypeOK'
  <2>1. phase' \in Phases \ {"done"} /\ phase # "done" /\ failed' \in BOOLEAN
    BY <1>1 DEF Inspect, Step, TypeOK, Phases
  <2>2. handle' \in [file : Files \cup {"none"}, version : Nat, type : Types, size : Nat]
    <3>1. handle' = NoFile \/ handle' = Handle(f, 0, "absent", 0)
      BY <1>1 DEF Inspect
    <3> QED BY <1>1, <3>1 DEF NoFile, Handle, Types, TypeOK
  <2>3. UNCHANGED <<search, arguments, pending, exit, world>> /\ queue' \subseteq queue
    BY <1>1 DEF Inspect, Step
  <2> QED BY <2>1, <2>2, <2>3 DEF TypeOK, search, world
<1>2. CASE Open
  <2>1. phase' \in Phases \ {"done"} /\ phase # "done" /\ failed' \in BOOLEAN
    BY <1>2 DEF Open, Step, TypeOK, Phases
  <2>2. handle' \in [file : Files \cup {"none"}, version : Nat, type : Types, size : Nat]
    <3>1. handle' = NoFile \/ (phase = "open" /\ handle' = Handle(handle.file, disk[handle.file].version, disk[handle.file].type, disk[handle.file].size))
      BY <1>2 DEF Open
    <3>2. CASE handle' = NoFile
      BY <3>2 DEF NoFile, Handle, Types
    <3>3. CASE phase = "open" /\ handle' = Handle(handle.file, disk[handle.file].version, disk[handle.file].type, disk[handle.file].size)
      <4>1. handle.file \in Files
        BY <3>3 DEF Holding
      <4>2. disk[handle.file] \in [type : Types, size : Nat, version : Nat]
        BY <4>1 DEF TypeOK
      <4> QED BY <3>3, <4>1, <4>2 DEF Handle
    <3> QED BY <3>1, <3>2, <3>3
  <2>3. UNCHANGED <<search, arguments, pending, exit, world>> /\ queue' \subseteq queue
    BY <1>2 DEF Open, Step
  <2> QED BY <2>1, <2>2, <2>3 DEF TypeOK, search, world
<1>3. CASE Metadata
  <2>1. phase' \in Phases \ {"done"} /\ phase # "done" /\ failed' \in BOOLEAN
    BY <1>3 DEF Metadata, Step, TypeOK, Phases
  <2>2. handle' \in [file : Files \cup {"none"}, version : Nat, type : Types, size : Nat]
    <3>1. handle' = NoFile \/ handle' = handle
      BY <1>3 DEF Metadata
    <3> QED BY <3>1 DEF NoFile, Handle, Types, TypeOK
  <2>3. UNCHANGED <<search, arguments, pending, exit, world>> /\ queue' \subseteq queue
    BY <1>3 DEF Metadata, Step
  <2> QED BY <2>1, <2>2, <2>3 DEF TypeOK, search, world
<1>4. CASE Read
  <2>1. phase' \in Phases \ {"done"} /\ phase # "done" /\ failed' \in BOOLEAN
    BY <1>4 DEF Read, Step, TypeOK, Phases
  <2>2. handle' \in [file : Files \cup {"none"}, version : Nat, type : Types, size : Nat]
    BY <1>4 DEF Read, TypeOK, Handle, NoFile, Types
  <2>3. UNCHANGED <<search, arguments, pending, exit, world>> /\ queue' \subseteq queue
    BY <1>4 DEF Read, Step
  <2> QED BY <2>1, <2>2, <2>3 DEF TypeOK, search, world
<1>5. CASE Finish
  BY <1>5 DEF TypeOK, Finish, found, search, world, Phases
<1> QED BY <1>1, <1>2, <1>3, <1>4, <1>5 DEF Judge

LEMMA OthersTypes ==
    ASSUME TypeOK, Others
    PROVE TypeOK'
<1> USE DEF TypeOK, Write, search, found
<1>1. ASSUME NEW f \in Files, NEW type \in NewTypes, NEW size \in 0..Max + 1, Replace(f, type, size)
      PROVE TypeOK'
  <2>1. [type |-> type, size |-> size, version |-> disk[f].version + 1] \in [type : Types, size : Nat, version : Nat]
    BY NewTypesAssumption, MaxAssumption
  <2>2. disk' \in [Files -> [type : Types, size : Nat, version : Nat]]
    BY <1>1, <2>1 DEF Replace
  <2> QED BY <1>1, <2>2 DEF Replace
<1>2. ASSUME NEW f \in Files, Append1(f)
      PROVE TypeOK'
  <2>1. disk[f].size + 1 \in Nat
    OBVIOUS
  <2>2. disk' \in [Files -> [type : Types, size : Nat, version : Nat]]
    BY <1>2, <2>1 DEF Append1
  <2>3. handle' \in [file : Files \cup {"none"}, version : Nat, type : Types, size : Nat]
    BY <1>2, <2>1 DEF Append1
  <2> QED BY <1>2, <2>2, <2>3 DEF Append1
<1> QED BY <1>1, <1>2 DEF Others

-----------------------------------------------------------------------------
(* The search.                                                             *)

\* Once the search is over, or when other processes write, its history stays.
LEMMA SearchStays ==
    ASSUME Searched, \/ UNCHANGED <<phase, search>>
                     \/ phase' \notin {"start", "boundary", "anchor", "climb"}
    PROVE Searched'
BY DEF Searched, search

LEMMA SearchStep ==
    ASSUME TypeOK, Searched, Search
    PROVE Searched'
<1> USE DepthAssumption
<1>1. ASSUME NEW py \in ConfigFiles, NEW standalone \in ConfigFiles, LoadStart(py, standalone)
      PROVE Searched'
  <2>1. phase' \in {"options", "boundary"} /\ level' = level /\ gits' = gits
        /\ consulted' = consulted \cup {level} /\ (phase' = "boundary" => chosen' = {})
    BY <1>1 DEF LoadStart, Continue
  <2> QED BY <1>1, <2>1 DEF Searched, LoadStart
<1>2. ASSUME NEW py \in ConfigFiles, NEW standalone \in ConfigFiles, Climb(py, standalone)
      PROVE Searched'
  <2>1. CASE phase' = "climb"
    <3>1. phase = "climb" /\ level # anchor /\ level' = level - 1 /\ consulted' = consulted \cup {level}
          /\ chosen' = {} /\ gits' = gits /\ anchor' = anchor
      BY <1>2, <2>1 DEF Climb, Continue
    <3>2. level \in 0..Depth /\ anchor \in 0..Depth /\ anchor <= level /\ level < Depth /\ consulted = level + 1..Depth
      BY <3>1 DEF Searched, TypeOK
    <3>3. consulted' = level' + 1..Depth
      BY <3>1, <3>2
    <3> QED BY <2>1, <3>1, <3>2, <3>3 DEF Searched
  <2>2. CASE phase' # "climb"
    BY <1>2, <2>2, SearchStays DEF Climb, Continue
  <2> QED BY <2>1, <2>2
<1>3. CASE LoadFails
  BY <1>3, SearchStays DEF LoadFails, Fail
<1>4. ASSUME NEW git \in Gits, CheckStart(git)
      PROVE Searched'
  BY <1>4 DEF Searched, TypeOK, CheckStart, Gits
<1>5. ASSUME NEW git \in Gits, ProbeAnchor(git)
      PROVE Searched'
  <2> USE <1>5 DEF ProbeAnchor
  <2>1. /\ level \in 0..Depth /\ level < Depth /\ consulted = {Depth} /\ chosen = {}
        /\ \A l \in 0..Depth : gits[l] = IF l > level THEN "none" ELSE "unseen"
    BY DEF Searched, TypeOK
  <2>2. /\ gits'[level] = git
        /\ \A l \in 0..Depth : l # level => gits'[l] = gits[l]
    BY <2>1 DEF TypeOK
  <2>3. CASE phase' = "climb"
    <3>1. anchor' = level /\ level' = Depth - 1 /\ git = "trusted" /\ consulted' = {Depth} /\ chosen' = {}
      BY <2>1, <2>3
    <3>2. consulted' = level' + 1..Depth
      BY <3>1
    <3> QED BY <2>1, <2>2, <2>3, <3>1, <3>2 DEF Searched
  <2>4. CASE phase' = "anchor"
    <3>1. level' = level - 1 /\ git = "none" /\ level > 0 /\ consulted' = {Depth} /\ chosen' = {}
      BY <2>1, <2>4 DEF Gits
    <3> QED BY <2>1, <2>2, <2>4, <3>1 DEF Searched
  <2>5. CASE phase' = "options"
    BY <2>5, SearchStays
  <2> QED BY <2>3, <2>4, <2>5
<1>6. ASSUME NEW cli \in Clis, Options(cli)
      PROVE Searched'
  BY <1>6, SearchStays DEF Options, Fail
<1> QED BY <1>1, <1>2, <1>3, <1>4, <1>5, <1>6 DEF Search

LEMMA HoldingStep ==
    ASSUME TypeOK, Holding, [Next]_vars
    PROVE Holding'
<1>1. CASE Search
  <2>1. phase' \notin {"open", "metadata", "read"}
    BY <1>1 DEF Search, LoadStart, Climb, Continue, LoadFails, Fail, CheckStart, ProbeAnchor, Options
  <2> QED BY <2>1 DEF Holding
<1>2. CASE Discover
  <2>1. phase' \notin {"open", "metadata", "read"}
    BY <1>2 DEF Discover, DiscoverFile, OpenDirectory, VisitEntry, StartReading, Fail
  <2> QED BY <2>1 DEF Holding
<1>3. CASE Judge
  <2>1. ASSUME NEW f \in Files, Inspect(f)
        PROVE Holding'
    BY <2>1 DEF Holding, Inspect, Step, Handle
  <2>2. CASE Open
    BY <2>2 DEF Holding, Open, Step, Handle
  <2>3. CASE Metadata
    BY <2>3 DEF Holding, Metadata, Step
  <2>4. CASE Read \/ Finish
    BY <2>4 DEF Holding, Read, Finish, Step
  <2> QED BY <1>3, <2>1, <2>2, <2>3, <2>4 DEF Judge
<1>4. CASE Others
  <2>1. phase' = phase /\ handle'.file = handle.file /\ handle'.type = handle.type
    BY <1>4 DEF TypeOK, Others, Replace, Append1, Write
  <2> QED BY <2>1 DEF Holding
<1>5. CASE UNCHANGED vars
  BY <1>5 DEF Holding, vars, reads
<1> QED BY <1>1, <1>2, <1>3, <1>4, <1>5 DEF Next, Run

LEMMA NotSearching ==
    ASSUME \/ Discover
           \/ Judge
           \/ Others
           \/ UNCHANGED vars
    PROVE UNCHANGED search /\ (phase' = phase \/ phase' \in {"discover", "next", "open", "metadata", "read", "done"})
<1>1. CASE Discover
  BY <1>1 DEF Discover, DiscoverFile, OpenDirectory, VisitEntry, StartReading, Fail
<1>2. CASE Judge
  BY <1>2 DEF Judge, Inspect, Open, Metadata, Read, Finish, Step
<1>3. CASE Others
  BY <1>3 DEF Others, Replace, Append1, Write
<1>4. CASE UNCHANGED vars
  BY <1>4 DEF vars
<1> QED BY <1>1, <1>2, <1>3, <1>4

LEMMA InvHolds == Spec => []Inv
<1>1. Init => Inv
  <2> SUFFICES ASSUME Init PROVE Inv
    OBVIOUS
  <2>1. Searched
    BY DepthAssumption DEF Init, Searched
  <2>2. Holding
    BY DEF Init, Holding
  <2> QED BY <2>1, <2>2, InitTypes DEF Inv
<1>2. Inv /\ [Next]_vars => Inv'
  <2> SUFFICES ASSUME Inv, [Next]_vars PROVE Inv'
    OBVIOUS
  <2> USE DEF Inv
  <2>1. Holding'
    BY HoldingStep
  <2>2. TypeOK'
    <3>1. CASE UNCHANGED vars
      BY <3>1 DEF TypeOK, vars, search, found, reads, world
    <3> QED BY <3>1, SearchTypes, DiscoverTypes, JudgeTypes, OthersTypes DEF Next, Run
  <2>3. Searched'
    <3>1. CASE Search
      BY <3>1, SearchStep
    <3>2. CASE ~Search
      <4>1. UNCHANGED search /\ (phase' = phase \/ phase' \in {"discover", "next", "open", "metadata", "read", "done"})
        BY <3>2, NotSearching DEF Next, Run
      <4> QED BY <4>1, SearchStays
    <3> QED BY <3>1, <3>2
  <2> QED BY <2>1, <2>2, <2>3
<1> QED BY <1>1, <1>2, PTL DEF Spec

\* The types of a run, whatever other processes do.
THEOREM TypeCorrect == Spec => []TypeOK
BY InvHolds, PTL DEF Inv

(***************************************************************************)
(* Only regular files are judged, and never part of one (file_io.rs:20),   *)
(* whatever takes a file's place or is written to it.                      *)
(***************************************************************************)
THEOREM OnlyWholeFilesJudged == Spec => []ReadSound
<1>1. Init => ReadSound
  BY DEF Init, ReadSound
<1>2. Inv /\ ReadSound /\ [Next]_vars => ReadSound'
  <2> SUFFICES ASSUME Inv, ReadSound, [Next]_vars PROVE ReadSound'
    OBVIOUS
  <2>1. CASE Read
    <3>1. CASE checked' = checked
      BY <3>1 DEF ReadSound
    <3>2. CASE checked' # checked
      <4>1. /\ handle.size <= Max
            /\ checked' = checked \cup {[file |-> handle.file, type |-> handle.type, whole |-> handle.size <= Max]}
        BY <2>1, <3>2 DEF Read
      <4>2. handle.type = "regular"
        BY <2>1 DEF Inv, Holding, Read
      <4>3. ASSUME NEW c \in checked'
            PROVE c.type = "regular" /\ c.whole
        <5>1. CASE c \in checked
          BY <5>1 DEF ReadSound
        <5>2. CASE c = [file |-> handle.file, type |-> handle.type, whole |-> handle.size <= Max]
          <6>1. c.whole = (handle.size <= Max)
            BY <5>2, Zenon
          <6> QED BY <4>1, <4>2, <5>2, <6>1
        <5> QED BY <4>1, <4>3, <5>1, <5>2
      <4> QED BY <4>3 DEF ReadSound
    <3> QED BY <3>1, <3>2
  <2>2. CASE ~Read
    <3>1. checked' = checked
      <4>1. CASE Search
        BY <4>1 DEF Search, LoadStart, Climb, Continue, LoadFails, Fail, CheckStart, ProbeAnchor, Options, reads
      <4>2. CASE Discover
        BY <4>2 DEF Discover, DiscoverFile, OpenDirectory, VisitEntry, StartReading, Fail, reads
      <4>3. CASE Judge
        BY <2>2, <4>3 DEF Judge, Inspect, Open, Metadata, Finish
      <4>4. CASE Others
        BY <4>4 DEF Others, Replace, Append1, Write
      <4>5. CASE UNCHANGED vars
        BY <4>5 DEF vars, reads
      <4> QED BY <4>1, <4>2, <4>3, <4>4, <4>5 DEF Next, Run
    <3> QED BY <3>1 DEF ReadSound
  <2> QED BY <2>1, <2>2
<1> QED BY <1>1, <1>2, InvHolds, PTL DEF Spec

-----------------------------------------------------------------------------
(* The configuration.                                                      *)

LEMMA ConfigStays ==
    ASSUME ConfigInBounds, NearestConfig, UNCHANGED search, phase' # "options" \/ phase' = phase
    PROVE ConfigInBounds' /\ NearestConfig'
<1>1. gits' = gits /\ consulted' = consulted /\ chosen' = chosen
  BY DEF search
<1>2. \A l \in Nat : InRepository(l)' = InRepository(l)
  BY <1>1 DEF InRepository
<1> QED BY <1>1 DEF ConfigInBounds, NearestConfig, InRepository

LEMMA ConfigStep ==
    ASSUME TypeOK, Searched, ConfigInBounds, NearestConfig, Search
    PROVE ConfigInBounds' /\ NearestConfig'
<1> USE DepthAssumption
<1>1. ASSUME NEW py \in ConfigFiles, NEW standalone \in ConfigFiles, LoadStart(py, standalone)
      PROVE ConfigInBounds' /\ NearestConfig'
  <2>1. consulted' = {Depth} /\ chosen' \subseteq {Depth} /\ gits' = gits /\ \A l \in 0..Depth : gits[l] = "unseen"
    BY <1>1 DEF LoadStart, Continue, Searched
  <2>2. \A l \in 0..Depth : ~InRepository(l)'
    BY <2>1 DEF InRepository
  <2> QED BY <2>1, <2>2 DEF ConfigInBounds, NearestConfig
<1>2. ASSUME NEW py \in ConfigFiles, NEW standalone \in ConfigFiles, Climb(py, standalone)
      PROVE ConfigInBounds' /\ NearestConfig'
  <2>1. /\ level \in 0..Depth /\ anchor \in 0..Depth /\ anchor <= level /\ level < Depth
        /\ gits[anchor] = "trusted" /\ \A l \in anchor + 1..Depth : gits[l] = "none"
        /\ consulted = level + 1..Depth
    BY <1>2 DEF Climb, Searched, TypeOK
  <2>2. /\ consulted' = consulted \cup {level} /\ gits' = gits
        /\ chosen' \subseteq {level} /\ (phase' = "options" => level = anchor \/ chosen' = {level})
    BY <1>2 DEF Climb, Continue
  <2>3. consulted' = level..Depth
    BY <2>1, <2>2
  <2>4. \A l \in 0..Depth : InRepository(l)' <=> l >= anchor
    <3>1. ASSUME NEW l \in 0..Depth, l >= anchor
          PROVE InRepository(l)'
      BY <2>1, <2>2, <3>1 DEF InRepository
    <3>2. ASSUME NEW l \in 0..Depth, InRepository(l)'
          PROVE l >= anchor
      <4>1. PICK b \in 0..l : gits[b] = "trusted" /\ \A m \in b + 1..Depth : gits[m] = "none"
        BY <2>2, <3>2 DEF InRepository
      <4>2. b >= anchor
        BY <2>1, <4>1
      <4> QED BY <2>1, <4>1, <4>2
    <3> QED BY <3>1, <3>2
  <2>5. ConfigInBounds'
    BY <2>1, <2>3, <2>4 DEF ConfigInBounds
  <2>6. NearestConfig'
    BY <2>1, <2>2, <2>3, <2>4 DEF NearestConfig
  <2> QED BY <2>5, <2>6
<1>3. CASE LoadFails
  BY <1>3, ConfigStays DEF LoadFails, Fail
<1>4. ASSUME NEW git \in Gits, CheckStart(git)
      PROVE ConfigInBounds' /\ NearestConfig'
  <2>1. consulted' = {Depth} /\ chosen' = {} /\ level = Depth /\ gits'[Depth] = git
        /\ (phase' = "options" => git # "none" \/ Depth = 0)
    BY <1>4 DEF CheckStart, Searched, TypeOK
  <2>2. phase' = "options" => \A l \in 0..Depth : l # Depth => ~InRepository(l)'
    BY <2>1 DEF InRepository
  <2> QED BY <2>1, <2>2 DEF ConfigInBounds, NearestConfig
<1>5. ASSUME NEW git \in Gits, ProbeAnchor(git)
      PROVE ConfigInBounds' /\ NearestConfig'
  <2>1. /\ level \in 0..Depth /\ level < Depth /\ consulted' = {Depth} /\ chosen' = {}
        /\ \A l \in 0..Depth : gits[l] = IF l > level THEN "none" ELSE "unseen"
    BY <1>5 DEF ProbeAnchor, Searched, TypeOK
  <2>2. /\ gits'[level] = git
        /\ \A l \in 0..Depth : l # level => gits'[l] = gits[l]
    BY <1>5, <2>1 DEF ProbeAnchor, TypeOK
  <2>3. phase' = "options" => git # "trusted"
    BY <1>5 DEF ProbeAnchor
  <2>4. git # "trusted" => \A l \in 0..Depth : ~InRepository(l)'
    BY <2>1, <2>2 DEF InRepository
  <2> QED BY <2>1, <2>3, <2>4 DEF ConfigInBounds, NearestConfig
<1>6. ASSUME NEW cli \in Clis, Options(cli)
      PROVE ConfigInBounds' /\ NearestConfig'
  <2>1. CASE Fail
    BY <2>1, ConfigStays DEF Fail
  <2>2. CASE ~Fail
    <3>1. consulted' = {} /\ chosen' = {} /\ phase' = "discover"
      BY <1>6, <2>2 DEF Options
    <3> QED BY <3>1 DEF ConfigInBounds, NearestConfig
  <2> QED BY <2>1, <2>2
<1> QED BY <1>1, <1>2, <1>3, <1>4, <1>5, <1>6 DEF Search

LEMMA ConfigHolds == Spec => [](ConfigInBounds /\ NearestConfig)
<1>1. Init => ConfigInBounds /\ NearestConfig
  BY DEF Init, ConfigInBounds, NearestConfig
<1>2. Inv /\ ConfigInBounds /\ NearestConfig /\ [Next]_vars => ConfigInBounds' /\ NearestConfig'
  <2> SUFFICES ASSUME Inv, ConfigInBounds, NearestConfig, [Next]_vars
               PROVE ConfigInBounds' /\ NearestConfig'
    OBVIOUS
  <2>1. CASE Search
    BY <2>1, ConfigStep DEF Inv
  <2>2. CASE ~Search
    <3>1. UNCHANGED search /\ (phase' = phase \/ phase' \in {"discover", "next", "open", "metadata", "read", "done"})
      BY <2>2, NotSearching DEF Next, Run
    <3> QED BY <3>1, ConfigStays
  <2> QED BY <2>1, <2>2
<1> QED BY <1>1, <1>2, InvHolds, PTL DEF Spec

(***************************************************************************)
(* Whatever configurations and repositories lie on the way up, trusted or  *)
(* not: none outside the bounds is read (README:333).                      *)
(***************************************************************************)
THEOREM ConfigWithinBounds == Spec => []ConfigInBounds
BY ConfigHolds, PTL

(***************************************************************************)
(* And the one that is used is the nearest: the search stops at it, and    *)
(* finds it if there is one.                                               *)
(***************************************************************************)
THEOREM ConfigIsNearest == Spec => []NearestConfig
BY ConfigHolds, PTL

-----------------------------------------------------------------------------
(* The verdict.                                                            *)

LEMMA CoveredAfterSearch ==
    ASSUME TypeOK, Covered, Search
    PROVE Covered'
<1>1. UNCHANGED <<found, scope, checked, world>>
  BY DEF Search, LoadStart, Climb, Continue, LoadFails, Fail, CheckStart, ProbeAnchor, Options, reads
<1>2. /\ phase \in {"start", "boundary", "anchor", "climb", "options"}
      /\ phase' \in {"start", "boundary", "anchor", "climb", "options", "discover", "done"}
      /\ phase' = "done" => exit' = "2"
      /\ phase' # "done" => exit' = exit
  BY DEF Search, LoadStart, Climb, Continue, LoadFails, Fail, CheckStart, ProbeAnchor, Options, reads
<1>3. exit' \notin {"0", "1"}
  BY <1>2 DEF TypeOK
<1>4. \A f \in scope' : Ahead(f)'
  <2>1. \A f \in scope : Ahead(f)
    BY <1>2 DEF Covered
  <2> QED BY <1>1, <2>1 DEF Ahead, found
<1>5. Wanted' \subseteq scope'
  BY DEF Wanted
<1> QED BY <1>2, <1>3, <1>4, <1>5 DEF Covered, QuietMeansChecked

LEMMA AheadOfTail ==
    ASSUME TypeOK, arguments # <<>>, arguments' = Tail(arguments), NEW f, Ahead(f)
    PROVE f \in InScope(Head(arguments)) \/ Ahead(f)'
<1>1. PICK i \in DOMAIN arguments : f \in InScope(arguments[i])
  BY DEF Ahead
<1>2. CASE i = 1
  <2>1. arguments[i] = Head(arguments)
    BY <1>2 DEF TypeOK
  <2> QED BY <1>1, <2>1
<1>3. CASE i # 1
  <2>1. i - 1 \in DOMAIN Tail(arguments) /\ Tail(arguments)[i - 1] = arguments[i]
    BY <1>3 DEF TypeOK
  <2> QED BY <1>1, <2>1 DEF Ahead, InScope
<1> QED BY <1>2, <1>3

LEMMA CoveredAfterDiscover ==
    ASSUME TypeOK, Covered, Discover
    PROVE Covered'
<1>1. CASE Fail
  <2>1. phase' = "done" /\ exit' = "2"
    BY <1>1 DEF Fail
  <2> QED BY <2>1 DEF Covered, QuietMeansChecked
<1>2. CASE ~Fail
  <2>1. phase = "discover" /\ phase' \in {"discover", "next"} /\ UNCHANGED <<search, config, reads, world, scope>>
    BY <1>2 DEF Discover, DiscoverFile, OpenDirectory, VisitEntry, StartReading
  <2>2. Wanted' = Wanted /\ exit' \notin {"0", "1"} /\ \A f \in Wanted : f \notin config.exclude /\ IsRegular(f)
    <3>1. UNCHANGED <<scope, steady, config, disk, exit>>
      BY <2>1 DEF reads, world
    <3> QED BY <2>1, <3>1 DEF Wanted, IsRegular, TypeOK
  <2>3. ASSUME NEW f \in Wanted
        PROVE \/ phase' = "discover" /\ (Ahead(f)' \/ f \in pending' \cap Layout)
              \/ f \in queue'
    <3>1. Ahead(f) \/ f \in pending \cap Layout \/ f \in queue
      BY <2>1, <2>3 DEF Covered
    <3>2. CASE DiscoverFile
      <4>1. /\ arguments # <<>> /\ Head(arguments).explicit /\ arguments' = Tail(arguments) /\ pending' = pending
            /\ queue' = queue \cup ({g \in Head(arguments).files : IsRegular(g)} \ config.exclude)
            /\ phase' = "discover"
        BY <1>2, <2>1, <3>2 DEF DiscoverFile
      <4>2. Ahead(f) => f \in Head(arguments).files \/ Ahead(f)'
        BY <4>1, AheadOfTail DEF InScope
      <4> QED BY <2>2, <2>3, <3>1, <4>1, <4>2
    <3>3. CASE OpenDirectory
      <4>1. /\ arguments # <<>> /\ ~Head(arguments).explicit /\ arguments' = Tail(arguments) /\ pending = {}
            /\ pending' = Head(arguments).files /\ queue' = queue /\ phase' = "discover"
        BY <1>2, <3>3 DEF OpenDirectory
      <4>2. Ahead(f) => f \in Head(arguments).files \cap Layout \/ Ahead(f)'
        BY <4>1, AheadOfTail DEF InScope
      <4> QED BY <3>1, <4>1, <4>2
    <3>4. ASSUME NEW g \in Files, VisitEntry(g)
          PROVE \/ phase' = "discover" /\ (Ahead(f)' \/ f \in pending' \cap Layout)
                \/ f \in queue'
      <4>1. /\ pending' = pending \ {g} /\ phase' = "discover" /\ arguments' = arguments
            /\ queue' = IF IsRegular(g) /\ g \in Layout \ config.exclude THEN queue \cup {g} ELSE queue
        BY <3>4 DEF VisitEntry
      <4>2. Ahead(f)' = Ahead(f)
        BY <4>1 DEF Ahead
      <4>3. CASE f = g
        BY <2>2, <2>3, <3>1, <4>1, <4>2, <4>3
      <4>4. CASE f # g
        BY <3>1, <4>1, <4>2, <4>4
      <4> QED BY <4>3, <4>4
    <3>5. CASE StartReading
      <4>1. arguments = <<>> /\ pending = {} /\ queue' = queue
        BY <3>5 DEF StartReading, found
      <4>2. ~Ahead(f)
        BY <4>1 DEF Ahead
      <4> QED BY <3>1, <4>1, <4>2
    <3> QED BY <3>2, <3>3, <3>4, <3>5 DEF Discover
  <2> QED BY <2>1, <2>2, <2>3 DEF Covered, QuietMeansChecked
<1> QED BY <1>1, <1>2

LEMMA CoveredAfterJudge ==
    ASSUME TypeOK, Covered, Judge
    PROVE Covered'
<1>1. UNCHANGED <<config, scope, world>>
  BY DEF Judge, Inspect, Open, Metadata, Read, Finish, Step
<1>2. Wanted' = Wanted
  BY <1>1 DEF Wanted, IsRegular, world
<1>3. \A f : Judged(f) => Judged(f)'
  BY DEF Judge, Inspect, Open, Metadata, Read, Finish, Judged, Step
<1>4. CASE ~Finish
  <2>1. /\ phase \in {"next", "open", "metadata", "read"} /\ phase' \in {"next", "open", "metadata", "read"}
        /\ exit' = exit /\ exit \notin {"0", "1"}
    BY <1>4 DEF TypeOK, Judge, Inspect, Open, Metadata, Read, Step
  <2>2. ASSUME ~failed', NEW f \in Wanted
        PROVE f \in queue' \/ Judged(f)' \/ (phase' # "next" /\ f = handle'.file)
    <3>1. ~failed
      BY <1>4, <2>2 DEF Judge, Inspect, Open, Metadata, Read, Step
    <3>2. f \in queue \/ Judged(f) \/ (phase # "next" /\ f = handle.file)
      BY <2>1, <2>2, <3>1 DEF Covered
    <3>3. ASSUME NEW g \in Files, Inspect(g)
          PROVE f \in queue' \/ Judged(f)' \/ (phase' # "next" /\ f = handle'.file)
      <4>1. IsRegular(g)
        BY <2>2, <3>3 DEF Inspect, Step
      <4>2. phase = "next" /\ queue' = queue \ {g} /\ phase' = "open" /\ handle' = Handle(g, 0, "absent", 0)
        BY <3>3, <4>1 DEF Inspect, Step
      <4>3. handle'.file = g
        BY <4>2 DEF Handle
      <4> QED BY <1>3, <3>2, <4>2, <4>3
    <3>4. CASE Open
      <4>1. queue' = queue /\ phase' = "metadata" /\ handle'.file = handle.file
        <5>1. ~Step("next", TRUE)
          BY <2>2 DEF Step
        <5> QED BY <3>4, <5>1 DEF Open, Step, Handle
      <4> QED BY <1>3, <3>2, <4>1
    <3>5. CASE Metadata
      <4>1. queue' = queue /\ phase' = "read" /\ handle' = handle
        BY <2>2, <3>5 DEF Metadata, Step
      <4> QED BY <1>3, <3>2, <4>1
    <3>6. CASE Read
      <4>1. queue' = queue /\ checked' = checked \cup {[file |-> handle.file, type |-> handle.type, whole |-> handle.size <= Max]}
        <5>1. ~Step("next", TRUE)
          BY <2>2 DEF Step
        <5> QED BY <3>6, <5>1 DEF Read
      <4>2. f = handle.file => \E c \in checked' : c.file = f
        <5>1. PICK c \in checked' : c = [file |-> handle.file, type |-> handle.type, whole |-> handle.size <= Max]
          BY <4>1, Zenon
        <5>2. c.file = handle.file
          BY <5>1, Zenon
        <5> QED BY <5>1, <5>2
      <4> QED BY <1>3, <3>2, <4>1, <4>2 DEF Judged
    <3> QED BY <1>4, <3>3, <3>4, <3>5, <3>6 DEF Judge
  <2>3. phase' = "next" => failed' \/ \A f \in Wanted' : f \in queue' \/ Judged(f)'
    BY <1>2, <2>2
  <2>4. phase' \in {"open", "metadata", "read"} =>
           failed' \/ \A f \in Wanted' : f \in queue' \/ f = handle'.file \/ Judged(f)'
    BY <1>2, <2>2
  <2> QED BY <2>1, <2>3, <2>4 DEF Covered, QuietMeansChecked
<1>5. CASE Finish
  <2>1. phase = "next" /\ phase' = "done" /\ queue = {} /\ (failed => exit' = "2")
    BY <1>5 DEF Finish
  <2>2. exit' \in {"0", "1"} => \A f \in Wanted : Judged(f)
    BY <2>1 DEF Covered
  <2>3. QuietMeansChecked'
    BY <1>2, <1>3, <2>2 DEF QuietMeansChecked, Wanted, Judged
  <2> QED BY <2>1, <2>3 DEF Covered
<1> QED BY <1>4, <1>5

LEMMA CoveredAfterOthers ==
    ASSUME TypeOK, Covered, Others
    PROVE Covered'
<1>1. PICK f \in Files : (\E type \in NewTypes, size \in 0..Max + 1 : Replace(f, type, size)) \/ Append1(f)
  BY DEF Others
<1>2. Write(f) /\ \A g \in Files : g # f => disk'[g] = disk[g]
  BY <1>1 DEF Replace, Append1, TypeOK
<1>3. /\ UNCHANGED <<phase, arguments, pending, queue, failed, checked, exit, scope, config>>
      /\ steady' = steady \ {f}
  BY <1>2 DEF Write, found
<1>4. Wanted' \subseteq Wanted
  <2> SUFFICES ASSUME NEW g \in Wanted' PROVE g \in Wanted
    OBVIOUS
  <2>1. g \in (scope \cap steady) \ config.exclude /\ g # f /\ disk'[g].type = "regular"
    BY <1>3 DEF Wanted, IsRegular
  <2>2. g \in Files
    BY <2>1 DEF TypeOK
  <2>3. disk'[g] = disk[g]
    BY <1>2, <2>1, <2>2
  <2> QED BY <2>1, <2>3 DEF Wanted, IsRegular
<1>5. handle'.file = handle.file
  BY <1>1 DEF Replace, Append1, TypeOK
<1>6. \A g : Ahead(g)' = Ahead(g) /\ Judged(g)' = Judged(g)
  BY <1>3 DEF Ahead, Judged, InScope
<1>7. QuietMeansChecked'
  <2>1. exit \in {"0", "1"} => \A g \in Wanted : Judged(g)
    BY DEF Covered, QuietMeansChecked, Wanted, Judged
  <2>2. exit' \in {"0", "1"} => \A g \in Wanted' : Judged(g)'
    BY <1>3, <1>4, <1>6, <2>1
  <2> QED BY <2>2 DEF QuietMeansChecked, Wanted, Judged
<1> QED BY <1>3, <1>4, <1>5, <1>6, <1>7 DEF Covered

LEMMA CoveredStays ==
    ASSUME Covered, UNCHANGED vars
    PROVE Covered'
<1>1. UNCHANGED <<phase, search, config, found, reads, world, scope>>
  BY DEF vars
<1>2. /\ UNCHANGED <<phase, config, arguments, pending, queue, handle, failed, checked, exit, disk, steady, scope>>
  BY <1>1 DEF found, reads, world
<1>3. Wanted' = Wanted
  BY <1>2 DEF Wanted, IsRegular
<1>4. \A g : Ahead(g)' = Ahead(g) /\ Judged(g)' = Judged(g)
  BY <1>2 DEF Ahead, Judged, InScope
<1>5. QuietMeansChecked'
  BY <1>2 DEF Covered, QuietMeansChecked, IsRegular
<1> QED BY <1>2, <1>3, <1>4, <1>5 DEF Covered

(***************************************************************************)
(* For every command line, configuration and interleaving with other       *)
(* processes, an exit code of 0 or 1 covers all it should (main.rs:420).   *)
(***************************************************************************)
THEOREM VerdictMeansChecked == Spec => []QuietMeansChecked
<1>1. Init => Covered
  <2> SUFFICES ASSUME Init PROVE Covered
    OBVIOUS
  <2>1. phase = "start" /\ exit = "running" /\ scope = UNION {InScope(arguments[i]) : i \in DOMAIN arguments}
    BY DEF Init
  <2>2. \A f \in scope : Ahead(f)
    BY <2>1 DEF Ahead
  <2> QED BY <2>1, <2>2 DEF Covered, QuietMeansChecked
<1>2. Inv /\ Covered /\ [Next]_vars => Covered'
  <2> SUFFICES ASSUME Inv, Covered, [Next]_vars PROVE Covered'
    OBVIOUS
  <2>1. TypeOK
    BY DEF Inv
  <2> QED BY <2>1, CoveredAfterSearch, CoveredAfterDiscover, CoveredAfterJudge, CoveredAfterOthers, CoveredStays DEF Next, Run
<1>3. Covered => QuietMeansChecked
  BY DEF Covered
<1> QED BY <1>1, <1>2, <1>3, InvHolds, PTL DEF Spec
=============================================================================
