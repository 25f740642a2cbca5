--------------------------- MODULE DiffRunProofs ---------------------------
(***************************************************************************)
(* For every repository, every number of files and every number of         *)
(* reference updates: a run that says 0 or 1 has skipped nothing, all its  *)
(* R005 decisions rest on one evidence, and at rest its exit code is the   *)
(* verdict on the repository.                                              *)
(***************************************************************************)
EXTENDS DiffRun, TLAPS

Preparing == {"base_ref", "head", "target", "list"}
Proving == {"evidence_base_ref", "evidence_head", "evidence_target"}

USE DEF Preparing, Proving, Steps, Refs, Findings, NoEvidence, Failed, Contents, Unparsed

\* Nothing has been opened before the list is known.
Fresh ==
    pc \in Preparing =>
        /\ todo = {} /\ reported = {} /\ evidence = NoEvidence
        /\ \A f \in Migrations : read[f] = "unread"

\* A listed path waits its turn or has been opened, never both.
Progress ==
    /\ \A f \in todo : read[f] = "unread"
    /\ pc \in Proving \cup {"files", "changeset"} =>
          \A f \in Opened(base, target) : f \in todo \/ read[f] # "unread"
    /\ pc = "changeset" => todo = {}

\* has_parse_errors remembers every failure.
FailuresKept ==
    \A f \in Migrations : read[f] \in {"absent", "broken"} => hasParseErrors

\* A path is reported when it has been opened; while evidence is built, one
\* path waits for it, and no other has been judged.
Judged ==
    /\ \A f \in reported : read[f] # "unread"
    /\ evidence = NoEvidence =>
          \A f \in Migrations : Asks(read[f]) => pc \in Proving /\ f = current
    /\ evidence # NoEvidence =>
          \A f \in Migrations :
             Asks(read[f]) => (f \in reported <=> ~ColumnAbsent(evidence))
    /\ pc \in Proving =>
          /\ evidence = NoEvidence
          /\ current \notin reported /\ Asks(read[current])

\* merge_base_tree has resolved its reference when it asks for HEAD, and
\* evidence is built for a path.
Resolved ==
    /\ pc \in {"head", "evidence_head"} => tip # NoCommit
    /\ pc \in Proving => current \in Migrations
    /\ pc = "evidence_target" => evidenceBase \in Commits

IInv ==
    /\ TypeOK /\ Resolved /\ Fresh /\ Progress /\ FailuresKept /\ Judged
    /\ NothingSkipped

-----------------------------------------------------------------------------
(* Type correctness, one step per action.                                  *)

\* Every read of a reference gives a commit or nothing.
LEMMA ReferenceTypes ==
    ASSUME TypeOK, Resolved
    PROVE  /\ Source \in Refs
           /\ pc \in {"head", "evidence_head"} => MergeBaseWithHead \in Refs
<1>1. Source \in Refs
  BY DEF TypeOK, Source
<1>2. ASSUME pc \in {"head", "evidence_head"} PROVE MergeBaseWithHead \in Refs
  <2>1. tip \in Commits BY <1>2 DEF Resolved, TypeOK
  <2>2. CASE head = NoCommit BY <2>2 DEF MergeBaseWithHead
  <2>3. CASE head # NoCommit
    <3>1. head \in Commits BY <2>3 DEF TypeOK
    <3> QED BY <2>1, <2>3, <3>1, MergeBaseAssumption DEF MergeBaseWithHead
  <2> QED BY <2>2, <2>3
<1> QED BY <1>1, <1>2

\* What a path is opened with.
LEMMA ContentType ==
    ASSUME TypeOK, Resolved, NEW f \in Migrations
    PROVE  (IF Source = NoCommit THEN "absent" ELSE Tree[Source][f]) \in Contents
BY ReferenceTypes, TreeAssumption

\* What an index is built to.
LEMMA BuildIndexType ==
    ASSUME NEW scopes, NEW tree \in Commits
    PROVE  BuildIndex(scopes, tree) \in Findings
BY ModelsAssumption DEF BuildIndex

LEMMA InitType == Init => TypeOK /\ Resolved
<1> SUFFICES ASSUME Init PROVE TypeOK /\ Resolved OBVIOUS
<1>1. moves \in 0..MaxMoves BY BoundAssumption DEF Init
<1>2. moments \subseteq Refs \X Refs \X Commits BY DEF Init
<1>3. read \in [Migrations -> Contents \cup {"unread"}] BY DEF Init
<1> QED BY <1>1, <1>2, <1>3 DEF Init, TypeOK, Resolved

LEMMA StepType ==
    ASSUME TypeOK, Resolved, [Next]_vars
    PROVE  TypeOK' /\ Resolved'
<1> USE DEF TypeOK, Resolved
<1>1. CASE Environment
  <2>1. ASSUME NEW c \in Refs, MoveHead(c) PROVE TypeOK' /\ Resolved'
    <3>1. moves' \in 0..MaxMoves BY <2>1, BoundAssumption DEF MoveHead
    <3>2. moments' \subseteq Refs \X Refs \X Commits BY <2>1 DEF MoveHead
    <3> QED BY <2>1, <3>1, <3>2 DEF MoveHead, run
  <2>2. ASSUME NEW c \in Refs, MoveBaseRef(c) PROVE TypeOK' /\ Resolved'
    <3>1. moves' \in 0..MaxMoves BY <2>2, BoundAssumption DEF MoveBaseRef
    <3>2. moments' \subseteq Refs \X Refs \X Commits BY <2>2 DEF MoveBaseRef
    <3> QED BY <2>2, <3>1, <3>2 DEF MoveBaseRef, run
  <2>3. ASSUME NEW c \in Commits, Stage(c) PROVE TypeOK' /\ Resolved'
    <3>1. moves' \in 0..MaxMoves BY <2>3, BoundAssumption DEF Stage
    <3>2. moments' \subseteq Refs \X Refs \X Commits BY <2>3 DEF Stage
    <3> QED BY <2>3, <3>1, <3>2 DEF Stage, run
  <2> QED BY <1>1, <2>1, <2>2, <2>3 DEF Environment
<1>2. CASE ResolveBaseRef
  BY <1>2 DEF ResolveBaseRef, Abort, repository
<1>3. CASE ResolveMergeBase
  BY <1>3, ReferenceTypes DEF ResolveMergeBase, Abort, repository
<1>4. CASE ListTarget
  BY <1>4, ReferenceTypes DEF ListTarget, Abort, repository
<1>5. CASE Discover
  BY <1>5 DEF Discover, Changed, Opened, repository
<1>6. ASSUME NEW f \in Migrations, Open(f) PROVE TypeOK' /\ Resolved'
  <2> DEFINE content == IF Source = NoCommit THEN "absent" ELSE Tree[Source][f]
  <2>1. content \in Contents BY ContentType
  <2> HIDE DEF content
  <2>2. /\ read' = [read EXCEPT ![f] = content]
        /\ todo' = Rest(f, content)
        /\ hasParseErrors' = (hasParseErrors \/ Fails(content))
        /\ current' \in {f, current} /\ pc' \in {"evidence_base_ref", pc}
        /\ reported' \in {reported, reported \cup {f}}
    BY <1>6 DEF Open, content
  <2>3. read' \in [Migrations -> Contents \cup {"unread"}] BY <2>1, <2>2
  <2>4. todo' \subseteq Migrations BY <2>2 DEF Rest
  <2>5. hasParseErrors' \in BOOLEAN BY ONLY <2>2
  <2>6. pc = "files" BY <1>6 DEF Open
  <2> QED BY <1>6, <2>2, <2>3, <2>4, <2>5, <2>6 DEF Open, repository
<1>7. CASE EvidenceBaseRef
  <2>1. CASE baseRef = NoCommit
    BY <1>7, <2>1 DEF EvidenceBaseRef, Settle, repository
  <2>2. CASE baseRef # NoCommit
    BY <1>7, <2>2 DEF EvidenceBaseRef, repository
  <2> QED BY <2>1, <2>2
<1>8. CASE EvidenceHead
  <2>1. CASE MergeBaseWithHead \notin Configured
    BY <1>8, <2>1 DEF EvidenceHead, Settle, repository
  <2>2. CASE MergeBaseWithHead \in Configured
    BY <1>8, <2>2, ReferenceTypes, ConfiguredAssumption DEF EvidenceHead, repository
  <2> QED BY <2>1, <2>2
<1>9. CASE EvidenceTarget
  <2> DEFINE ev == [base |-> BuildIndex(evidenceBase, evidenceBase),
                    target |-> BuildIndex(evidenceBase, Source)]
  <2>1. CASE Source = NoCommit
    BY <1>9, <2>1 DEF EvidenceTarget, Settle, repository
  <2>2. CASE Source # NoCommit
    <3>1. Source \in Commits BY <2>2, ReferenceTypes
    <3>2. BuildIndex(evidenceBase, evidenceBase) \in Findings
      BY <1>9, BuildIndexType DEF EvidenceTarget
    <3>3. BuildIndex(evidenceBase, Source) \in Findings
      BY <3>1, BuildIndexType
    <3>4. ev \in [base : Findings, target : Findings] BY <3>2, <3>3
    <3> QED BY <1>9, <2>2, <3>1, <3>4 DEF EvidenceTarget, Settle, repository
  <2> QED BY <2>1, <2>2
<1>10. CASE LoopEnds
  BY <1>10 DEF LoopEnds, repository
<1>11. CASE Finish
  BY <1>11 DEF Finish, repository
<1>12. CASE UNCHANGED vars
  BY <1>12 DEF vars
<1> QED
  BY <1>1, <1>2, <1>3, <1>4, <1>5, <1>6, <1>7, <1>8, <1>9, <1>10, <1>11, <1>12
  DEF Next, Run

-----------------------------------------------------------------------------
(* The invariant.                                                          *)

LEMMA InitInvariant == Init => IInv
<1> SUFFICES ASSUME Init PROVE IInv OBVIOUS
<1>1. TypeOK /\ Resolved BY InitType
<1>2. \A f \in Migrations : read[f] = "unread" BY DEF Init
<1>3. Fresh /\ Progress /\ FailuresKept /\ Judged /\ NothingSkipped
  BY <1>2 DEF Init, Fresh, Progress, FailuresKept, Judged, NothingSkipped, Asks
<1> QED BY <1>1, <1>3 DEF IInv

\* Building the evidence judges the path that waited for it.
LEMMA SettleJudges ==
    ASSUME IInv, pc \in Proving, NEW ev \in [base : Findings, target : Findings],
           Settle(ev)
    PROVE  Fresh' /\ Progress' /\ FailuresKept' /\ Judged' /\ NothingSkipped'
<1>1. ev # NoEvidence BY SMT
<1>2. /\ read' = read /\ todo' = todo /\ base' = base /\ target' = target
      /\ current' = current /\ hasParseErrors' = hasParseErrors
      /\ enabled' = enabled /\ evidence' = ev /\ pc' = "files"
      /\ reported' = IF ColumnAbsent(ev) THEN reported ELSE reported \cup {current}
  BY DEF Settle
<1>3. Judged'
  <2>1. \A f \in reported' : read'[f] # "unread"
    BY <1>2 DEF IInv, Judged, Asks
  <2>2. ASSUME NEW f \in Migrations, Asks(read[f])
        PROVE  f \in reported' <=> ~ColumnAbsent(ev)
    BY <1>2, <2>2 DEF IInv, Judged
  <2> QED BY <1>1, <1>2, <2>1, <2>2 DEF Judged, Asks
<1>4. Progress' BY <1>2 DEF IInv, Progress, Opened, Changed
<1> QED BY <1>2, <1>3, <1>4 DEF IInv, Fresh, FailuresKept, NothingSkipped

LEMMA StepInvariant ==
    ASSUME IInv, [Next]_vars
    PROVE  IInv'
<1>1. TypeOK' /\ Resolved' BY StepType DEF IInv
<1> USE DEF IInv, Fresh, Progress, FailuresKept, Judged, NothingSkipped, Opened,
            Changed, Asks
<1>2. CASE Environment \/ UNCHANGED vars
  <2>1. /\ read' = read /\ todo' = todo /\ base' = base /\ target' = target
        /\ current' = current /\ hasParseErrors' = hasParseErrors
        /\ enabled' = enabled /\ evidence' = evidence /\ pc' = pc
        /\ reported' = reported /\ exit' = exit
    BY <1>2 DEF Environment, MoveHead, MoveBaseRef, Stage, run, vars
  <2> QED BY <1>1, <2>1
<1>3. CASE ResolveBaseRef BY <1>1, <1>3 DEF ResolveBaseRef, Abort
<1>4. CASE ResolveMergeBase BY <1>1, <1>4 DEF ResolveMergeBase, Abort
<1>5. CASE ListTarget BY <1>1, <1>5 DEF ListTarget, Abort
<1>6. CASE Discover BY <1>1, <1>6 DEF Discover
<1>7. CASE EvidenceBaseRef
  <2>1. CASE baseRef = NoCommit
    <3>1. Settle(Failed) BY <1>7, <2>1 DEF EvidenceBaseRef
    <3> QED BY <1>1, <1>7, <3>1, SettleJudges DEF EvidenceBaseRef
  <2>2. CASE baseRef # NoCommit BY <1>1, <1>7, <2>2 DEF EvidenceBaseRef
  <2> QED BY <2>1, <2>2
<1>8. CASE EvidenceHead
  <2>1. CASE MergeBaseWithHead \notin Configured
    <3>1. Settle(Failed) BY <1>8, <2>1 DEF EvidenceHead
    <3> QED BY <1>1, <1>8, <3>1, SettleJudges DEF EvidenceHead
  <2>2. CASE MergeBaseWithHead \in Configured BY <1>1, <1>8, <2>2 DEF EvidenceHead
  <2> QED BY <2>1, <2>2
<1>9. CASE EvidenceTarget
  <2>1. PICK ev \in [base : Findings, target : Findings] : Settle(ev)
    <3>1. CASE Source = NoCommit BY <1>9, <3>1 DEF EvidenceTarget
    <3>2. CASE Source # NoCommit
      <4>1. Source \in Commits /\ evidenceBase \in Commits
        BY <1>9, <3>2, ReferenceTypes DEF EvidenceTarget, Resolved
      <4>2. /\ BuildIndex(evidenceBase, evidenceBase) \in Findings
            /\ BuildIndex(evidenceBase, Source) \in Findings
        BY <4>1, BuildIndexType
      <4> QED BY <1>9, <3>2, <4>2 DEF EvidenceTarget
    <3> QED BY <3>1, <3>2
  <2> QED BY <1>1, <1>9, <2>1, SettleJudges DEF EvidenceTarget
<1>10. CASE LoopEnds BY <1>1, <1>10 DEF LoopEnds
<1>11. CASE Finish BY <1>1, <1>11 DEF Finish
<1>12. ASSUME NEW f \in Migrations, Open(f) PROVE IInv'
  <2> DEFINE content == IF Source = NoCommit THEN "absent" ELSE Tree[Source][f]
  <2>1. content \in Contents BY ContentType
  <2> HIDE DEF content
  <2>2. /\ pc = "files" /\ f \in todo
        /\ read' = [read EXCEPT ![f] = content]
        /\ todo' = todo \ {f}
        /\ base' = base /\ target' = target /\ enabled' = enabled
        /\ evidence' = evidence /\ exit' = exit
    BY <1>12 DEF Open, content, Rest
  <2>3. hasParseErrors' <=> hasParseErrors \/ Fails(content)
    BY <1>12, Zenon DEF Open, content
  <2>4. /\ Builds(content) => /\ current' = f /\ pc' = "evidence_base_ref"
                              /\ reported' = reported
        /\ ~Builds(content) => /\ current' = current /\ pc' = pc
                               /\ reported' = IF Reports(content, evidence)
                                                THEN reported \cup {f} ELSE reported
    BY <1>12 DEF Open, content
  <2>5. /\ read \in [Migrations -> Contents \cup {"unread"}]
        /\ read'[f] = content /\ content # "unread" /\ read[f] = "unread"
        /\ \A g \in Migrations \ {f} : read'[g] = read[g]
    BY <2>1, <2>2 DEF TypeOK
  <2>6. Fresh' BY <2>2, <2>4
  <2>7. Progress' BY <2>2, <2>4, <2>5
  <2>8. FailuresKept' BY <2>3, <2>5 DEF Fails
  <2>9. Judged'
    <3>1. f \notin reported BY <2>5
    <3>2. CASE Builds(content)
      BY <2>2, <2>4, <2>5, <3>1, <3>2 DEF Builds
    <3>3. CASE ~Builds(content)
      BY <2>2, <2>4, <2>5, <3>1, <3>3 DEF Builds, Reports
    <3> QED BY <3>2, <3>3
  <2>10. NothingSkipped' BY <2>2, <2>4
  <2> QED BY <1>1, <2>6, <2>7, <2>8, <2>9, <2>10
<1> QED
  BY <1>2, <1>3, <1>4, <1>5, <1>6, <1>7, <1>8, <1>9, <1>10, <1>11, <1>12
  DEF Next, Run

-----------------------------------------------------------------------------
(* Where the run reads: one staged tree, and commits that were held.       *)

\* Once the index is open, every read of a staged run is of the tree listed.
StagedTree ==
    mode = "index" =>
        /\ staged = target
        /\ pc \in Preparing \ {"list"} => target = NoCommit
        /\ pc \in Preparing => evidenceTarget = NoCommit
        /\ pc \in Proving \cup {"list", "files", "changeset"} => target # NoCommit

\* The two halves of DropsAuthorised.
BaseAuthorised ==
    \E s, t \in moments :
       LET m == MergeBase[s[1], t[2]]
       IN  /\ s[1] # NoCommit /\ t[2] # NoCommit
           /\ m \in Configured /\ Models[m] = "absent"
TargetAuthorised ==
    \E s \in moments :
       LET t == IF mode = "head" THEN s[2] ELSE s[3]
       IN  t # NoCommit /\ Models[t] = "absent"

\* What the run remembers of the repository, the repository held at some moment.
Held ==
    /\ <<baseRef, head, index>> \in moments
    /\ tip # NoCommit => \E s \in moments : s[1] = tip
    /\ staged # NoCommit => \E s \in moments : s[3] = staged
    /\ evidenceBase # NoCommit =>
          \E s, t \in moments :
             /\ s[1] # NoCommit /\ t[2] # NoCommit
             /\ evidenceBase = MergeBase[s[1], t[2]] /\ evidenceBase \in Configured

\* Absence on either side is the models' word on a commit of that kind.
Authorised ==
    /\ evidence.base = "absent" => BaseAuthorised
    /\ evidence.target = "absent" => TargetAuthorised

LEMMA StagedStep ==
    ASSUME IInv, StagedTree, StagedReadsOneTree, [Next]_vars
    PROVE  StagedTree' /\ StagedReadsOneTree'
<1> USE DEF StagedTree, StagedReadsOneTree
<1>1. CASE ListTarget
  <2>1. pc = "target" /\ \A f \in Migrations : read[f] = "unread"
    BY <1>1 DEF ListTarget, IInv, Fresh
  <2> QED BY <1>1, <2>1 DEF ListTarget, Abort, Source
<1>2. ASSUME NEW f \in Migrations, Open(f)
      PROVE  StagedTree' /\ StagedReadsOneTree'
  <2> DEFINE content == IF Source = NoCommit THEN "absent" ELSE Tree[Source][f]
  <2>1. mode = "index" => content = Tree[target][f] /\ target # NoCommit
    BY <1>2 DEF Open, Source
  <2> HIDE DEF content
  <2>2. /\ pc = "files" /\ pc' \in {"evidence_base_ref", "files"}
        /\ read' = [read EXCEPT ![f] = content]
        /\ UNCHANGED <<mode, staged, target, evidenceTarget>>
    BY <1>2 DEF Open, content
  <2>3. \A g \in Migrations : read'[g] = IF g = f THEN content ELSE read[g]
    BY <2>2 DEF IInv, TypeOK
  <2> QED BY <2>1, <2>2, <2>3
<1>3. CASE EvidenceTarget
  <2>1. pc = "evidence_target" /\ pc' = "files"
        /\ UNCHANGED <<mode, staged, target, read>>
        /\ evidenceTarget' \in {evidenceTarget, Source}
    BY <1>3 DEF EvidenceTarget, Settle
  <2> QED BY <2>1 DEF Source
<1>4. ASSUME UNCHANGED <<mode, staged, target, read, evidenceTarget>>,
             pc' \in Preparing \ {"list"} => pc \in Preparing \ {"list"},
             pc' \in Preparing => pc \in Preparing,
             pc' \in Proving \cup {"list", "files", "changeset"} =>
                pc \in Proving \cup {"list", "files", "changeset"}
      PROVE  StagedTree' /\ StagedReadsOneTree'
  BY <1>4
<1>5. CASE Environment \/ UNCHANGED vars
  BY <1>5 DEF Environment, MoveHead, MoveBaseRef, Stage, run, vars
<1>6. CASE ResolveBaseRef \/ ResolveMergeBase
  BY <1>6 DEF ResolveBaseRef, ResolveMergeBase, Abort
<1>7. CASE Discover BY <1>7 DEF Discover
<1>8. CASE EvidenceBaseRef \/ EvidenceHead
  <2>1. pc \in Proving /\ pc' \in Proving \cup {"files"}
        /\ UNCHANGED <<mode, staged, target, read, evidenceTarget>>
    BY <1>8 DEF EvidenceBaseRef, EvidenceHead, Settle
  <2> QED BY <2>1
<1>9. CASE LoopEnds \/ Finish BY <1>9 DEF LoopEnds, Finish
<1> QED BY <1>1, <1>2, <1>3, <1>5, <1>6, <1>7, <1>8, <1>9 DEF Next, Run

\* Authorisation is never lost: moments only grow.
LEMMA AuthorisationStays ==
    ASSUME moments \subseteq moments', mode' = mode
    PROVE  /\ BaseAuthorised => BaseAuthorised'
           /\ TargetAuthorised => TargetAuthorised'
BY DEF BaseAuthorised, TargetAuthorised

LEMMA MomentsGrow ==
    ASSUME [Next]_vars
    PROVE  moments \subseteq moments' /\ mode' = mode
<1>1. CASE Environment
  BY <1>1 DEF Environment, MoveHead, MoveBaseRef, Stage, run
<1>2. CASE ~Environment
  BY <1>2 DEF Next, Run, ResolveBaseRef, ResolveMergeBase, ListTarget, Discover, Open,
     EvidenceBaseRef, EvidenceHead, EvidenceTarget, Settle, LoopEnds, Finish,
     repository, vars
<1> QED BY <1>1, <1>2

\* A tree that is read now is HEAD's, or one the index held.
LEMMA SourceHeld ==
    ASSUME Held, TypeOK, Source # NoCommit
    PROVE  \E s \in moments : Source = IF mode = "head" THEN s[2] ELSE s[3]
BY DEF Held, TypeOK, Source

LEMMA HeldStep ==
    ASSUME IInv, Held, [Next]_vars
    PROVE  Held'
<1> USE DEF Held
<1>1. moments \subseteq moments' /\ mode' = mode BY MomentsGrow
<1>0. PICK now \in moments : now[1] = baseRef /\ now[2] = head /\ now[3] = index
  <2>1. <<baseRef, head, index>> \in moments OBVIOUS
  <2> QED BY <2>1
<1>2. ASSUME <<baseRef', head', index'>> \in moments',
             UNCHANGED <<tip, staged, evidenceBase>>
      PROVE  Held'
  BY <1>1, <1>2
<1>3. CASE Environment
  BY <1>2, <1>3 DEF Environment, MoveHead, MoveBaseRef, Stage, run
<1>4. CASE ResolveBaseRef \/ EvidenceBaseRef
  <2>1. /\ UNCHANGED <<repository, staged, evidenceBase>>
        /\ tip' \in {tip, baseRef}
    BY <1>4 DEF ResolveBaseRef, EvidenceBaseRef, Abort, Settle, repository
  <2>2. \E s \in moments : s[1] = baseRef BY <1>0
  <2> QED BY <2>1, <2>2 DEF repository
<1>5. CASE ListTarget
  <2>1. UNCHANGED <<repository, tip, evidenceBase>> /\ staged' \in {staged, index}
    BY <1>5 DEF ListTarget, Abort, Source, repository
  <2>2. \E s \in moments : s[3] = index BY <1>0
  <2> QED BY <2>1, <2>2 DEF repository
<1>6. CASE EvidenceHead
  <2>1. UNCHANGED <<repository, tip, staged>> /\ pc = "evidence_head"
    BY <1>6 DEF EvidenceHead, Settle, repository
  <2>2. CASE MergeBaseWithHead \notin Configured
    BY <1>2, <1>6, <2>1, <2>2 DEF EvidenceHead, repository
  <2>3. CASE MergeBaseWithHead \in Configured
    <3>1. evidenceBase' = MergeBaseWithHead BY <1>6, <2>3 DEF EvidenceHead
    <3>2. head # NoCommit /\ MergeBaseWithHead = MergeBase[tip, head]
      BY <2>3, ConfiguredAssumption, CommitsAssumption DEF MergeBaseWithHead
    <3>3. PICK s \in moments : s[1] = tip BY <2>1 DEF IInv, Resolved
    <3>4. PICK t \in moments : t[2] = head BY <1>0
    <3>5. tip # NoCommit BY <2>1 DEF IInv, Resolved
    <3>6. s[1] # NoCommit /\ t[2] # NoCommit
          /\ evidenceBase' = MergeBase[s[1], t[2]] /\ evidenceBase' \in Configured
      BY <2>3, <3>1, <3>2, <3>3, <3>4, <3>5
    <3> QED BY <2>1, <3>6 DEF repository
  <2> QED BY <2>2, <2>3
<1>7. CASE \/ ResolveMergeBase \/ Discover \/ \E f \in Migrations : Open(f)
           \/ EvidenceTarget \/ LoopEnds \/ Finish \/ UNCHANGED vars
  <2>1. UNCHANGED <<repository, tip, staged, evidenceBase>>
    BY <1>7 DEF ResolveMergeBase, Abort, Discover, Open, EvidenceTarget, Settle,
       LoopEnds, Finish, vars, repository
  <2> QED BY <1>2, <2>1 DEF repository
<1> QED BY <1>3, <1>4, <1>5, <1>6, <1>7 DEF Next, Run

LEMMA AuthorisedStep ==
    ASSUME IInv, Held, Authorised, [Next]_vars
    PROVE  Authorised'
<1>1. moments \subseteq moments' /\ mode' = mode BY MomentsGrow
<1>2. /\ BaseAuthorised => BaseAuthorised'
      /\ TargetAuthorised => TargetAuthorised'
  BY <1>1, AuthorisationStays
<1>3. ASSUME evidence' \in {evidence, Failed} PROVE Authorised'
  BY <1>2, <1>3 DEF Authorised
<1>4. CASE EvidenceTarget
  <2>1. CASE Source = NoCommit BY <1>3, <1>4, <2>1 DEF EvidenceTarget, Settle
  <2>2. CASE Source # NoCommit
    <3>1. /\ evidence'.base = BuildIndex(evidenceBase, evidenceBase)
          /\ evidence'.target = BuildIndex(evidenceBase, Source)
      BY <1>4, <2>2 DEF EvidenceTarget, Settle
    <3>2. evidenceBase # NoCommit
      BY <1>4, CommitsAssumption DEF EvidenceTarget, IInv, Resolved
    <3>3. evidence'.base = "absent" => Models[evidenceBase] = "absent"
      BY <3>1 DEF BuildIndex
    <3>4. evidence'.base = "absent" => BaseAuthorised
      BY <3>2, <3>3 DEF Held, BaseAuthorised
    <3>5. evidence'.target = "absent" => Models[Source] = "absent"
      BY <3>1 DEF BuildIndex
    <3>6. evidence'.target = "absent" => TargetAuthorised
      BY <2>2, <3>5, SourceHeld DEF IInv, TargetAuthorised
    <3> QED BY <1>2, <3>4, <3>6 DEF Authorised
  <2> QED BY <2>1, <2>2
<1>5. CASE Environment \/ UNCHANGED vars
  BY <1>3, <1>5 DEF Environment, MoveHead, MoveBaseRef, Stage, run, vars
<1>6. CASE ~EvidenceTarget /\ Run
  BY <1>3, <1>6 DEF Run, ResolveBaseRef, ResolveMergeBase, ListTarget, Abort, Discover,
     Open, EvidenceBaseRef, EvidenceHead, Settle, LoopEnds, Finish
<1> QED BY <1>4, <1>5, <1>6 DEF Next

-----------------------------------------------------------------------------

\* The run stays within its types, whatever the repository holds.
THEOREM TypeCorrect == Spec => []TypeOK
<1>1. Init => TypeOK /\ Resolved BY InitType
<1>2. TypeOK /\ Resolved /\ [Next]_vars => (TypeOK /\ Resolved)' BY StepType
<1> QED BY <1>1, <1>2, PTL DEF Spec

\* main.rs run: exit code 0 or 1 only after every listed migration was opened,
\* parsed and checked, for every repository and every interleaving.
THEOREM NothingIsSkipped == Spec => []NothingSkipped
<1>1. Init => IInv BY InitInvariant
<1>2. IInv /\ [Next]_vars => IInv' BY StepInvariant
<1>3. IInv => NothingSkipped BY DEF IInv
<1> QED BY <1>1, <1>2, <1>3, PTL DEF Spec

\* DiffContext.model_evidence: all R005 decisions of a run agree.
THEOREM EvidenceIsOne == Spec => []OneEvidence
<1>1. Init => IInv BY InitInvariant
<1>2. IInv /\ [Next]_vars => IInv' BY StepInvariant
<1>3. IInv => OneEvidence
  <2> SUFFICES ASSUME IInv, NEW f \in Decided, NEW g \in Decided
               PROVE  f \in reported <=> g \in reported
    BY DEF OneEvidence
  <2>1. Decided # {} => evidence # NoEvidence
    BY DEF Decided, IInv, Judged
  <2> QED BY <2>1 DEF Decided, IInv, Judged
<1> QED BY <1>1, <1>2, <1>3, PTL DEF Spec

\* --diff-staged: every file and the evidence of a run come from the one tree its
\* diff listed, whatever is staged meanwhile.
THEOREM StagedRunsAreOneTree == Spec => []StagedReadsOneTree
<1>1. Init => IInv BY InitInvariant
<1>2. Init => StagedTree /\ StagedReadsOneTree
  BY DEF Init, StagedTree, StagedReadsOneTree
<1>3. IInv /\ [Next]_vars => IInv' BY StepInvariant
<1>4. IInv /\ StagedTree /\ StagedReadsOneTree /\ [Next]_vars =>
      (StagedTree /\ StagedReadsOneTree)'
  BY StagedStep
<1> QED BY <1>1, <1>2, <1>3, <1>4, PTL DEF Spec

\* R005: however the references move during the run, a column is let go only on the
\* word of the models at commits the repository really held.
THEOREM DropsAreAuthorised == Spec => []DropsAuthorised
<1>1. Init => IInv BY InitInvariant
<1>2. Init => Held /\ Authorised
  BY DEF Init, Held, Authorised
<1>3. IInv /\ [Next]_vars => IInv' BY StepInvariant
<1>4. IInv /\ Held /\ Authorised /\ [Next]_vars => (Held /\ Authorised)'
  BY HeldStep, AuthorisedStep
<1>5. IInv /\ Authorised => DropsAuthorised
  <2> SUFFICES ASSUME IInv, Authorised, Decided \ reported # {}
               PROVE  BaseAuthorised /\ TargetAuthorised
    BY DEF DropsAuthorised, BaseAuthorised, TargetAuthorised
  <2>1. PICK f \in Migrations : Asks(read[f]) /\ f \notin reported
                                /\ ~(pc \in Proving /\ f = current)
    BY DEF Decided
  <2>2. evidence # NoEvidence BY <2>1 DEF IInv, Judged
  <2>3. ColumnAbsent(evidence) BY <2>1, <2>2 DEF IInv, Judged
  <2> QED BY <2>3 DEF ColumnAbsent, Authorised
<1> QED BY <1>1, <1>2, <1>3, <1>4, <1>5, PTL DEF Spec

-----------------------------------------------------------------------------
(* When no reference moves during a run, its exit code is the verdict on   *)
(* the repository as it stands.                                            *)

\* The two trees a repository at rest is judged by.
Base == IF baseRef = NoCommit \/ head = NoCommit THEN NoCommit ELSE MergeBase[baseRef, head]
Target == IF mode = "head" THEN head ELSE index

\* Whether the models exclude the column at both.
Excluded == Base \in Configured /\ Models[Base] = "absent" /\ Models[Target] = "absent"

Listed == Proving \cup {"files", "changeset"}

USE DEF Preparing, Proving, Steps, Refs, Findings, NoEvidence, Failed, Contents, Unparsed,
        Listed

\* What the run has resolved so far is what the repository still holds.
Stands ==
    /\ staged \in {NoCommit, index}
    /\ pc \notin {"base_ref", "done"} => tip = baseRef /\ tip # NoCommit
    /\ pc \notin {"base_ref", "head", "done"} => base = Base /\ base # NoCommit
    /\ pc \in Listed \cup {"list"} => target = Target /\ target # NoCommit
    /\ pc = "evidence_target" => evidenceBase = Base /\ Base \in Configured

\* The run opens listed paths only, and finds there what the target holds.
ReadsTarget ==
    pc \in Listed =>
        /\ Changed(Migrations, base, target) # {}
        /\ todo \subseteq Opened(base, target)
        /\ \A f \in Migrations :
              read[f] # "unread" =>
                 f \in Opened(base, target) /\ read[f] = Tree[target][f]

\* What is reported, and what failed, follows from what was opened.
Exact ==
    pc \in Listed =>
        /\ hasParseErrors => \E f \in Migrations : read[f] = "broken"
        /\ \A f \in Migrations :
              f \in reported <=>
                 \/ read[f] = "unsafe"
                 \/ /\ Asks(read[f]) /\ ~ColumnAbsent(evidence)
                    /\ ~(pc \in Proving /\ f = current)
        /\ evidence # NoEvidence => (ColumnAbsent(evidence) <=> Excluded)

\* Nothing has failed before the list is known.
NoFailure == pc \in Preparing => ~hasParseErrors

Resting == Stands /\ ReadsTarget /\ Exact /\ NoFailure

-----------------------------------------------------------------------------
(* The verdict, case by case.                                              *)

LEMMA VerdictWithoutBase ==
    ASSUME Base = NoCommit
    PROVE  Verdict(baseRef, head, index) = "2"
BY DEF Base, Verdict

LEMMA VerdictWithoutChange ==
    ASSUME Base # NoCommit, Changed(Migrations, Base, Target) = {}
    PROVE  Verdict(baseRef, head, index) = "0"
BY DEF Base, Target, Changed, Verdict

\* The contents a run finds.
Found == {Tree[Target][f] : f \in Opened(Base, Target)}

LEMMA VerdictOnFound ==
    ASSUME Base # NoCommit, Changed(Migrations, Base, Target) # {}
    PROVE  Verdict(baseRef, head, index) =
             IF "broken" \in Found THEN "2"
             ELSE IF \/ "unsafe" \in Found
                     \/ Asks("drop") /\ "drop" \in Found /\ ~Excluded
                     \/ ChangesetReports(Changed(Migrations, Base, Target),
                                         Changed(Others, Base, Target), Found)
                    THEN "1" ELSE "0"
<1> DEFINE changed == {f \in Migrations : Tree[Base][f] # Tree[Target][f]}
           contents == {Tree[Target][f] : f \in changed} \ {"absent"}
<1>1. contents = Found BY DEF Found, Opened, Changed
<1>2. changed = Changed(Migrations, Base, Target) BY DEF Changed
<1>3. {f \in Others : Tree[Base][f] # Tree[Target][f]} = Changed(Others, Base, Target)
  BY DEF Changed
<1>4. Verdict(baseRef, head, index) =
        IF "broken" \in contents THEN "2"
        ELSE IF \/ "unsafe" \in contents
                \/ Asks("drop") /\ "drop" \in contents /\ ~Excluded
                \/ ChangesetReports(changed,
                      {f \in Others : Tree[Base][f] # Tree[Target][f]}, contents)
               THEN "1" ELSE "0"
  BY <1>2 DEF Verdict, Base, Target, Excluded
<1> QED BY <1>1, <1>2, <1>3, <1>4

-----------------------------------------------------------------------------
(* One step of the run.                                                    *)

\* A reference is read as it stands.
LEMMA SourceStands ==
    ASSUME IInv, Stands
    PROVE  /\ Source = Target
           /\ pc \in {"head", "evidence_head"} => MergeBaseWithHead = Base
           /\ pc \notin {"base_ref", "head", "done"} => Target # NoCommit
<1>1. Source = Target BY DEF Stands, Source, Target
<1>2. ASSUME pc \in {"head", "evidence_head"} PROVE MergeBaseWithHead = Base
  BY <1>2 DEF Stands, MergeBaseWithHead, Base
<1>3. ASSUME pc \notin {"base_ref", "head", "done"} PROVE Target # NoCommit
  <2>1. head # NoCommit BY <1>3 DEF Stands, Base
  <2> QED BY <2>1, CommitsAssumption DEF IInv, TypeOK, Target
<1> QED BY <1>1, <1>2, <1>3

\* Judging the path that waited keeps what is reported exact.
LEMMA SettleExact ==
    ASSUME IInv, Resting, pc \in Proving, UNCHANGED <<baseRef, head, index, mode>>,
           NEW ev \in [base : Findings, target : Findings],
           ColumnAbsent(ev) <=> Excluded, Settle(ev)
    PROVE  ReadsTarget' /\ Exact' /\ NoFailure'
<1>1. /\ read' = read /\ todo' = todo /\ base' = base /\ target' = target
      /\ hasParseErrors' = hasParseErrors /\ enabled' = enabled
      /\ evidence' = ev /\ pc' = "files"
      /\ reported' = IF ColumnAbsent(ev) THEN reported ELSE reported \cup {current}
  BY DEF Settle
<1>2. Excluded' <=> Excluded BY DEF Excluded, Base, Target
<1>3. evidence = NoEvidence /\ Asks(read[current]) /\ current \in Migrations
      /\ current \notin reported
  BY DEF IInv, Judged, Resolved
<1>4. ASSUME NEW f \in Migrations
      PROVE  f \in reported' <=>
               read[f] = "unsafe" \/ (Asks(read[f]) /\ ~ColumnAbsent(ev))
  <2>1. f # current => ~Asks(read[f]) BY <1>3 DEF IInv, Judged
  <2>2. f \in reported <=> read[f] = "unsafe"
    BY <1>3, <2>1 DEF Resting, Exact
  <2> QED BY <1>1, <1>3, <2>1, <2>2
<1>5. Exact' BY <1>1, <1>2, <1>4 DEF Resting, Exact, Asks
<1>6. ReadsTarget' BY <1>1 DEF Resting, ReadsTarget, Opened, Changed
<1> QED BY <1>1, <1>5, <1>6 DEF NoFailure

\* Opening the next path.
LEMMA OpenExact ==
    ASSUME IInv, Resting, NEW f \in Migrations, Open(f)
    PROVE  Resting'
<1> DEFINE content == IF Source = NoCommit THEN "absent" ELSE Tree[Source][f]
<1>1. /\ pc = "files" /\ f \in todo /\ pc' \in {"files", "evidence_base_ref"}
      /\ read' = [read EXCEPT ![f] = content]
      /\ todo' = todo \ {f}
      /\ UNCHANGED <<baseRef, head, index, mode, enabled, tip, base, target, staged,
                     evidenceBase, evidence>>
  BY DEF Open, Rest, repository
<1>2. hasParseErrors' <=> hasParseErrors \/ Fails(content) BY Zenon DEF Open
<1>3. /\ Builds(content) => /\ current' = f /\ pc' = "evidence_base_ref"
                            /\ reported' = reported
      /\ ~Builds(content) => /\ current' = current /\ pc' = pc
                             /\ reported' = IF Reports(content, evidence)
                                              THEN reported \cup {f} ELSE reported
  BY DEF Open
<1>4. content = Tree[target][f] /\ f \in Opened(base, target) /\ content # "absent"
  <2>1. Source = target /\ Source # NoCommit
    BY <1>1, SourceStands DEF Resting, Stands
  <2>2. f \in Opened(base, target) BY <1>1 DEF Resting, ReadsTarget
  <2> QED BY <2>1, <2>2 DEF Opened
<1>5. content \in Contents BY ContentType DEF IInv
<1> HIDE DEF content
<1>6. /\ read'[f] = content /\ read[f] = "unread" /\ content # "unread"
      /\ \A g \in Migrations \ {f} : read'[g] = read[g]
  BY <1>1, <1>5 DEF IInv, TypeOK, Progress
<1>7. Stands' BY <1>1 DEF Resting, Stands, Base, Target
<1>8. ReadsTarget' BY <1>1, <1>4, <1>6 DEF Resting, ReadsTarget, Opened, Changed
<1>9. Exact'
  <2>1. hasParseErrors' => \E g \in Migrations : read'[g] = "broken"
    BY <1>1, <1>2, <1>4, <1>6 DEF Resting, Exact, Fails
  <2>2. f \notin reported BY <1>6 DEF IInv, Judged
  <2>3. evidence' # NoEvidence => (ColumnAbsent(evidence') <=> Excluded')
    BY <1>1 DEF Resting, Exact, Excluded, Base, Target
  <2>4. ASSUME NEW g \in Migrations
        PROVE  g \in reported' <=>
                 \/ read'[g] = "unsafe"
                 \/ /\ Asks(read[g])' /\ ~ColumnAbsent(evidence)
                    /\ ~(pc' \in Proving /\ g = current')
    <3>1. Asks(read[g])' <=> Asks(read'[g]) BY <1>1 DEF Asks
    <3>2. CASE g # f
      <4>1. g \in reported' <=> g \in reported BY <1>3, <3>2
      <4>2. g \in reported <=>
              read[g] = "unsafe" \/ (Asks(read[g]) /\ ~ColumnAbsent(evidence))
        BY <1>1 DEF Resting, Exact
      <4>3. pc' \in Proving => current' = f BY <1>1, <1>3
      <4> QED BY <1>6, <3>1, <3>2, <4>1, <4>2, <4>3
    <3>3. CASE g = f /\ Builds(content)
      <4>1. Asks(content) /\ content # "unsafe" BY <3>3 DEF Builds, Asks
      <4> QED BY <1>3, <1>6, <2>2, <3>3, <4>1
    <3>4. CASE g = f /\ ~Builds(content)
      <4>1. g \in reported' <=> Reports(content, evidence) BY <1>3, <2>2, <3>4
      <4> QED BY <1>1, <1>3, <1>6, <3>1, <3>4, <4>1 DEF Reports
    <3> QED BY <3>2, <3>3, <3>4
  <2> QED BY <1>1, <2>1, <2>3, <2>4 DEF Exact
<1> QED BY <1>1, <1>7, <1>8, <1>9 DEF Resting, NoFailure

LEMMA RestingStep ==
    ASSUME IInv, Resting, Run
    PROVE  Resting'
<1>1. UNCHANGED <<baseRef, head, index, mode, enabled, moves>>
  BY DEF Run, ResolveBaseRef, ResolveMergeBase, ListTarget, Discover, Open,
     EvidenceBaseRef, EvidenceHead, EvidenceTarget, Settle, LoopEnds, Finish, repository
<1>2. Base' = Base /\ Target' = Target /\ (Excluded' <=> Excluded)
  BY <1>1 DEF Base, Target, Excluded
<1> USE DEF Resting
<1>3. CASE ResolveBaseRef
  BY <1>2, <1>3 DEF ResolveBaseRef, Abort, repository, Stands, ReadsTarget, Exact,
     NoFailure
<1>4. CASE ResolveMergeBase
  BY <1>2, <1>4, SourceStands DEF ResolveMergeBase, Abort, repository, Stands,
     ReadsTarget, Exact, NoFailure
<1>5. CASE ListTarget
  BY <1>2, <1>5, SourceStands DEF ListTarget, Abort, repository, Stands, Target,
     ReadsTarget, Exact, NoFailure
<1>6. CASE Discover
  <2>1. /\ pc = "list" /\ pc' \in {"files", "done"}
        /\ UNCHANGED <<repository, tip, base, target, staged, read, evidenceBase,
                       evidence, reported, hasParseErrors>>
        /\ pc' = "files" => /\ todo' = Opened(base, target)
                            /\ Changed(Migrations, base, target) # {}
    BY <1>6 DEF Discover
  <2>2. /\ evidence = NoEvidence /\ reported = {} /\ ~hasParseErrors
        /\ \A f \in Migrations : read[f] = "unread"
    BY <2>1 DEF IInv, Fresh, NoFailure
  <2>3. Stands' BY <1>2, <2>1 DEF Stands, repository
  <2>4. ReadsTarget' BY <2>1, <2>2 DEF ReadsTarget, Opened, Changed
  <2>5. Exact' BY <2>1, <2>2 DEF Exact, Asks
  <2> QED BY <2>1, <2>2, <2>3, <2>4, <2>5 DEF NoFailure
<1>7. ASSUME NEW f \in Migrations, Open(f) PROVE Resting'
  BY <1>7, OpenExact
<1>8. CASE EvidenceBaseRef
  <2>1. baseRef # NoCommit BY <1>8 DEF EvidenceBaseRef, Stands
  <2> QED BY <1>1, <1>2, <1>8, <2>1 DEF EvidenceBaseRef, repository, Stands, ReadsTarget,
      Exact, NoFailure, Opened, Changed, Asks
<1>9. CASE EvidenceHead
  <2>1. CASE Base \notin Configured
    <3>1. Settle(Failed) /\ tip' = tip
      BY <1>9, <2>1, SourceStands DEF EvidenceHead
    <3>2. ColumnAbsent(Failed) <=> Excluded BY <2>1 DEF ColumnAbsent, Excluded
    <3>3. ReadsTarget' /\ Exact' /\ NoFailure'
      BY <1>1, <1>9, <3>1, <3>2, SettleExact DEF EvidenceHead
    <3> QED BY <1>2, <1>9, <3>1, <3>3 DEF Settle, Stands, EvidenceHead, repository
  <2>2. CASE Base \in Configured
    BY <1>1, <1>2, <1>9, <2>2, SourceStands DEF EvidenceHead, repository, Stands,
       ReadsTarget, Exact, NoFailure, Opened, Changed, Asks
  <2> QED BY <2>1, <2>2
<1>10. CASE EvidenceTarget
  <2> DEFINE ev == [base |-> BuildIndex(evidenceBase, evidenceBase),
                    target |-> BuildIndex(evidenceBase, Source)]
  <2>1. pc = "evidence_target" BY <1>10 DEF EvidenceTarget
  <2>2. /\ Source = Target /\ Target # NoCommit
        /\ evidenceBase = Base /\ Base \in Configured
    BY <2>1, SourceStands DEF Stands
  <2>3. Settle(ev) /\ UNCHANGED <<tip, evidenceBase>>
    BY <1>10, <2>2 DEF EvidenceTarget
  <2>4. ColumnAbsent(ev) <=> Excluded
    BY <2>2 DEF ColumnAbsent, Excluded, BuildIndex
  <2>5. ev \in [base : Findings, target : Findings]
    <3>1. Base \in Commits BY <2>2, ConfiguredAssumption
    <3>2. Target \in Commits BY <2>2 DEF IInv, TypeOK, Target
    <3> QED BY <2>2, <3>1, <3>2, BuildIndexType
  <2> HIDE DEF ev
  <2>6. ReadsTarget' /\ Exact' /\ NoFailure'
    BY <1>1, <2>1, <2>3, <2>4, <2>5, SettleExact
  <2> QED BY <1>2, <2>1, <2>3, <2>6 DEF Settle, Stands, repository
<1>11. CASE LoopEnds
  BY <1>2, <1>11 DEF LoopEnds, repository, Stands, ReadsTarget, Exact, NoFailure,
     Opened, Changed, Asks
<1>12. CASE Finish
  BY <1>2, <1>12 DEF Finish, repository, Stands, ReadsTarget, Exact, NoFailure
<1> QED
  BY <1>3, <1>4, <1>5, <1>6, <1>7, <1>8, <1>9, <1>10, <1>11, <1>12 DEF Run

-----------------------------------------------------------------------------
(* The exit code.                                                          *)

\* When the loop has ended, what was parsed is what the target holds.
LEMMA AllRead ==
    ASSUME IInv, Resting, pc = "changeset"
    PROVE  /\ hasParseErrors <=> "broken" \in Found
           /\ "broken" \notin Found => Parsed = Found
           /\ reported # {} <=>
                 \/ "unsafe" \in Found
                 \/ Asks("drop") /\ "drop" \in Found /\ ~Excluded
<1>1. base = Base /\ target = Target BY DEF Resting, Stands
<1>2. ASSUME NEW f \in Opened(Base, Target)
      PROVE  f \in Migrations /\ read[f] = Tree[Target][f] /\ read[f] # "unread"
  BY <1>1 DEF IInv, Progress, Resting, ReadsTarget, Opened, Changed
<1>3. ASSUME NEW f \in Migrations, read[f] # "unread"
      PROVE  /\ f \in Opened(Base, Target) /\ read[f] = Tree[Target][f]
             /\ read[f] # "absent"
  BY <1>1, <1>3 DEF Resting, ReadsTarget, Opened
<1>4. hasParseErrors <=> "broken" \in Found
  <2>1. hasParseErrors => "broken" \in Found
    <3> SUFFICES ASSUME hasParseErrors PROVE "broken" \in Found OBVIOUS
    <3>1. PICK f \in Migrations : read[f] = "broken" BY DEF Resting, Exact
    <3> QED BY <1>3, <3>1 DEF Found
  <2>2. "broken" \in Found => hasParseErrors
    <3> SUFFICES ASSUME "broken" \in Found PROVE hasParseErrors OBVIOUS
    <3>1. PICK f \in Opened(Base, Target) : Tree[Target][f] = "broken" BY DEF Found
    <3>2. read[f] = "broken" /\ f \in Migrations BY <1>2, <3>1
    <3> QED BY <3>2 DEF IInv, FailuresKept
  <2> QED BY <2>1, <2>2
<1>5. ASSUME "broken" \notin Found PROVE Parsed = Found
  <2>1. ASSUME NEW c \in Parsed PROVE c \in Found
    <3>1. PICK f \in Migrations : read[f] = c /\ read[f] \notin Unparsed
      BY DEF Parsed
    <3> QED BY <1>3, <3>1 DEF Found
  <2>2. ASSUME NEW c \in Found PROVE c \in Parsed
    <3>1. PICK f \in Opened(Base, Target) : Tree[Target][f] = c BY DEF Found
    <3>2. f \in Migrations /\ read[f] = c /\ c \notin Unparsed
      BY <1>2, <1>3, <1>5, <3>1
    <3> QED BY <3>2 DEF Parsed
  <2> QED BY <2>1, <2>2
<1>6. ASSUME NEW f \in Migrations, Asks(read[f])
      PROVE  ColumnAbsent(evidence) <=> Excluded
  BY <1>6 DEF IInv, Judged, Resting, Exact
<1>7. ASSUME NEW f \in Migrations
      PROVE  f \in reported <=>
               read[f] = "unsafe" \/ (Asks(read[f]) /\ ~Excluded)
  BY <1>6 DEF Resting, Exact
<1>8. reported # {} => \/ "unsafe" \in Found
                       \/ Asks("drop") /\ "drop" \in Found /\ ~Excluded
  <2> SUFFICES ASSUME NEW f \in reported
               PROVE  \/ "unsafe" \in Found
                      \/ Asks("drop") /\ "drop" \in Found /\ ~Excluded
    OBVIOUS
  <2>1. f \in Migrations /\ read[f] # "unread" BY DEF IInv, TypeOK, Judged
  <2>2. read[f] \in Found BY <1>3, <2>1 DEF Found
  <2> QED BY <1>7, <2>1, <2>2 DEF Asks
<1>9. ASSUME NEW c \in Found, c = "unsafe" \/ (c = "drop" /\ Asks("drop") /\ ~Excluded)
      PROVE  reported # {}
  <2>1. PICK f \in Opened(Base, Target) : Tree[Target][f] = c BY DEF Found
  <2>2. f \in Migrations /\ read[f] = c BY <1>2, <2>1
  <2> QED BY <1>7, <1>9, <2>2
<1> QED BY <1>4, <1>5, <1>8, <1>9

LEMMA ExitIsVerdict ==
    ASSUME IInv, Resting, Run, pc' = "done"
    PROVE  exit' = Verdict(baseRef, head, index)
<1>1. CASE ResolveBaseRef
  <2>1. Base = NoCommit /\ exit' = "2"
    BY <1>1 DEF ResolveBaseRef, Abort, Base
  <2> QED BY <2>1, VerdictWithoutBase
<1>2. CASE ResolveMergeBase
  <2>1. Base = NoCommit /\ exit' = "2"
    BY <1>2, SourceStands DEF ResolveMergeBase, Abort, Resting
  <2> QED BY <2>1, VerdictWithoutBase
<1>3. CASE ListTarget
  BY <1>3, SourceStands DEF ListTarget, Resting
<1>4. CASE Discover
  <2>1. base = Base /\ Base # NoCommit /\ target = Target
    BY <1>4 DEF Discover, Resting, Stands
  <2>2. Changed(Migrations, base, target) = {} /\ exit' = "0" BY <1>4 DEF Discover
  <2> QED BY <2>1, <2>2, VerdictWithoutChange
<1>5. CASE Finish
  <2>1. pc = "changeset" BY <1>5 DEF Finish
  <2>2. /\ base = Base /\ Base # NoCommit /\ target = Target
        /\ Changed(Migrations, Base, Target) # {}
    BY <2>1 DEF Resting, Stands, ReadsTarget
  <2>3. exit' = IF hasParseErrors THEN "2"
                ELSE IF \/ reported # {}
                        \/ ChangesetReports(Changed(Migrations, Base, Target),
                                            Changed(Others, Base, Target), Parsed)
                       THEN "1" ELSE "0"
    BY <1>5, <2>2 DEF Finish
  <2>4. CASE "broken" \in Found
    BY <2>1, <2>2, <2>3, <2>4, AllRead, VerdictOnFound
  <2>5. CASE "broken" \notin Found
    <3>1. ~hasParseErrors /\ Parsed = Found BY <2>1, <2>5, AllRead
    <3>2. reported # {} <=> \/ "unsafe" \in Found
                            \/ Asks("drop") /\ "drop" \in Found /\ ~Excluded
      BY <2>1, AllRead
    <3>3. Verdict(baseRef, head, index) =
            IF \/ reported # {}
               \/ ChangesetReports(Changed(Migrations, Base, Target),
                                   Changed(Others, Base, Target), Found)
              THEN "1" ELSE "0"
      BY <2>2, <2>5, <3>2, VerdictOnFound
    <3> QED BY <2>3, <3>1, <3>3
  <2> QED BY <2>4, <2>5
<1>6. ASSUME NEW f \in Migrations, Open(f) PROVE FALSE
  BY <1>6 DEF Open
<1>7. CASE EvidenceBaseRef \/ EvidenceHead \/ EvidenceTarget \/ LoopEnds
  BY <1>7 DEF EvidenceBaseRef, EvidenceHead, EvidenceTarget, Settle, LoopEnds
<1> QED BY <1>1, <1>2, <1>3, <1>4, <1>5, <1>6, <1>7 DEF Run

LEMMA QuietStep ==
    ASSUME IInv, moves = 0 => Resting, QuietVerdict, [Next]_vars
    PROVE  (moves' = 0 => Resting') /\ QuietVerdict'
<1>1. CASE Environment
  <2>1. moves \in Nat /\ moves' = moves + 1
    BY <1>1, BoundAssumption DEF IInv, TypeOK, Environment, MoveHead, MoveBaseRef, Stage
  <2>2. moves' # 0 BY <2>1
  <2> QED BY <2>2 DEF QuietVerdict
<1>2. CASE Run
  <2>1. UNCHANGED <<moves, baseRef, head, index>>
    BY <1>2 DEF Run, ResolveBaseRef, ResolveMergeBase, ListTarget, Discover, Open,
       EvidenceBaseRef, EvidenceHead, EvidenceTarget, Settle, LoopEnds, Finish, repository
  <2>2. CASE moves # 0 BY <2>1, <2>2 DEF QuietVerdict
  <2>3. CASE moves = 0
    <3>1. Resting' BY <1>2, <2>3, RestingStep
    <3>2. mode' = mode /\ enabled' = enabled
      BY <1>2 DEF Run, ResolveBaseRef, ResolveMergeBase, ListTarget, Discover, Open,
         EvidenceBaseRef, EvidenceHead, EvidenceTarget, Settle, LoopEnds, Finish
    <3>3. Verdict(baseRef, head, index)' = Verdict(baseRef, head, index)
      BY <2>1, <3>2 DEF Verdict, Asks, ChangesetReports
    <3>4. pc' = "done" => exit' = Verdict(baseRef, head, index)
      BY <1>2, <2>3, ExitIsVerdict
    <3> QED BY <3>1, <3>3, <3>4 DEF QuietVerdict
  <2> QED BY <2>2, <2>3
<1>3. CASE UNCHANGED vars
  <2>1. Resting => Resting'
    BY <1>3 DEF vars, Resting, Stands, ReadsTarget, Exact, NoFailure, Base, Target,
       Excluded, Asks, Opened, Changed
  <2>2. Verdict(baseRef, head, index)' = Verdict(baseRef, head, index)
    BY <1>3 DEF vars, Verdict, Asks, ChangesetReports
  <2> QED BY <1>3, <2>1, <2>2 DEF vars, QuietVerdict
<1> QED BY <1>1, <1>2, <1>3 DEF Next

-----------------------------------------------------------------------------

\* README `deterministic PR/CI results`: while the references stand still, the exit
\* code depends on nothing but the repository, the mode and the rules enabled.
THEOREM VerdictIsDeterministic == Spec => []QuietVerdict
<1> DEFINE AtRest == moves = 0 => Resting
<1>1. Init => IInv BY InitInvariant
<1>2. Init => AtRest /\ QuietVerdict
  BY DEF Init, AtRest, Resting, Stands, ReadsTarget, Exact, NoFailure, QuietVerdict
<1>3. IInv /\ [Next]_vars => IInv' BY StepInvariant
<1>4. IInv /\ AtRest /\ QuietVerdict /\ [Next]_vars => (AtRest /\ QuietVerdict)'
  BY QuietStep
<1> HIDE DEF AtRest
<1> QED BY <1>1, <1>2, <1>3, <1>4, PTL DEF Spec
=============================================================================
