# A verification project for zero-downtime-migrations

`zdm` reads Django, Alembic and Aerich migrations and reports the operations
that lock tables or break the application that is still running.  It executes
nothing: every verdict rests on what can be read off the *text* of a migration,
and on files and Git objects that other processes may be changing.  Each module
therefore has two sides, the program and what it speaks about (the database,
Python, PostgreSQL's lexer, the repository, the file system), and the
properties relate the two.

Paths below are relative to the repository; `src/` is its Rust source (in
`PROJECT.json` it appears as `src/src/`).

## 1. Inventory

| Part | State | Operations | Interacts with | Modelled in |
|---|---|---|---|---|
| CLI driver, `main.rs` | changed files, lazily built evidence, diagnostics, error flag | load config, diff or discover, open and check each file, changeset rules, exit code | everything | `DiffRun`, `FileScan` (partly) |
| Git access, `git/mod.rs` | a libgit2 handle with a cached index | changed files, merge base, reads at HEAD / index, snapshots | other Git processes | `DiffRun` (partly) |
| Model evidence, `model_check.rs` | two model indexes, or why there are none | list scopes, read files, `column_absence` | Git, model index | `ModelEvidence`, `DiffRun` |
| ORM model index, `models/mod.rs` | classes, aliases, globals, unknowns; resolved tables | read statements, expand expressions, resolve classes, `column_absence` | model evidence | `ModelSources`, `ModelResolution`, `ModelEvidence` |
| Rule registry, `rules/mod.rs` | diagnostics of one file | both passes of every rule, suppression, strictness | rules, config | `Registry` |
| Created tables, `rules/mod.rs` | `CreatedModels` | `walk_with_created_models` | R001, R002, R006, R010, R016-R019 | `CreatedModels`, `FreshTables` |
| Rules, `rules/r*.rs` | R017 keeps two sets, the others none | `check` | registry, evidence | `Registry`, `ConstraintValidation`, `SqlText`, `DiffRun` |
| Alembic extraction, `ast/alembic.rs` | context bindings, autocommit nesting | walk over `upgrade()`, `op.*` calls | registry | `AlembicCalls`, `ScriptExtraction` (partly) |
| Aerich extraction, `ast/aerich.rs` | visited helpers | SQL statements, helpers | registry | `AerichStatements`, `ScriptExtraction` (partly) |
| Django extraction, `ast/extractor.rs`, `parser.rs` | module bindings | list of operations, SQL, both arms of a wrapper | registry | `DjangoCalls`, `DjangoExtraction` (partly) |
| SQL text, `ast/operations.rs` | position in the text | noise removal, statements, words | R003, R004, R013 | `SqlText` (partly) |
| Configuration, `config/mod.rs` | `Config` | search upwards, merge, overrides | driver | `FileScan` (partly) |
| Discovery, `discovery.rs` | paths found | explicit paths, walk | driver | `FileScan` (partly) |
| Bounded read, `file_io.rs` | one handle | inspect, open, inspect again, read | other writers | `FileScan` |
| Diagnostics, errors, packaging | plain data | | | not modelled |

The program is one sequential thread.  What makes it hard:

* **Agreement with a world it does not see.**  The created set, R017's pending
  constraints, the context bindings, the module bindings and the model index
  are summaries of what something else would do when it runs the same text.
  Long legal sequences are what breaks such an agreement, and no test is long.
* **Interleaving.**  References, files and directories are read several times
  in one run, while other processes write them.
* **Partial failure and limits.**  One unreadable file, an expression at the
  depth limit: the run goes on, and what was cut off must not count as absent.

What makes each part correct is stated with its run in section 3; the hazards
are listed line by line in `PROJECT.json`.

## 2. Modules

    FreshTables <--- CreatedModelsRefinement ---> CreatedModels     CreatedModelsProofs
    ConstraintValidation                                            ConstraintValidationProofs
    DiffRun                                                         DiffRunProofs
    ModelSources <- ModelResolution <- ModelEvidence
    Registry                                                        RegistryProofs
    SqlText                                                         SqlTextProofs
    MigrationOperations <- AlembicCalls, AerichStatements <- ScriptExtraction ScriptExtractionProofs
    DjangoCalls <- DjangoExtraction                                 DjangoExtractionProofs
    FileScan                                                        FileScanProofs

`MC*` modules are the instances for TLC.  Every state module reads its input
one item at a time and chooses the item when it is read, so that inputs of
every length are covered wherever the state does not grow with them.

### CreatedModels, FreshTables

`names` and `sqlTables` are the two fields of the Rust value.  One action is
one operation: the rule's question (`exempt`) and the update of the set, in the
order of the code, that is, creates and renames before the rules see the
operation, drops and raw SQL after.  `database` maps every real table to
absent, existing or new, `target` is the status of the table the last operation
ran on.  `FreshTables` is the promise: a set of tables that are certainly new
and an answer for each statement; `CreatedModelsRefinement` maps the walk's
identities to it.

The walk cannot know whether a conditional rename ran, that `t` and `public.t`
are one table, the letter case of a quoted name, what Django's `RunSQL` or SQL
that is no literal does to a created table (`RunSql`, `RunUnread`), which table a
call drops whose schema is a variable (`AlterUnknownTable`), or that a model was
forgotten in Django's state alone.  Each is a step of the module.  `Features`
says which of these a migration may use and `blind` records which have changed
something the walk does not follow; the safety properties are claimed while
`blind` is empty (section 4).

### ConstraintValidation

`pending` and `sameCall` are `pending_validation` and `same_call_pending`;
`open` is the set of `NOT VALID` constraints of the database's transaction.
Actions: entering and leaving an `autocommit_block`, a check constraint by
`op.create_check_constraint`, beginning and ending an `op.execute` call, and
each kind of statement the rule tells apart, and those it does not
(`ROLLBACK TO SAVEPOINT`, `END`, `BEGIN`).

### DiffRun

Every read of a reference is an action: the base reference and HEAD in
`merge_base_tree`, HEAD in `changed_files_for_source`, HEAD for each file, and
base reference, HEAD, HEAD again in `ModelEvidence::from_git`, which runs when
the first dropped column asks.  Between any two, `MoveHead`, `MoveBaseRef` and
`Stage` may change the repository.  The index is read once: libgit2 keeps it in
the handle.  Commits, trees, merge bases and what the models say are constants.
`Verdict` is the definition a run is compared with: what should be said of a
repository that stands still, written from the diff and the rules without the
loop.

### ModelSources, ModelResolution, ModelEvidence

One snapshot.  `ListDirectory`, `Collected` and `NextFile` collect the files of
the configured scopes with their limits; `ReadStatement` performs
`Sources::read` on one statement: imports, wildcards, assignments, functions,
classes, what is not supported.  `Symbol` and `Expand` follow names with the
depth and work limits, `Resolve` and its helpers in `ModelResolution` fold the
bases of a class, and `Answer` is `column_absence`.

The other side is what Python and the ORM would make of the statements: `bound`
and `defs` keep every binding and every class the interpreter may make, and
`Denotes`, `Values`, `Maps` and `MayMap` follow *all* of them, without limits
and without stopping at the last one.

### Registry

The operations of a file stand in one sequence in source order, as the iterator
of `database_effective_operations` meets them; a wrapper's field `inner` says how
many of those after it are inside it.  `Enter`, `Leave` and `Visit` walk them,
with a stack of the lists being visited; R005 goes past the wrappers instead.
`LeaveOut` passes over a rule that is switched off, `EndRule` ends one rule's
walk and silences its reports, `EndPass` goes from upgrade to downgrade.  Every
rule is an operator on one operation (`R001` ...
`R019`).  The other side, `Harm`, says from PostgreSQL's and Django's point of
view which harm an operation does to a table in use, from the sequence of
operations alone: it knows neither rules nor the created set.  `EmptyAt` follows
the tables that are new, as the database would.

Three assumptions say what the extraction makes of a file: wrappers nest and
spans have lines (`ListsAssumption`); only Django has `unique_together` and
relations without a constraint, and only the others have `NOT VALID`
(`OperationsAssumption`); and the operations that create, rename or drop a table
name it, and the database lets none take the name of a table that is there
(`DatabaseAssumption`).  TLC evaluates them for its instance.

### SqlText

The two passes of the code (`strip` takes out comments and strings; `cut` and
`token` split what is left) and the single pass of PostgreSQL's lexer (`lexer`)
advance together, one symbol of the script at a time.  A peek at the next
character is a mode that waits for it; the symbol held back is fed on with the
next one.  The result is compared through `found` and `actual`, the index
statements each side has seen.

### AlembicCalls, AerichStatements, ScriptExtraction

`AlembicCalls` has, for every supported `op.*` call, `ExtractOperation` (by
place, by keyword, with comments and `**options` in the list as the parser
counts them), and `Meaning`, what Alembic does once Python has bound the
arguments.  `AerichStatements` has the word patterns and the identifier parser
on one side and a grammar that produces the statements on the other.

`ScriptExtraction` walks over `upgrade()`: blocks that may not run
(`EnterBlock`), `with` blocks of every kind of context (`EnterWith`), the
assignments to the context's name that the walk sees (`Bind`) and the many ways
to bind it that it does not (`BindOtherwise`, which `unseen` remembers), calls
and statements, and Aerich's local function with its callers (`CallHelper`,
`FollowHelper`).  Beside it a run takes or skips every branch, fails at a
statement or not, creates, renames and drops tables and keeps `database`; raw
SQL may leave it in any state.  `misled` says whether the run has done to an
exempt table what the walk cannot see (`Misleads`).

### DjangoCalls, DjangoExtraction

The module's assignments (`Assign`), everything else that may change a name
(`AssignElsewhere`), the class, and each element of `operations`, chosen when it
is read.  `Extract` is what `extract_operation` makes of one call; `Means`,
`Executes` and `Parameter` are what Python and Django make of it.  An element is
walked by both in lockstep (`Step`): the iterator over the effective operations
puts what a `SeparateDatabaseAndState` wraps in its place (`Wrapped`, in `todo`),
Django runs the same wrapper's list (`Runs`, in `pending`), and `direct` says
whether everything so far was written out, so that the two can be compared.  The
walk goes to any depth without recursion over the tree.

Strings are sequences of pieces (a statement, `;`, a comment mark, a line end, an
interpolation), just enough for their concatenation and splitting to go wrong.
`Nodes` are the expressions of the file, those inside others among them, `Spelled`
those that mention no name; that the parser made them and Python accepts the calls
among them is `FileAssumption`, that those of `Spelled` name nothing is
`SpelledAssumption`.  TLC evaluates both for the instance.

### FileScan

The search for the configuration upwards from the working directory, its
merging with the command line, discovery of the paths, and for each file
`Inspect`, `Open`, `Metadata`, `Read`: a system call each.  `Replace` and
`Append1` are other processes: they put another object at the path, or let the
file grow while it is open.  What lies at a level of the directory tree is
chosen when it is looked at, which is once.

## 3. Runs

| Run | Asks | Instance | States |
|---|---|---|---|
| `created_models` | is anything exempted that was not created here, and does the walk implement `FreshTables`? | three names, two of them differing in case, one schema, all constructs of `Blindness` | 278,559 |
| `constraint_validation` | is R017's idea of the open transaction the database's? | two spellings of a table, a second table, one constraint name, all constructs | 187,792 |
| `diff_run` | is the exit code the verdict on the repository, and what may a moving repository change? | eight commits, two migrations, both modes, three rule selections, one update | 1,060,233 |
| `model_evidence` | is absence answered only when nothing maps the column, and always when it should be? | two modules, up to four statements, seven configurations, four snapshots | 164,009 |
| `registry` | is every harmful operation reported or silenced, and nothing else? | some 1,900 migrations, two configurations | 309,467 |
| `sql_text` | do the raw SQL rules see PostgreSQL's statements? | all keywords and marks, one name, scripts of every length | 248,128 |
| `script_extraction` | what may be exempt, count as autocommit, carry an identity, be dropped? | Alembic and Aerich, three tables in two schemas, two nested blocks, one context name, helpers of up to two statements | 55,715 |
| `django_extraction` | are SQL, arguments and arms what Python and Django make of them? | two names, seven values, some 4,300 elements | 94,065 |
| `file_scan` | which configuration, which files, which bytes? | a directory three levels deep, two files, four command lines, two writes | 205,587 |
| `alembic_places`, `aerich_actions`, `django_sequence_boundary` | claims of the README and of a comment | violations, section 4 | |

What the properties say beyond types:

* `CreatedAreNew`, `ExemptionSound`: members of the created set are tables this
  migration created, so an exempt operation meets no table in use.
  `ImplementsFreshTables` adds the other direction: a fresh table is exempt
  until something may have happened to it.  All three speak of a migration up to
  the first construct of `Blindness` that it uses; the refinement, of every step
  after which none has been met.
* `TracksOpenTransaction`, `ValidationSound`, `ValidationPrecise`: the two sets
  are the constraints of the open transaction; a `VALIDATE` is reported exactly
  when its addition has not committed.
* `QuietVerdict`: without other processes, the exit code is `Verdict`.
  `NothingSkipped`, `OneEvidence`, `DropsAuthorised`, `StagedReadsOneTree`: with
  them, no listed migration is passed over, all drops of a column are judged
  alike and only with absence established at commits the run met, and a staged
  run keeps to one tree.  `Terminates`: it ends, whatever they do.
* `AbsenceSound`, `EvidenceFromModel`, `NothingUncovered`: the answer "absent"
  needs a model of the right provider for the table, and excludes every class
  any evaluation of the files might map there; `AbsencePrecise`: it is given
  within the subset the README documents, so soundness is not bought by silence.
* `HazardsReported`, `ReportsJustified`: the sixteen rules together against
  `Harm`, in both directions, through wrappers, renames, downgrades and
  comments.
* `StatementsSeen`: both lexers find the same index statements, wherever the
  script is cut off.
* `ExemptOnlyFresh`: whatever branches a run takes and whichever calls fail, an
  exempt operation that runs finds no table that was there before, as long as
  nothing has misled the walk.  `AutocommitSound`: what counts as inside an
  autocommit block is, whatever `name = value` assigned to the context's name;
  blocks opened by a name that was bound in another way are not judged.
  `SupportedSeen`: no call loses an operation that has neither a comment among
  its arguments nor `**options` in the place of one, and no statement of one
  action does.  `IdentityExact`: an operation names a table only if it is that
  table.
* `SqlExact`, `CallsUnderstood`, `ArmsJudged`: statements, arguments and
  wrapper arms are read as they execute, or count as unknown.  SQL is compared
  where it stands in place or in a name that only direct assignments have bound.
  It counts as reversible only if what is given to undo it is not `None`, and it
  does if that is `noop` or SQL that is written out.
* `ConfigInBounds`, `NearestConfig`, `QuietMeansChecked`, `ReadSound`: no
  configuration from outside the trusted repository, none above the nearest;
  exit codes 0 and 1 only after every file in scope that nobody wrote was
  judged; never part of a file, never anything but a regular one.

### Bounds

Nothing is counted in `CreatedModels`, `ConstraintValidation`, `SqlText`,
`ScriptExtraction` and `DjangoExtraction`: their state is finite once the names
are, so TLC sees inputs of any length.  Three names give a created table, an
old one and a rename target; one more spelling gives an alias.  Tables of the
same name in two schemas are left to the theorems of `CreatedModels`.

`script_extraction` has the constraint `Followed`: TLC does not go on from a
state in which the run has misled the walk, of which `ExemptOnlyFresh` claims
nothing and on which the other properties do not bear; nor from one in which
names have been bound *and* tables created, as neither reads the other; nor from
one two blocks deep in which tables have been created.  The invariants are
evaluated in these states too, and the theorems have no such bound.

`MaxDepth = 2` blocks are enough for a block's flags to be inherited and to end; of what lies
outside, a block knows its parent's flags only.  Statements whose reading does
not depend on the walk (`ReadCall`, `ReadStatement`, `ReadAlone`) are read in
one context.

`DiffRun`: `MaxMoves = 1` separates any two reads; two migrations are the least
for which evidence can be asked for twice.  `FileScan`: `MaxWrites = 2` lets a
file be replaced and then grow, `Max = 1` has sizes below, at and above the
limit, three levels have a boundary below, at and above a configuration.
`ModelEvidence`: limits of 3 to 12 in place of 32 to 10,000 are met by
four statements, which is what the limits need to be exceeded and kept;
four statements make an import, a base, a class and a second binding of a name.
`Registry` has no unbounded state; its migrations put every kind of operation,
bare and wrapped, behind each way for a table to be created, renamed or lost.

`CHECK_DEADLOCK FALSE` stands where the system stops: a diff run and a scan end
(`DiffRun`, `FileScan`), and so does a script inside a local function that a
failing statement ends (`ScriptExtraction`).

### Fairness

`DiffRun` and `FileScan` assume weak fairness of the run's own steps: the
process is one thread whose loops are over finite lists, and takes its next step
as long as it has one.  Nothing is assumed of other processes.  `Terminates` of
`FileScan` is checked with `NewTypes` without pipes: a pipe put in a file's
place between inspection and open keeps the run waiting for a writer (the
comment at `file_io.rs:17-20` does not exclude it; `Open` has it as a guard).
The other modules have no liveness property: walks over finite lists end.

## 4. Where the code and its documentation part

Three runs end in a violation; `PROJECT.json` quotes the lines.

* `alembic_places`: a comment before or between the arguments of an `op.*` call
  takes an argument's place (`ast/alembic.rs:533`), and so does `**options` in
  `op.add_column("t", column=c, **options)`; the call becomes no operation.
  Python never sees the comment, and gives the column by its keyword.
* `aerich_actions`: an `ALTER TABLE` of two actions becomes the operation of the
  first word pattern that fits (`ast/aerich.rs:416-599`); the other action is not
  judged, although the README says that column and constraint statements are.
* `django_sequence_boundary`: an element of a `RunSQL` sequence that ends in a
  line comment hides the `;` it is joined with (`ast/extractor.rs:794`), so that
  two statements become one; the comment above promises the boundary.

Further limits of the analysis, which the modules make explicit and the
properties exclude by name:

* *Created tables* (`Blindness`): a conditional `rename_table` moves the
  exemption to a table that may be old (`rules/mod.rs:201`); a table dropped as
  `public.t` stays exempt as `t` (`:125`); raw `ALTER TABLE "Orders"` is exempt
  because `orders` was created (`:140`); Django's `RunSQL`, `RunPython` and
  operations of the project's own keep every exemption, whatever they drop or
  rename (`raw_sql`, `:231`); so do `op.execute(variable)`, a table name that is
  no literal and the second table of a `DROP TABLE` (`unread_sql`), and a drop or
  rename with `schema=VARIABLE` or `**options` (`unknown_table`,
  `alembic.rs:503`); a model deleted in a state-only arm stays exempt.
* *Created tables in a run* (`Misleads`): the same in `ScriptExtraction`, where the run
  says what happened: an exempt rename that it does not carry out, because a
  branch is not taken or the call fails in a `try`, and a change of an exempt
  table by a call or statement that tells the walk nothing of it, the second
  time the local function is called among them.
* *R017* (`Blindness`): `ROLLBACK TO SAVEPOINT` counts as `ROLLBACK` (`r017:66`),
  an `autocommit_block` under a condition as one that runs (`alembic.rs:88`),
  `BEGIN` inside such a block and `END` for `COMMIT` are not told, a schema
  spelled out in one place only makes two tables.
* *Diff runs*: evidence may be of other commits than the diff (`main.rs:723`),
  and every file is read at HEAD as it is then (`git/mod.rs:236`).  Both need
  another process at work; `QuietVerdict` is claimed without one, and
  `DropsAuthorised` says what remains.
* *Model tables* (`OrderDecides`): of several bases that give a table or schema
  the last one wins (`models/mod.rs:1029`), in Python the first.
* *Django names* (`unclear`): `SQL += ...`, an assignment in a branch or in the
  class body changes a name the extractor still takes for its last direct
  assignment (`extractor.rs:142-144`); so does a direct assignment whose value
  mentions other names, which are read when the name is used.
* *Django arguments*: a `reverse_sql` that a call returns counts as none; an f-string is an empty text to the extractor, within a
  concatenation too; a sequence of nothing but comments is compared with the text
  of an empty one (`Plain`).  An element of a SQL sequence that ends in a line
  comment hides the one joined to it (`CommentsClosed`).
* *Alembic bindings* (`unseen`): a name that held the context and is bound by a
  tuple or a chain of targets, `for`, `with ... as`, `:=`, `import`, `def` or `del`
  still counts as the context (`alembic.rs:180-203`).
* *Alembic calls*: calls in the arguments of other calls are not seen; the first
  `def upgrade` counts, in Python the last; `downgrade()` is judged by the bindings
  of `upgrade()` (`alembic.rs:154`).
* *Registry* (`ColumnIndex`): an `AlterField` that makes a plain column a foreign key
  has Django build an index and add a constraint; R006 looks at `AddField` only,
  R018 at `db_index` and `unique`.
* *Aerich*: `DROP c` and `ALTER c` without `COLUMN`, and `ADD UNIQUE` without
  `CONSTRAINT`, stay raw; an `ALTER TABLE` of several actions has no identity;
  `ONLY` is taken for the table's name.  `SupportedSeen` asks of two actions only
  that a dropped column is seen where it comes first.

## 5. Proofs

Eight proof modules, thirty-four listed theorems.  `TypeCorrect` is proved of each
of the eight state modules they are about; the others are these.

| Theorem | For every value of the constants |
|---|---|
| `CreatedModelsProofs!ExemptionIsSound` | `CreatedAreNew` and `ExemptionSound` |
| `CreatedModelsProofs!CreatedStayNew` | `CreatedAreNew` |
| `CreatedModelsProofs!WalkImplementsFreshTables` | `ImplementsFreshTables`, the refinement up to the first construct of `Blindness` (`PlainWalkIsFresh`: as a whole without them) |
| `ConstraintValidationProofs!ValidationIsSound` | `TracksOpenTransaction` and `ValidationSound` |
| `ConstraintValidationProofs!SetsTrackTransaction` | `TracksOpenTransaction` |
| `ConstraintValidationProofs!ValidationIsPrecise` | `ValidationPrecise` |
| `DiffRunProofs!NothingIsSkipped` | `NothingSkipped` |
| `DiffRunProofs!EvidenceIsOne` | `OneEvidence` |
| `DiffRunProofs!StagedRunsAreOneTree` | `StagedReadsOneTree` |
| `DiffRunProofs!DropsAreAuthorised` | `DropsAuthorised` |
| `DiffRunProofs!VerdictIsDeterministic` | `QuietVerdict` |
| `RegistryProofs!NothingSlips` | `HazardsReported` |
| `RegistryProofs!NothingUnjustified` | `ReportsJustified` |
| `SqlTextProofs!EveryStatementSeen` | `StatementsSeen` |
| `ScriptExtractionProofs!ExemptIsFresh` | `ExemptOnlyFresh` |
| `ScriptExtractionProofs!AutocommitIsSound` | `AutocommitSound` |
| `ScriptExtractionProofs!IdentityIsExact` | `IdentityExact` |
| `ScriptExtractionProofs!CallIdentityIsExact` | its half about calls, of any well-formed call |
| `ScriptExtractionProofs!SupportedCallsSeen` | `SupportedSeen`, of Alembic revisions without comments among arguments and `**options` in their place |
| `DjangoExtractionProofs!SqlIsExact` | `SqlExact` |
| `DjangoExtractionProofs!CallsAreUnderstood` | `CallsUnderstood` |
| `DjangoExtractionProofs!ArmsAreJudged` | `ArmsJudged` |
| `FileScanProofs!OnlyWholeFilesJudged` | `ReadSound` |
| `FileScanProofs!ConfigWithinBounds` | `ConfigInBounds` |
| `FileScanProofs!ConfigIsNearest` | `NearestConfig` |
| `FileScanProofs!VerdictMeansChecked` | `QuietMeansChecked` |

*Created tables.*  `ExemptionSound` speaks of the last operation only;
`CreatedAreNew` makes it inductive.  It survives a rename because, while `blind`
is empty, no two members stand for one table (`ResolveInjective`,
`ModelTableInjective`, where `Lower` idempotent is used).  Assumptions: `Lower`
maps names to names and is idempotent, the default schema is a schema, "no
schema" and "no table" are not one.  For the refinement, `FreshImage` maps the walk's
identities to the abstract fresh tables: every action of the walk is one action
of `FreshTables` or a stutter, as long as no construct of `Blindness` has been
met: `Elsewhere` is the abstract step of what the walk does not read and no
fresh table feels.

*R017.*  `TracksOpenTransaction` is inductive with `TypeOK`: while `blind` is
empty, `open` is the image of the two sets.  Soundness and precision are read
off `Validate`.

*Diff run.*  `IInv` adds to the properties: before the list is known nothing is
opened (`Fresh`); a listed path waits or has been opened, never both
(`Progress`); every failure is remembered (`FailuresKept`); the paths on which
R005 decided are those reported unless the evidence showed absence
(`Judged`).  `StagedTree` says that the handle's index is the tree listed once it
has been opened; `Held` that every commit the run remembers belongs to a moment
of the repository, `Authorised` that absence on either side is the models' word
on such a commit.  For the verdict, `Resting` ties each variable of a run to the
repository as long as nothing has moved: what was resolved still stands
(`Stands`), what was opened is what the target holds (`ReadsTarget`), what is
reported follows from it (`Exact`); `AllRead` then turns the run's sets at the
end of the loop into those of `Verdict`.  Assumptions: merge bases, trees and
models are functions over the commits.

*SQL text.*  The two passes of the code and PostgreSQL's one are in step:
`InStep` says which mode of the first pass corresponds to which mode of the
lexer, `CutInStep` that the second pass is inside a quoted identifier exactly
when the first is, `TokenOpen` that a word is open only where none can follow
it, `Alike` that what both know of the statements so far is equal.  One step for
each mode of the first pass shows that a symbol preserves them.  Assumption: a
name is no keyword and no mark.

*Registry.*  `Catches` says that a rule fires for an operation whatever part of
the empty tables is known to be created, `Covered` that it has reported it or is
silenced there.  The invariant ties the stack to the position in the sequence
(`Nested`, `At`, `Cursor`), what the walk knows to be created to what is empty at
that position (`CreatedOK`: never more, and nothing less until raw SQL runs), and
what has been found to what is caught before that position (`FoundOK`).
`DiagnosticsOK` collects it rule by rule and pass by pass.  Two facts about the
rules do the rest, with no state in them: what harms is caught
(`AnyHarmIsReported`, `TableHarmIsReported`), and what fires harms
(`ReportIsHarm`).  Tables are followed along a sequence of any length by induction
(`EmptyStepwise`, `EmptyHaveNames`).  Assumptions: those of section 2.

*Script extraction.*  `BlocksOK` is about the open blocks: what counts as
autocommit is one, and nothing unconditional stands inside something conditional.
`BindingsOK` says that a name that counts as bound holds the context, unless the
statement being read may have assigned it or something that is no `name = value`
has bound it since (`unseen`); `TablesOK` that nothing exempt was there before the
run unless it has misled the walk; `HelperOK` carries that over a local function,
of which the run may be anywhere.  `RunsStep` and `CallStep` show that one
statement keeps both, with `StepTables` for what it does to the tables and
`ExemptedIsFresh` for what the rules are told of it; a rename moves the table and
the member alike (`RenameMoves`).  `IdentityExact` and `SupportedSeen` have no state in them:
they follow from what a call or statement becomes.  `PlacesOfValues` and
`ValueGiven` show that the value the code looks for by place, then by keyword, is
the one Python binds; `CallIsAbout` and `CallSeen` go through the functions of
Alembic with that.  `DropTargetIs` shows that `model_drop_target` finds a column
only where the grammar of `ALTER TABLE` has the single action that drops it, and
takes the table from its name.  The statements' half of `SupportedSeen` is not
proved: nine word patterns search the tokens of a statement for each action, and
what each action means is a list of examples.  Assumptions: Python accepts the
calls, which have no comments in them, and there are tables they may be about
(`CallsAssumption`; the two theorems ask the first two of `CallReadings` too, by a
hypothesis, and `SupportedCallsSeen` asks of all calls that no `**options` stands
in the place of a parameter (`OptionsInPlace`), as `alembic_places` reads the
others); a table is a schema and a name (`TablesAssumption`); `kind` and `table` of a statement are
what its tokens say (`StatementsAssumption`); a statement to be read that alters a
table is of PostgreSQL's grammar (`ReadingsAssumption`), its actions being anything;
a helper is a list of statements.  TLC evaluates all of them for the instance.

*Django extraction.*  `TypeOK` says that a name which is not `unclear` holds what
the extractor recorded for it.  `NamesOK` adds that bindings and names hold
expressions of the file, `WalkOK` that what waits to be seen and to be run are such
expressions, and that both are the same as long as the element is `direct`; a step
keeps it because then the list the code takes for a wrapper's is the one the name
holds (`WrappedRuns`).  The rest has no state in it.  `Binding` and
`ParametersBound`: for every call Python accepts, what the code looks for by
keyword or by place, past comments and other keywords, is what Python binds to that
parameter.  `JoinAdds`: what adds up over two joined
texts adds up over any number of them, by induction over the texts; with it
`JoinedTexts` shows that the statements of texts joined by `;` and a line end are
those of each.  Two facts carry that: a text that stands in another keeps its
statements if none of them crosses its ends (`StandsApart`; a line end closes every
comment, the semicolon every statement), and trailing semicolons hold none
(`TrimKeeps`).  Assumptions: `FileAssumption` and `SpelledAssumption`, section 2.

*File scan.*  `Searched` describes the search exactly: at each phase, which
levels have been read, which boundaries seen, and what that says of the nearest
repository.  `Holding` keeps the handle that passed the second inspection
regular.  `Covered` follows each file that nobody wrote, from the argument that
covers it through the walk and the queue to the verdict, unless the run failed.
Assumptions: the bounds are numbers, argument lists are lists, types are types.

Only model-checked: liveness (it needs fairness and `ENABLED`); `SupportedSeen` of
Aerich's statements; and everything about `ModelEvidence`, whose definitions
recurse over expressions (`RECURSIVE`, which the prover does not take).  The library's induction theorems take an operator as a parameter, which
the installed provers cannot instantiate.  Where a number counts the steps, an
induction over a set of numbers replaces them (`Induction`, which each of
`RegistryProofs`, `ScriptExtractionProofs` and `DjangoExtractionProofs` derives
from the least element of a set); for trees of expressions there is no such set,
and `DjangoExtraction` avoids them with a walk in steps.

## 6. Not modelled

* Wording, output formats, sorting of the report, packaging.
* Command line: the scopes of a diff run (`main.rs:539-627`, path arithmetic over
  names the file system resolves), `--list-rules`, `rule`.
* Configuration: glob syntax, the paths of locations and of model sources; an
  invalid file stands for what they may go wrong with.  `select` and `ignore` are
  merged and validated; their effect is `config.enabled` in `Registry`.
* Git: validation of paths, index conflicts.
* SQL text: backslash escapes of `E''`, dollar quotes, nested comments, a quoted
  identifier spelled `CONCURRENTLY` (`Allowed`); the code documents the first
  three as gaps.
* Django: imports (R014 is given a set), the syntax of suppressing comments,
  detection of `atomic = False`, strings in parentheses, what a name for a model's
  name holds.
* Alembic: columns of `create_table`, the text of `execute` (that is
  `ConstraintValidation` and `SqlText`).
* Aerich: `RUN_IN_TRANSACTION`, the flag of scripts of several statements,
  helpers that call helpers, comments among the arguments of `execute_statement`.
* R008's and R009's messages, and the patterns of R008 (`Others` is given).

## 7. Running

    tlc -config diff_run.cfg MCDiffRun.tla
    tlc -config created_models.cfg MCCreatedModels.tla
    tlapm FileScanProofs.tla

and so for the other configurations and proof modules; `PROJECT.json` names the
module of each run.
