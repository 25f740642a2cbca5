------------------------------ MODULE Registry ------------------------------
(***************************************************************************)
(* RuleRegistry::check of src/rules/mod.rs: every enabled rule over the    *)
(* database-effective operations of a migration, upgrade and downgrade     *)
(* separately, its reports silenced by the comments of the file -- beside  *)
(* what the operations do to a database in use.                            *)
(*                                                                         *)
(* The operations of a file stand in one sequence, in source order: those  *)
(* a SeparateDatabaseAndState runs on the database come after it, and its  *)
(* field inner says how many they are, theirs included.                    *)
(*                                                                         *)
(* A table is an opaque name here: CreatedModels looks into how the set of *)
(* created tables identifies them, ConstraintValidation into R017's SQL.   *)
(***************************************************************************)
EXTENDS Naturals, Sequences, SequencesExt

CONSTANTS
    Migrations,   \* candidate migrations
    Configs       \* candidate configurations: [enabled, strict, absent]

NoName == "none"

VARIABLES
    migration, config,
    pass,         \* "upgrade", "downgrade", "done"
    todo,         \* the rules still to run in this pass
    stack,        \* the walk: the lists being visited, innermost last: [at, last]
    created,      \* tables the walk has seen created
    found,        \* the reports of the rule that is running
    diagnostics   \* the reports that were not silenced

vars == <<migration, config, pass, todo, stack, created, found, diagnostics>>

RuleIds == <<"R001", "R002", "R003", "R004", "R005", "R006", "R010", "R011", "R012", "R013", "R014",
             "R015", "R016", "R017", "R018", "R019">>
Operations(p) == IF p = "upgrade" THEN migration.operations ELSE migration.downgrade
SqlFramework == migration.framework \in {"alembic", "aerich"}
Enabled(id) == id \in config.enabled
Rule == Head(todo)

-----------------------------------------------------------------------------
(* One operation, as the rules see it.                                     *)

IsConcurrent(op) == op.type \in {"AddIndexConcurrently", "RemoveIndexConcurrently"}
IsSql(op) == op.type \in {"RunSQL", "ExecuteSql"}

\* Statements are records [verb, concurrently].
CreatesIndex(s) == s.verb = "CREATE INDEX"
RequiresNonAtomic(op) ==
    \/ IsConcurrent(op)
    \/ IsSql(op) /\ \E s \in op.sql : s.concurrently /\ s.verb \in {"CREATE INDEX", "DROP INDEX", "REINDEX"}

\* c: the tables known to be created.
CreatedHere(op, c) == op.table # NoName /\ op.table \in c

R001(op, c) == op.type = "AddIndex" /\ ~CreatedHere(op, c)
R002(op, c) == op.type = "AddConstraint" /\ op.constraint = "unique" /\ ~CreatedHere(op, c)
R003(op, c) == IsSql(op) /\ \E s \in op.sql : CreatesIndex(s) /\ ~s.concurrently
R004(op, c) ==
    /\ RequiresNonAtomic(op)
    /\ CASE migration.framework = "aerich" -> ~migration.nonAtomic \/ op.autocommit
         [] migration.framework = "alembic" -> ~op.autocommit
         [] OTHER -> ~migration.nonAtomic
R005(op, c) == op.type = "RemoveField" /\ ~(SqlFramework /\ op.table # NoName /\ config.absent)
R006(op, c) ==
    /\ op.type = "AddField" /\ "relation" \in op.field
    /\ ~(/\ {"foreign key", "no index"} \subseteq op.field
         /\ {"constraint", "unique"} \cap op.field = {})
    /\ ~CreatedHere(op, c)
R010(op, c) ==
    /\ op.type = "AddField" /\ {"nullable", "default", "db default"} \cap op.field = {}
    /\ ~CreatedHere(op, c)
R011(op, c) == op.type = "RenameField"
R012(op, c) == op.type = "RunPython" /\ ~op.reversible
R013(op, c) == op.type = "RunSQL" /\ ~op.reversible
R015(op, c) == op.type = "AlterField" /\ ("nullable" \notin op.field \/ "type" \in op.field)
R016(op, c) == op.type = "RemoveIndex" /\ ~CreatedHere(op, c)
R017(op, c) ==
    /\ op.type = "AddConstraint" /\ op.constraint \in {"check", "foreign key", "exclusion"}
    /\ ~(SqlFramework /\ op.notValid /\ op.constraint \in {"check", "foreign key"})
    /\ ~CreatedHere(op, c)
R018(op, c) ==
    /\ migration.framework = "django" /\ ~CreatedHere(op, c)
    /\ \/ op.type \in {"AddField", "AlterField"} /\ {"index", "unique"} \cap op.field # {}
       \/ op.type \in {"AlterUniqueTogether", "AlterIndexTogether"} /\ op.adds
R019(op, c) == op.type \in {"RenameModel", "AlterModelTable", "DeleteModel"} /\ ~CreatedHere(op, c)

Fires(id, op, c) ==
    CASE id = "R001" -> R001(op, c) [] id = "R002" -> R002(op, c) [] id = "R003" -> R003(op, c)
      [] id = "R004" -> R004(op, c) [] id = "R005" -> R005(op, c) [] id = "R006" -> R006(op, c)
      [] id = "R010" -> R010(op, c) [] id = "R011" -> R011(op, c) [] id = "R012" -> R012(op, c)
      [] id = "R013" -> R013(op, c) [] id = "R015" -> R015(op, c) [] id = "R016" -> R016(op, c)
      [] id = "R017" -> R017(op, c) [] id = "R018" -> R018(op, c) [] id = "R019" -> R019(op, c)
      [] OTHER -> FALSE

Severity(id, op) ==
    IF id \in {"R012", "R013", "R015"} \/ (id = "R018" /\ op.type = "AlterField") THEN "warning" ELSE "error"

\* R004 of a Django migration stands at the class, the others at the operation.
SpanOf(id, op) == IF id = "R004" /\ migration.framework = "django" THEN migration.class ELSE op.span

Report(id, op, c) ==
    IF Fires(id, op, c) THEN {[rule |-> id, span |-> SpanOf(id, op), severity |-> Severity(id, op)]} ELSE {}

-----------------------------------------------------------------------------
(* The walk.                                                               *)

\* What is known to be created when the operation is checked, and after it.
Before(op, c) ==
    CASE op.type = "CreateModel" /\ op.table # NoName -> c \cup {op.table}
      [] op.type = "RenameModel" /\ op.table # NoName /\ op.old \in c -> (c \ {op.old}) \cup {op.table}
      [] OTHER -> c
After(op, c) ==
    CASE op.type = "DeleteModel" -> c \ {op.table}
      [] op.type = "ExecuteSql" /\ SqlFramework -> {}
      [] OTHER -> c

Frame(first, last) == [at |-> first, last |-> last]
Whole(p) == Frame(1, Len(Operations(p)))

\* Mutant: one walk for all rules and both passes.
StartRuleKeepingCreated(p) == stack' = <<Whole(p)>> /\ UNCHANGED created
StartRule(p) == stack' = <<Whole(p)>> /\ created' = {}

Init ==
    /\ migration \in Migrations /\ config \in Configs
    /\ pass = "upgrade" /\ todo = RuleIds
    /\ stack = <<Whole("upgrade")>> /\ created = {}
    /\ found = {} /\ diagnostics = {}

Running == pass # "done" /\ todo # <<>> /\ Enabled(Rule)
Level == Len(stack)
Here == stack[Level]
Op == Operations(pass)[Here.at]
Advanced == [stack EXCEPT ![Level].at = @ + 1 + Op.inner]
AtOperation == Running /\ stack # <<>> /\ Here.at <= Here.last

\* Mutant: R005 looks into the wrappers.
EnterAlways ==
    /\ AtOperation /\ Op.type = "SeparateDatabaseAndState"
    /\ stack' = Append(Advanced, Frame(Here.at + 1, Here.at + Op.inner))
    /\ UNCHANGED <<migration, config, pass, todo, created, found, diagnostics>>

\* The operations a SeparateDatabaseAndState runs on the database take its
\* place; R005 looks at the top level only.
Enter ==
    /\ AtOperation /\ Op.type = "SeparateDatabaseAndState"
    /\ stack' = IF Rule = "R005" THEN Advanced ELSE Append(Advanced, Frame(Here.at + 1, Here.at + Op.inner))
    /\ UNCHANGED <<migration, config, pass, todo, created, found, diagnostics>>

Leave ==
    /\ Running /\ stack # <<>> /\ Here.at > Here.last
    /\ stack' = Front(stack)
    /\ UNCHANGED <<migration, config, pass, todo, created, found, diagnostics>>

\* The callback of the rule, between the two updates of the created tables.
Visit ==
    /\ AtOperation /\ Op.type # "SeparateDatabaseAndState"
    /\ created' = After(Op, Before(Op, created))
    /\ found' = found \cup Report(Rule, Op, Before(Op, created))
    /\ stack' = Advanced
    /\ UNCHANGED <<migration, config, pass, todo, diagnostics>>

-----------------------------------------------------------------------------
(* After the walk.                                                         *)

\* A comment on a line of the span or on the line above it; ignores is a set
\* of [line, rules].
CommentLines(span) == (IF span[1] > 1 THEN span[1] - 1 ELSE 1)..span[2]
Silenced(r) == \E c \in migration.ignores : c.line \in CommentLines(r.span) /\ r.rule \in c.rules

\* Mutant: warnings stay warnings.
PromotedNever(r) == r
Promoted(r) == IF config.strict THEN [r EXCEPT !.severity = "error"] ELSE r

\* What R014 finds needs no operation.
ImportReports ==
    IF Rule # "R014" THEN {}
    ELSE {[rule |-> "R014", span |-> i.span, severity |-> "error"] : i \in {x \in migration.imports : x.models}}

\* A rule that is switched off is left out.
LeaveOut ==
    /\ pass # "done" /\ todo # <<>> /\ ~Enabled(Rule)
    /\ todo' = Tail(todo)
    /\ UNCHANGED <<migration, config, pass, stack, created, found, diagnostics>>

EndRule ==
    /\ Running /\ stack = <<>>
    /\ diagnostics' = diagnostics \cup {Promoted(r) : r \in {x \in found \cup ImportReports : ~Silenced(x)}}
    /\ todo' = Tail(todo) /\ found' = {}
    /\ StartRule(pass)
    /\ UNCHANGED <<migration, config, pass>>

EndPass ==
    /\ pass # "done" /\ todo = <<>>
    /\ IF pass = "upgrade" /\ migration.downgrade # <<>>
       THEN pass' = "downgrade" /\ todo' = RuleIds /\ StartRule("downgrade")
       ELSE pass' = "done" /\ UNCHANGED <<todo, stack, created>>
    /\ UNCHANGED <<migration, config, found, diagnostics>>

Done == pass = "done" /\ UNCHANGED vars

Next == Enter \/ Leave \/ Visit \/ LeaveOut \/ EndRule \/ EndPass \/ Done
Spec == Init /\ [][Next]_vars

-----------------------------------------------------------------------------
(* What the operations do to a database that serves an application.  Only  *)
(* a table created earlier in the same pass is empty and unused.           *)

\* Whether the operation is one of a SeparateDatabaseAndState's.
Wrapped(ops, i) == \E j \in 1..i - 1 : i <= j + ops[j].inner

\* The tables that are empty and unused after the operation, and before each.
Emptied(op, was) ==
    CASE op.type = "CreateModel" -> was \cup {op.table}
      [] op.type = "RenameModel" -> (was \ {op.old}) \cup (IF op.old \in was THEN {op.table} ELSE {})
      [] op.type = "DeleteModel" -> was \ {op.table}
      [] OTHER -> was
EmptyAt(ops) ==
    LET empty[i \in 0..Len(ops)] == IF i = 0 THEN {} ELSE Emptied(ops[i], empty[i - 1])
    IN  [i \in 1..Len(ops) + 1 |-> empty[i - 1]]

\* What the extraction makes of a file: operations that nest, spans with lines,
\* and what only one of the frameworks has.
ListsAssumption == \A m \in Migrations : \A ops \in {m.operations, m.downgrade} :
    /\ Len(ops) \in Nat /\ DOMAIN ops = 1..Len(ops)
    /\ \A i \in DOMAIN ops :
          /\ ops[i].inner \in Nat /\ i + ops[i].inner <= Len(ops)
          /\ ops[i].type # "SeparateDatabaseAndState" => ops[i].inner = 0
          /\ \A j \in i + 1..i + ops[i].inner : j + ops[j].inner <= i + ops[i].inner
          /\ ops[i].span[1] \in Nat \ {0} /\ ops[i].span[2] \in Nat
ASSUME ListsAssumption
OperationsAssumption == \A m \in Migrations :
    /\ m.framework \in {"django", "alembic", "aerich"}
    /\ m.class[1] \in Nat \ {0} /\ m.class[2] \in Nat
    /\ \A ops \in {m.operations, m.downgrade} : \A i \in DOMAIN ops :
          /\ m.framework # "django" =>
                /\ ~(ops[i].type \in {"AlterUniqueTogether", "AlterIndexTogether"} /\ ops[i].adds)
                /\ "relation" \in ops[i].field => "constraint" \in ops[i].field
          /\ m.framework = "django" => ~ops[i].notValid
ASSUME OperationsAssumption

\* The database has a name for every table, and lets none take the name of another.
DatabaseAssumption == \A m \in Migrations : \A ops \in {m.operations, m.downgrade} : \A i \in DOMAIN ops :
    /\ ops[i].type \in {"CreateModel", "RenameModel", "DeleteModel"} => ops[i].table # NoName
    /\ ops[i].type = "RenameModel" => ops[i].table \notin EmptyAt(ops)[i]
ASSUME DatabaseAssumption

InTransaction(op) ==
    CASE migration.framework = "django" -> ~migration.nonAtomic
      [] migration.framework = "alembic" -> ~op.autocommit
      [] OTHER -> ~migration.nonAtomic \/ op.autocommit
\* Columns that get an index: unique and indexed ones, and new relations, where
\* a OneToOneField has one in any case.
ColumnIndex(op) ==
    /\ migration.framework = "django" /\ op.type \in {"AddField", "AlterField"}
    /\ \/ {"index", "unique"} \cap op.field # {}
       \/ op.type = "AddField" /\ "relation" \in op.field /\ ~({"foreign key", "no index"} \subseteq op.field)

\* The harm done to a table in use, or to the application.
TableHarm(op) ==
    {h \in {"blocks writes", "scans rows", "rewrites", "table moves"} :
        CASE h = "blocks writes" ->
                \/ op.type \in {"AddIndex", "RemoveIndex"} \/ ColumnIndex(op)
                \/ op.type = "AddConstraint" /\ op.constraint \in {"unique", "exclusion"}
                \/ op.type \in {"AlterUniqueTogether", "AlterIndexTogether"} /\ op.adds
          [] h = "scans rows" ->
                \/ op.type = "AddConstraint" /\ op.constraint \in {"check", "foreign key"} /\ ~op.notValid
                \/ op.type = "AddField" /\ {"relation", "constraint"} \subseteq op.field
                \/ op.type = "AlterField" /\ "nullable" \notin op.field
          [] h = "rewrites" ->
                \/ op.type = "AddField" /\ {"nullable", "default", "db default"} \cap op.field = {}
                \/ op.type = "AlterField" /\ "type" \in op.field
          [] OTHER -> op.type \in {"RenameModel", "AlterModelTable", "DeleteModel"}}
AnyHarm(op, wrapped) ==
    {h \in {"raw index", "transaction", "column goes", "column moves", "irreversible"} :
        CASE h = "raw index" -> IsSql(op) /\ \E s \in op.sql : s.verb = "CREATE INDEX" /\ ~s.concurrently
          [] h = "transaction" -> RequiresNonAtomic(op) /\ InTransaction(op)
          [] h = "column goes" -> op.type = "RemoveField" /\ ~wrapped
                                  /\ ~(SqlFramework /\ config.absent /\ op.table # NoName)
          [] h = "column moves" -> op.type = "RenameField"
          [] OTHER -> op.type \in {"RunSQL", "RunPython"} /\ ~op.reversible}
About(h) ==
    CASE h = "blocks writes" -> {"R001", "R002", "R006", "R016", "R017", "R018"}
      [] h = "scans rows" -> {"R006", "R015", "R017"}
      [] h = "rewrites" -> {"R010", "R015"}
      [] h = "table moves" -> {"R019"}
      [] h = "raw index" -> {"R003"}
      [] h = "transaction" -> {"R004"}
      [] h = "column goes" -> {"R005"}
      [] h = "column moves" -> {"R011"}
      [] OTHER -> {"R012", "R013"}

\* The table a step acts on: its old name, when it is renamed.
Acted(op) == IF op.type = "RenameModel" THEN op.old ELSE op.table
Harm(ops, i) ==
    AnyHarm(ops[i], Wrapped(ops, i)) \cup IF Acted(ops[i]) \in EmptyAt(ops)[i] THEN {} ELSE TableHarm(ops[i])

-----------------------------------------------------------------------------
(* Properties.                                                             *)

Passes == {"upgrade", "downgrade"}

TypeOK ==
    /\ pass \in Passes \cup {"done"}
    /\ pass # "done" => \A i \in DOMAIN stack :
          stack[i].at \in 1..stack[i].last + 1 /\ stack[i].last <= Len(Operations(pass))
    /\ \A d \in diagnostics : d.rule \in config.enabled /\ (config.strict => d.severity = "error")

\* Nothing that harms a table in use passes in silence: a rule about it has
\* reported the operation, or is switched off, or a comment on the operation
\* or above it (above the class, for R004) silences that rule there.
HazardsReported ==
    pass = "done" =>
        \A p \in Passes : \A i \in DOMAIN Operations(p) : \A h \in Harm(Operations(p), i) :
            \E id \in About(h) :
                LET span == SpanOf(id, Operations(p)[i])
                IN  \/ \E d \in diagnostics : d.rule = id /\ d.span = span
                    \/ ~Enabled(id)
                    \/ \E c \in migration.ignores : c.line \in span[1] - 1..span[2] /\ id \in c.rules

\* No operation on a table the pass created itself is reported, and no wrapped
\* column removal, unless raw SQL may have replaced the table; R011 and R015 do
\* not look at what was created.
ReportsJustified ==
    \A d \in diagnostics : \/ d.rule \in {"R011", "R014", "R015"}
        \/ \E p \in Passes : \E i \in DOMAIN Operations(p) :
              LET ops == Operations(p)
              IN  /\ d.span = SpanOf(d.rule, ops[i])
                  /\ \E h \in Harm(ops, i) \cup (IF \E j \in 1..i - 1 : ops[j].type = "ExecuteSql" THEN TableHarm(ops[i]) ELSE {}) :
                        d.rule \in About(h)
=============================================================================
