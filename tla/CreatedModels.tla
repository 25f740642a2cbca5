---------------------------- MODULE CreatedModels ----------------------------
(***************************************************************************)
(* The walk behind the CreateModel exemption (src/rules/mod.rs).  A        *)
(* migration is read one database-effective operation at a time, with a    *)
(* CreatedModels value threaded through: R001, R002, R006, R010 and        *)
(* R016-R019 skip an operation whose table is in it.  Django operations    *)
(* are matched by lower-cased model name; Alembic and Aerich ones by a     *)
(* (schema, name) identity.                                                *)
(*                                                                         *)
(* `database` is not program state.  It is what executing the same         *)
(* operations does to the real tables, so that "skipped" can be compared   *)
(* with "created here".  The walk sees only the text of the migration;     *)
(* `blind` collects the constructs met so far whose effect it misjudges:   *)
(*   conditional_rename  the set follows a rename that did not run         *)
(*   schema_alias        the default schema is spelt out                   *)
(*   raw_case            raw SQL on a name that differs only in case       *)
(*   raw_sql             Django's RunSQL, RunPython or an operation of the *)
(*                       project's own changes a created table             *)
(*   unread_sql          so does SQL or a call whose text is computed, or  *)
(*                       the second table of DROP TABLE a, b               *)
(*   unknown_table       so does a drop or rename with schema=VARIABLE or  *)
(*                       **options, which has no identity                  *)
(*   state_only          Django forgets a created model's table            *)
(***************************************************************************)

CONSTANTS
    Names,           \* table and model names, letter case included
    Lower,           \* Names -> Names, the lower-cased spelling
    Schemas,         \* the database's schemas
    DefaultSchema,   \* the one an unqualified table lives in
    NoSchema,        \* TableIdentity.schema = None
    NoTable,         \* Operation.table_identity = None
    Features         \* the constructs of Blindness a migration may use

Blindness == {"conditional_rename", "schema_alias", "raw_case", "raw_sql",
              "unread_sql", "unknown_table", "state_only"}

ASSUME LowerAssumption ==
    /\ Lower \in [Names -> Names]
    /\ \A n \in Names : Lower[Lower[n]] = Lower[n]
ASSUME SchemaAssumption == DefaultSchema \in Schemas /\ NoSchema \notin Schemas
ASSUME FeaturesAssumption == Features \subseteq Blindness

Frameworks == {"Django", "Alembic", "Aerich"}
Status == {"absent", "existing", "new"}

TableIdentity == [schema : Schemas \cup {NoSchema}, name : Names]
Tables == [schema : Schemas, name : Names]

ASSUME NoTableAssumption == NoTable \notin TableIdentity

VARIABLES
    framework,   \* migration.framework
    names,       \* CreatedModels.names: lower-cased Django model names
    sqlTables,   \* CreatedModels.sql_tables
    exempt,      \* did the last operation handed to a rule count as created?
    target,      \* status of the table it was about, when it ran
    database,    \* the real tables
    blind

walker == <<framework, names, sqlTables, exempt, target>>
vars == <<framework, names, sqlTables, exempt, target, database, blind>>

UsesSqlTableIdentity == framework \in {"Alembic", "Aerich"}

\* The real table a statement's identity means, and a Django model's table.
Resolve(t) == [schema |-> IF t.schema = NoSchema THEN DefaultSchema ELSE t.schema,
               name |-> t.name]
ModelTable(n) == [schema |-> DefaultSchema, name |-> Lower[n]]

TypeOK ==
    /\ framework \in Frameworks
    /\ names \subseteq Names
    /\ sqlTables \subseteq TableIdentity
    /\ exempt \in BOOLEAN
    /\ target \in Status \cup {"none"}
    /\ database \in [Tables -> Status]
    /\ blind \subseteq Blindness

Init ==
    /\ framework \in Frameworks
    /\ names = {} /\ sqlTables = {}
    /\ exempt = FALSE /\ target = "none"
    /\ database \in [Tables -> {"absent", "existing"}]
    /\ blind = {}

-----------------------------------------------------------------------------
(* CreatedModels.                                                          *)

\* Mutant: the old identity is kept.
RenameSqlTableKeepsOld(S, old, new) == IF old \in S THEN S \cup {new} ELSE S

RenameSqlTable(S, old, new) == IF old \in S THEN (S \ {old}) \cup {new} ELSE S

\* Mutant: the new name is inserted without asking whether the old one was.
RenameModelNameAlways(S, old, new) == (S \ {Lower[old]}) \cup {Lower[new]}

RenameModelName(S, old, new) ==
    IF Lower[old] \in S THEN (S \ {Lower[old]}) \cup {Lower[new]} ELSE S

\* contains_operation on the walker's state before or after an operation.
ContainsTable(S, t) == t # NoTable /\ t \in S
ContainsModel(S, n) == Lower[n] \in S

\* contains_sql_table: the words of a raw statement have lost their case and
\* their quotes, so every spelling matches.
ContainsSqlTable(S, t) ==
    \E u \in S : u.schema = t.schema /\ Lower[u.name] = Lower[t.name]

-----------------------------------------------------------------------------
(* What the statements do to the tables.  One that the database would      *)
(* refuse (a table that is missing, or already there) ends the migration,  *)
(* so it is no step.                                                       *)

Moved(old, new) == [database EXCEPT ![new] = database[old], ![old] = "absent"]

Handle(contained, status) == exempt' = contained /\ target' = status

Meets(construct, condition) ==
    /\ condition => construct \in Features
    /\ blind' = IF condition THEN blind \cup {construct} ELSE blind

Alias(t) == t.schema = DefaultSchema

-----------------------------------------------------------------------------
(* Alembic and Aerich operations.                                          *)

\* create_table as a direct, unconditional statement without IF NOT EXISTS.
CreateTable(t) ==
    /\ UsesSqlTableIdentity
    /\ Meets("schema_alias", Alias(t))
    /\ database[Resolve(t)] = "absent"
    /\ database' = [database EXCEPT ![Resolve(t)] = "new"]
    /\ sqlTables' = sqlTables \cup {t}
    /\ Handle(TRUE, "new")
    /\ UNCHANGED <<framework, names>>

\* Mutant: the missing identity is inserted.
CreateTableUncertainInserted(t) ==
    /\ UsesSqlTableIdentity
    /\ Handle(FALSE, database[Resolve(t)])
    /\ sqlTables' = sqlTables \cup {NoTable}
    /\ UNCHANGED <<framework, names, database, blind>>

\* Any other create_table has no identity: it may find the table in place.
CreateTableUncertain(t) ==
    /\ UsesSqlTableIdentity
    /\ database' \in {database} \cup
          IF database[Resolve(t)] = "absent"
          THEN {[database EXCEPT ![Resolve(t)] = "new"]} ELSE {}
    /\ Handle(FALSE, database'[Resolve(t)])
    /\ UNCHANGED <<framework, names, sqlTables, blind>>

\* rename_table / ALTER TABLE ... RENAME TO, in one schema.  The set follows
\* before the rules see the operation, whether or not the statement stands
\* under a condition that turns out false.
RenameTable(old, new, runs) ==
    /\ UsesSqlTableIdentity
    /\ old.schema = new.schema /\ old # new
    /\ IF runs THEN Meets("schema_alias", Alias(old))
               ELSE Meets("conditional_rename", TRUE)
    /\ database[Resolve(old)] # "absent"
    /\ runs => database[Resolve(new)] = "absent"
    /\ database' = IF runs THEN Moved(Resolve(old), Resolve(new)) ELSE database
    /\ sqlTables' = RenameSqlTable(sqlTables, old, new)
    /\ Handle(ContainsTable(sqlTables', new), IF runs THEN database[Resolve(old)] ELSE "none")
    /\ UNCHANGED <<framework, names>>

\* Mutant: the table leaves the set before the rules see the operation.
DropTableRemovedFirst(t, runs) ==
    /\ UsesSqlTableIdentity
    /\ Meets("schema_alias", Alias(t))
    /\ database[Resolve(t)] # "absent"
    /\ Handle(FALSE, database[Resolve(t)])
    /\ database' = IF runs THEN [database EXCEPT ![Resolve(t)] = "absent"] ELSE database
    /\ sqlTables' = sqlTables \ {t}
    /\ UNCHANGED <<framework, names>>

\* drop_table: the rules see the set as it was; then the table leaves it.
DropTable(t, runs) ==
    /\ UsesSqlTableIdentity
    /\ Meets("schema_alias", Alias(t))
    /\ database[Resolve(t)] # "absent"
    /\ Handle(ContainsTable(sqlTables, t), database[Resolve(t)])
    /\ database' = IF runs THEN [database EXCEPT ![Resolve(t)] = "absent"] ELSE database
    /\ sqlTables' = sqlTables \ {t}
    /\ UNCHANGED <<framework, names>>

\* Every other operation on a table: an index, a constraint, a column.
AlterTable(t) ==
    /\ UsesSqlTableIdentity
    /\ Meets("schema_alias", Alias(t))
    /\ database[Resolve(t)] # "absent"
    /\ Handle(ContainsTable(sqlTables, t), database[Resolve(t)])
    /\ UNCHANGED <<framework, names, sqlTables, database>>

\* Without an identity (schema=VARIABLE, **options, DROP INDEX) an operation
\* is about a table the walk does not know, and a drop or rename of that table
\* leaves the set as it is.
AlterUnknownTable(t) ==
    /\ UsesSqlTableIdentity
    /\ database[t] # "absent"
    /\ \/ database' = database
       \/ database' = [database EXCEPT ![t] = "absent"]
       \/ \E new \in Tables : /\ new.schema = t.schema /\ database[new] = "absent"
                             /\ database' = Moved(t, new)
    /\ Meets("unknown_table",
             database' # database /\ \E u \in sqlTables : Resolve(u) = t)
    /\ Handle(ContainsTable(sqlTables, NoTable), "none")
    /\ UNCHANGED <<framework, names, sqlTables>>

\* op.execute of one ALTER TABLE ... ADD CONSTRAINT, which R017 may exempt;
\* afterwards no table counts as created.
ExecuteAlter(t) ==
    /\ framework = "Alembic"
    /\ ~Alias(t)
    /\ Meets("raw_case", \E n \in Names : n # t.name /\ Lower[n] = Lower[t.name])
    /\ database[Resolve(t)] # "absent"
    /\ Handle(ContainsSqlTable(sqlTables, t), database[Resolve(t)])
    /\ sqlTables' = {}
    /\ UNCHANGED <<framework, names, database>>

\* Any other raw SQL: it may create, rename, drop and fill tables.
ExecuteSql ==
    /\ UsesSqlTableIdentity
    /\ Handle(FALSE, "none")
    /\ database' \in [Tables -> Status]
    /\ sqlTables' = {}
    /\ UNCHANGED <<framework, names, blind>>

\* SQL of which no operation reaches the walk: op.execute(variable), a table
\* name that is no literal, the tables of a DROP TABLE after the first.
RunUnread ==
    /\ UsesSqlTableIdentity
    /\ database' \in [Tables -> Status]
    /\ Meets("unread_sql", \E t \in sqlTables : database'[Resolve(t)] # "new")
    /\ UNCHANGED walker

-----------------------------------------------------------------------------
(* Django operations, at top level or in a database_operations arm.        *)

CreateModel(n) ==
    /\ framework = "Django"
    /\ database[ModelTable(n)] = "absent"
    /\ database' = [database EXCEPT ![ModelTable(n)] = "new"]
    /\ names' = names \cup {Lower[n]}
    /\ Handle(TRUE, "new")
    /\ UNCHANGED <<framework, sqlTables, blind>>

RenameModel(old, new) ==
    /\ framework = "Django"
    /\ Lower[old] # Lower[new]
    /\ database[ModelTable(old)] # "absent"
    /\ database[ModelTable(new)] = "absent"
    /\ database' = Moved(ModelTable(old), ModelTable(new))
    /\ names' = RenameModelName(names, old, new)
    /\ Handle(ContainsModel(names', new), database[ModelTable(old)])
    /\ UNCHANGED <<framework, sqlTables, blind>>

DeleteModel(n) ==
    /\ framework = "Django"
    /\ database[ModelTable(n)] # "absent"
    /\ Handle(ContainsModel(names, n), database[ModelTable(n)])
    /\ database' = [database EXCEPT ![ModelTable(n)] = "absent"]
    /\ names' = names \ {Lower[n]}
    /\ UNCHANGED <<framework, sqlTables, blind>>

AlterModel(n) ==
    /\ framework = "Django"
    /\ database[ModelTable(n)] # "absent"
    /\ Handle(ContainsModel(names, n), database[ModelTable(n)])
    /\ UNCHANGED <<framework, names, sqlTables, database, blind>>

\* RunSQL, RunPython and operations of the project's own may do to the tables
\* what any raw SQL does; the names stay.
RunSql ==
    /\ framework = "Django"
    /\ database' \in [Tables -> Status]
    /\ Meets("raw_sql", \E n \in names : database'[ModelTable(n)] # "new")
    /\ Handle(FALSE, "none")
    /\ UNCHANGED <<framework, names, sqlTables>>

\* The state_operations arm of SeparateDatabaseAndState is never walked.  It
\* can put a model on a table that was there before, or take a model away.
StateCreateModel(n) ==
    /\ framework = "Django"
    /\ database[ModelTable(n)] = "absent"
    /\ database' = [database EXCEPT ![ModelTable(n)] = "existing"]
    /\ UNCHANGED <<walker, blind>>

StateDeleteModel(n) ==
    /\ framework = "Django"
    /\ database[ModelTable(n)] # "absent"
    /\ Meets("state_only", Lower[n] \in names)
    /\ database' = [database EXCEPT ![ModelTable(n)] = "absent"]
    /\ UNCHANGED walker

-----------------------------------------------------------------------------
Next ==
    \/ \E t \in TableIdentity :
          CreateTable(t) \/ CreateTableUncertain(t) \/ AlterTable(t) \/ ExecuteAlter(t)
    \/ \E t \in Tables : AlterUnknownTable(t)
    \/ \E t \in TableIdentity, runs \in BOOLEAN : DropTable(t, runs)
    \/ \E old, new \in TableIdentity, runs \in BOOLEAN : RenameTable(old, new, runs)
    \/ ExecuteSql
    \/ RunUnread
    \/ \E n \in Names :
          CreateModel(n) \/ DeleteModel(n) \/ AlterModel(n)
          \/ StateCreateModel(n) \/ StateDeleteModel(n)
    \/ \E old, new \in Names : RenameModel(old, new)
    \/ RunSql

Spec == Init /\ [][Next]_vars

-----------------------------------------------------------------------------
(* Properties.                                                             *)

(***************************************************************************)
(* The two sets name only tables that this migration created and that are  *)
(* still there.  Until a construct of Blindness is met, no drop, no        *)
(* rename, no raw SQL and no state operation leaves a stale member behind. *)
(* This is the strengthening of ExemptionSound that is inductive.          *)
(***************************************************************************)
CreatedAreNew ==
    /\ framework = "Django" => sqlTables = {}
    /\ framework # "Django" => names = {}
    /\ blind = {} =>
          /\ \A t \in sqlTables : ~Alias(t) /\ database[Resolve(t)] = "new"
          /\ \A n \in names : Lower[n] = n /\ database[ModelTable(n)] = "new"

(***************************************************************************)
(* README "CreateModel Exemption": a statement is skipped only if its      *)
(* table was created earlier in the same migration.  contains_operation    *)
(* and contains_sql_table never say so of a table that was there before,   *)
(* as long as no construct of Blindness was met.                           *)
(***************************************************************************)
ExemptionSound == exempt /\ blind = {} => target = "new"
=============================================================================
