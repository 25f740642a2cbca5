----------------------------- MODULE MCRegistry -----------------------------
(* TLC instance of Registry.  Operation i of a file stands on lines       *)
(* 2i + 1 and 2i + 2, up to what it wraps; the downgrade starts on 20.     *)
EXTENDS Registry, TLC

Plain == [type |-> "Unknown", table |-> "t", old |-> NoName, field |-> {}, constraint |-> "none", notValid |-> FALSE,
        sql |-> {}, reversible |-> TRUE, adds |-> FALSE, inner |-> 0, autocommit |-> FALSE]
Of(type) == [Plain EXCEPT !.type = type]
On(op, x) == IF op.table = NoName THEN op ELSE [op EXCEPT !.table = x]
Rename(old, new) == [Of("RenameModel") EXCEPT !.old = old, !.table = new]
Column(type, flags) == [Of(type) EXCEPT !.field = flags]
Constraint(kind, notValid) == [Of("AddConstraint") EXCEPT !.constraint = kind, !.notValid = notValid]
Sql(type, verb, concurrently) ==
    [Of(type) EXCEPT !.table = NoName, !.sql = {[verb |-> verb, concurrently |-> concurrently]}, !.reversible = FALSE]
Adds(type) == [Of(type) EXCEPT !.adds = TRUE]
Wrap(ops) == <<[Of("SeparateDatabaseAndState") EXCEPT !.table = NoName, !.inner = Len(ops)]>> \o ops

IndexOps == {Of("AddIndex"), Of("RemoveIndex"), Of("AddIndexConcurrently"), Of("RemoveIndexConcurrently")}
TableOps == {Of("CreateModel"), Of("DeleteModel"), Rename("t", "w")}
Common == IndexOps \cup TableOps \cup {Of("RenameField"), Of("RemoveField"), Constraint("unique", FALSE)}
Django == Common \cup
    {Of("AlterModelTable"), Adds("AlterUniqueTogether"), Adds("AlterIndexTogether"),
     Column("AddField", {"relation", "foreign key", "constraint", "nullable"}),
     Column("AddField", {"relation", "foreign key", "no index", "nullable"}),
     Column("AddField", {"relation", "unique", "nullable"}), Column("AddField", {"relation", "no index", "nullable"}),
     Column("AddField", {}),
     Column("AlterField", {"index", "nullable"}), Column("AlterField", {"default"}),
     Constraint("check", FALSE), Constraint("exclusion", FALSE),
     Sql("RunSQL", "CREATE INDEX", FALSE), Sql("RunSQL", "DROP INDEX", TRUE),
     [Of("RunPython") EXCEPT !.table = NoName, !.reversible = FALSE]}
SqlOps == Common \cup
    {Column("AddField", {}), Column("AddField", {"relation", "foreign key", "constraint", "nullable"}),
     Column("AlterField", {"type", "nullable"}), Constraint("check", FALSE), Constraint("foreign key", TRUE),
     Sql("ExecuteSql", "CREATE INDEX", FALSE), Sql("ExecuteSql", "REINDEX", TRUE),
     [Of("RemoveField") EXCEPT !.table = NoName],
     [Of("AddIndexConcurrently") EXCEPT !.autocommit = TRUE]}

\* What precedes the operation, and the table it acts on.
Create(x) == On(Of("CreateModel"), x)
Delete(x) == On(Of("DeleteModel"), x)
Contexts == {[ops |-> <<>>, on |-> "t"], [ops |-> <<Create("t")>>, on |-> "t"], [ops |-> <<Create("t")>>, on |-> "u"],
             [ops |-> <<Rename("t", "u")>>, on |-> "u"], [ops |-> <<Create("t"), Rename("t", "u")>>, on |-> "u"],
             [ops |-> <<Create("u"), Delete("u"), Rename("t", "u")>>, on |-> "u"],
             [ops |-> <<Create("u"), Rename("u", "v"), Rename("t", "u")>>, on |-> "u"],
             [ops |-> <<Delete("t"), Create("t")>>, on |-> "t"]}
Followed(c, op) == Append(c.ops, [On(op, c.on) EXCEPT !.old = IF @ = NoName THEN NoName ELSE c.on,
                                                   !.table = IF op.old = NoName THEN @ ELSE op.table])
Placed(ops, line) ==
    [i \in DOMAIN ops |-> ops[i] @@ [span |-> <<line + 2 * i + 1, line + 2 * (i + ops[i].inner) + 2>>]]
File(framework, ops, down, nonAtomic, line) ==
    [framework |-> framework, operations |-> Placed(ops, 0), downgrade |-> Placed(down, 17), nonAtomic |-> nonAtomic,
     class |-> <<2, 30>>, imports |-> {[span |-> <<1, 1>>, models |-> line = 1]},
     ignores |-> IF line = 0 THEN {} ELSE {[line |-> line, rules |-> {RuleIds[i] : i \in DOMAIN RuleIds}]}]

Lines == {0, 1, 4, 6}
RawSql == Sql("ExecuteSql", "REINDEX", FALSE)
MCMigrations ==
    {File("django", Followed(c, op), <<>>, FALSE, line) : c \in Contexts, op \in Django, line \in Lines}
    \cup {File("django", c.ops \o Wrap(<<On(op, c.on)>>), <<>>, FALSE, line) :
            c \in Contexts, op \in {x \in Django : x.old = NoName}, line \in {0, 1}}
    \cup {File("django", Append(Wrap(<<Of("CreateModel")>> \o Wrap(<<Of("AddIndex")>>)), op), <<>>, TRUE, 0) : op \in Django}
    \cup {File(f, Followed(c, op), <<>>, TRUE, line) :
            f \in {"alembic", "aerich"}, c \in Contexts \cup {[ops |-> <<Create("t"), RawSql>>, on |-> "t"]},
            op \in SqlOps, line \in {0, 6}}
    \cup {File("alembic", c, <<op>>, FALSE, line) : c \in {<<>>, <<Create("t")>>}, op \in SqlOps, line \in {0, 19}}

AllRules == {RuleIds[i] : i \in DOMAIN RuleIds}
MCConfigs == {[enabled |-> AllRules, strict |-> FALSE, absent |-> TRUE],
              [enabled |-> AllRules \ {"R001", "R005"}, strict |-> TRUE, absent |-> FALSE]}
=============================================================================
