------------------------- MODULE MCScriptExtraction -------------------------
(* TLC instance of ScriptExtraction.                                       *)
EXTENDS ScriptExtraction

MCFold(n) == IF n = "Orders" THEN "orders" ELSE n
MCTables == {Identity(NoSchema, "orders"), Identity(NoSchema, "lines"), Identity("audit", "orders")}

None == [k \in {} |-> Missing]
Key(k, v) == [x \in {k} |-> v]
Orders == Str("orders")
Lines == Str("lines")
Total == Str("total")
True == Word("True")
False == Word("False")
Nothing == Word("None")
Call1(f, positional, keywords) == [f |-> f, args |-> Arguments(positional, keywords)]

\* The ways to say which schema, and to say whether the table may be there.
Schemas == {None, Key("schema", Str("audit")), Key("schema", Nothing), Key("schema", Word("variable"))}
Conditions == {Key("if_not_exists", w) : w \in {True, False, Nothing, Word("variable")}}

ColumnOf(keywords, more) == CallOf("sa.Column", Arguments(<<Total, Word("sa.Integer()")>> \o more, keywords))
Columns == {ColumnOf(None, <<>>), ColumnOf(Key("unique", True), <<>>), ColumnOf(Key("index", True) @@ Key("nullable", False), <<>>),
            ColumnOf(Key("server_default", Str("0")), <<CallOf("sa.ForeignKey", Arguments(<<Str("users.id")>>, None))>>),
            CallOf("sa.Column", Arguments(<<Word("variable")>>, None)), Word("variable")}

AlterCalls ==
    {Call1("alter_column", <<Orders, Total>>, k) :
        k \in {Key("nullable", False), Key("new_column_name", Str("sum")), Key("type_", Word("sa.BigInteger()")),
               Key("type_", Nothing), Key("nullable", False) @@ Key("new_column_name", Str("sum")),
               Key("nullable", True) @@ Key("type_", Word("sa.BigInteger()")) @@ Key("new_column_name", Str("sum"))}}
    \cup {Call1("alter_column", <<Orders, Total, False>>, None),
          Call1("alter_column", <<Orders, Total, Nothing, False, False, Str("sum")>>, None),
          Call1("alter_column", <<Orders, Total, Nothing, False, False, Nothing, Word("sa.BigInteger()"),
                                  Nothing, False, Nothing, Nothing, Str("audit")>>, None),
          Call1("alter_column", <<Orders>>, Key("column_name", Total) @@ Key("nullable", False) @@ Key("schema", Str("audit")))}

MCCalls ==
    {Call1("create_table", <<Orders, Word("column")>>, k) :
        k \in {None, Key("schema", Str("audit")), Key("schema", Word("variable")), Key("if_not_exists", True)}}
    \cup {Call1(f, IF f = "create_index" THEN <<Str("i"), Orders, Word("columns")>> ELSE <<Orders>>, k) :
            f \in {"create_index", "drop_table"}, k \in {None, Key("schema", Str("audit"))}}
    \cup {Call1("rename_table", <<Orders, Lines>>, None), Call1("rename_table", <<Lines, Orders>>, None),
          Call1("rename_table", <<Lines, Orders, Options>>, None), Call1("drop_table", <<Word("variable")>>, None),
          Call1("execute", <<Str("SELECT 1")>>, None)}

MCCallReadings ==
    {Call1("create_table", <<Orders, Word("column")>>, k) : k \in Schemas \cup Conditions}
    \cup {Call1("create_table", <<Orders, Options>>, None), Call1("create_table", <<Word("variable")>>, None),
          Call1("create_table", <<>>, Key("table_name", Orders)), Call1("create_table", <<Str("")>>, None)}
    \cup {Call1("create_index", <<Str("i"), Orders, Word("columns")>>, k) : k \in Schemas \cup {Key("postgresql_concurrently", True)}}
    \cup {Call1("create_index", <<Str("i")>>, Key("table_name", Orders) @@ Key("columns", Word("columns"))),
          Call1("create_index", <<Str("i"), Orders, Word("columns"), Options>>, None),
          Call1("drop_index", <<Str("i")>>, None), Call1("drop_index", <<Str("i")>>, Key("table_name", Orders)),
          Call1("drop_index", <<Str("i"), Orders>>, Key("postgresql_concurrently", True))}
    \cup {Call1("drop_column", <<Orders, Total>>, k) : k \in Schemas}
    \cup {Call1("drop_column", <<Orders, Word("variable")>>, None), Call1("drop_column", <<Orders>>, Key("column_name", Total))}
    \cup {Call1("add_column", <<Orders, c>>, None) : c \in Columns}
    \cup {Call1("add_column", <<Orders>>, Key("column", c)) : c \in Columns}
    \cup AlterCalls
    \cup {Call1("create_unique_constraint", <<Str("c"), Orders, Word("columns")>>, k) : k \in Schemas}
    \cup {Call1("drop_table", <<Orders>>, k) : k \in Schemas}
    \cup {Call1("rename_table", <<Str("carts"), Str("baskets")>>, None)}
    \cup {Call1("create_foreign_key", <<Str("c"), Orders, Str("users")>>, k) :
            k \in {None, Key("source_schema", Str("audit")), Key("postgresql_not_valid", True)}}
    \cup {Call1(f, <<Str("c"), Orders, Word("condition")>>, k) :
            f \in {"create_check_constraint", "create_exclude_constraint"}, k \in {None, Key("postgresql_not_valid", True)}}
    \cup {Call1("create_check_constraint", <<>>, Key("constraint_name", Str("c")) @@ Key("table_name", Orders)),
          Call1("execute", <<Str("SELECT 1")>>, None), Call1("execute", <<Word("variable")>>, None),
          Call1("execute", <<>>, Key("sqltext", Str("SELECT 1"))), Call1("get_bind", <<>>, None)}
\* What ScriptExtractionProofs asks of the calls that are read.
ASSUME MCReadingsWellFormed ==
    \A call \in MCCallReadings : WellFormed(call.f, call.args) /\ ~OptionsInPlace(call.f, call.args)

\* A comment on a line of its own, or after an argument, and `**options` in the
\* place of an argument.
MCDisplaced == {Call1("drop_column", <<Orders, Comment, Total>>, None), Call1("create_table", <<Comment, Orders>>, None),
                Call1("add_column", <<Orders, Options>>, Key("column", ColumnOf(None, <<>>)))}

-----------------------------------------------------------------------------
Raw == Plain(<<"orders">>)
Sql(texts, kind) ==
    [tokens |-> Plain(texts), kind |-> kind, table |-> Identity(NoSchema, "orders"), to |-> Identity(NoSchema, "orders")]
RenameOf(old, new) ==
    [tokens |-> Plain(<<"ALTER", "TABLE", old, "RENAME", "TO", new>>), kind |-> "rename",
     table |-> Identity(NoSchema, old), to |-> Identity(NoSchema, new)]
Create == Sql(<<"CREATE", "TABLE", "orders", "(", "id", ")">>, "create")
CreateIf == Sql(<<"CREATE", "TABLE", "IF", "NOT", "EXISTS", "orders", "(", "id", ")">>, "create if")
Index == Sql(<<"CREATE", "INDEX", "i", "ON", "orders", "(", "id", ")">>, "use")
Drop == Sql(<<"DROP", "TABLE", "orders">>, "drop")
Described == Sql(<<"COMMENT", "ON", "TABLE", "orders", "IS", "x">>, "use")
Column == Sql(<<"ALTER", "TABLE", "orders", "ADD", "COLUMN", "total", "int">>, "use")
MCStatements == {Create, CreateIf, Index, Drop, Described, Column, RenameOf("orders", "lines"), RenameOf("lines", "orders"),
                 Sql(<<"SELECT", "id">>, "sql")}

Items == {Item(s, c) : s \in {Create, CreateIf, Index, Drop, RenameOf("lines", "orders")}, c \in BOOLEAN}
MCHelpers ==
    {<<>>} \cup {<<i>> : i \in Items}
    \cup {<<i, Item(Index, FALSE)>> : i \in {j \in Items : j.statement \in {Create, CreateIf, Drop}}}

MCNoHelper == {<<>>}

Names == {<<Token("orders", FALSE)>>, <<Token("Orders", FALSE)>>, <<Token("Orders", TRUE)>>,
          <<Token("audit", FALSE), Token(".", FALSE), Token("Orders", FALSE)>>}
Reading(before, name, actions) ==
    [tokens |-> AlterStatement(before, name, actions), table |-> Denotes(name),
     single |-> Len(actions) = 1 /\ before = <<>>,
     means |-> {[type |-> a.type, detail |-> a.detail \ {"unique"}] :
                  a \in {b \in Range(actions) : b.type # "none" /\ b.detail # {"unique"}}}
               \cup {[type |-> "AddConstraint", detail |-> {"unique"}] : a \in {b \in Range(actions) : "unique" \in b.detail}}]
Index1(verb, words, type) ==
    [tokens |-> Plain(words), table |-> Identity(NoSchema, "orders"), single |-> TRUE, means |-> {[type |-> type, detail |-> {}]}]
Pairs == {<<a, b>> : a, b \in Spelled}
\* Of two actions only the dropped column is asked for here: the first is one,
\* and no other pattern comes before it.  MCActions asks for both.
Dropping == {p \in Pairs : p[1].type = "RemoveField" /\ p[2].type # "RenameModel"}
MCReadings ==
    {Reading(b, n, <<a>>) : b \in {<<>>, <<"IF", "EXISTS">>, <<"ONLY">>}, n \in Names, a \in Spelled}
    \cup {[Reading(b, n, p) EXCEPT !.means = {[type |-> "RemoveField", detail |-> {}]}] :
            b \in {<<>>, <<"ONLY">>}, n \in Names, p \in Dropping}
    \cup {Index1("CREATE", <<"CREATE", "UNIQUE", "INDEX", "CONCURRENTLY", "i", "ON", "orders">>, "AddIndexConcurrently"),
          Index1("CREATE", <<"CREATE", "INDEX", "IF", "NOT", "EXISTS", "i", "ON", "orders">>, "AddIndex"),
          Index1("DROP", <<"DROP", "INDEX", "CONCURRENTLY", "IF", "EXISTS", "i">>, "RemoveIndexConcurrently"),
          Index1("DROP", <<"DROP", "INDEX", "i">>, "RemoveIndex"),
          Index1("DROP", <<"DROP", "TABLE", "IF", "EXISTS", "orders">>, "DeleteModel"),
          Index1("DO", <<"DO", "BEGIN", "ALTER", "TABLE", "orders", "ADD", "CONSTRAINT", "c", "CHECK", "(", "total", ")">>,
                 "AddConstraint")}
\* Any two actions that PostgreSQL takes in one ALTER TABLE; a rename stands alone.
MCActions == {Reading(<<>>, <<Token("orders", FALSE)>>, p) :
                 p \in {q \in Pairs : \A i \in {1, 2} : q[i].tokens[1].text # "RENAME"}}

\* Three bounds: a run that has misled the walk is not followed any further;
\* neither is one that both binds names and creates tables, as what a name holds
\* and what became of a table do not depend on one another; nor one that has
\* created a table two blocks deep, where all that counts for a table is whether
\* the innermost block is certain to be run.
Untouched == exempt = {} /\ \A t \in Tables : database[t] # "fresh"
Followed ==
    /\ ~misled
    /\ \/ unseen \cup ahead = {} /\ \A v \in Variables : env[v] = "unbound"
       \/ Untouched
    /\ Len(frames) <= 2 \/ Untouched
=============================================================================
