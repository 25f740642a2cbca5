---------------------------- MODULE AlembicCalls ----------------------------
(***************************************************************************)
(* What one `op.*` call of an Alembic revision becomes (extract_operation  *)
(* of src/ast/alembic.rs), and what the same call means to Alembic once    *)
(* Python has bound its arguments to parameters.                           *)
(*                                                                         *)
(* A value is the node the parser makes of it.  args.positional are the    *)
(* children of the argument list that are no keyword argument: values,     *)
(* `*rest`, `**options` and comments, in the order they are written.       *)
(***************************************************************************)
EXTENDS MigrationOperations

Value(node, text) == [node |-> node, text |-> text]
Str(s) == Value("string", s)          \* "" also stands for an f-string
Word(w) == Value("identifier", w)     \* None, True, False or a variable
Comment == Value("comment", "#")
Options == Value("dictionary_splat", "**options")
Missing == Value("missing", "")
CallOf(f, args) == [node |-> "call", text |-> f, args |-> args]
Arguments(positional, keywords) == [positional |-> positional, keywords |-> keywords]

-----------------------------------------------------------------------------
(* The helpers that read an argument list.  "" is None of Option<String>.  *)

NthValue(args, n) == IF n <= Len(args.positional) THEN args.positional[n] ELSE Missing
KeywordValue(args, k) == IF k \in DOMAIN args.keywords THEN args.keywords[k] ELSE Missing
StaticString(v) == IF v.node = "string" THEN v.text ELSE ""
OrElse(a, b) == IF a # "" THEN a ELSE b
\* Mutant: an argument given by keyword is not looked for.
StringAtPlace(args, n, k) == StaticString(NthValue(args, n))
StringAt(args, n, k) == OrElse(StaticString(NthValue(args, n)), StaticString(KeywordValue(args, k)))
IsTrue(args, k) == KeywordValue(args, k).text = "True"
IsFalse(args, k) == KeywordValue(args, k).text = "False"
FalseOrAbsent(args, k) == KeywordValue(args, k) = Missing \/ KeywordValue(args, k).text \in {"False", "None"}
HasOptions(args) == Options \in Range(args.positional)

\* Mutant: options passed on as a dictionary are taken not to name a schema.
TableIdentityDespiteOptions(args, name, keyword, position) ==
    LET schema == KeywordValue(args, keyword)
    IN IF schema = Missing \/ schema.text = "None" THEN Identity(NoSchema, name)
       ELSE IF StaticString(schema) = "" THEN NoIdentity ELSE Identity(StaticString(schema), name)
\* table_identity: position 0 stands for a schema that is a keyword only.
TableIdentity(args, name, keyword, position) ==
    LET positional == IF position = 0 THEN Missing ELSE NthValue(args, position)
        schema == IF KeywordValue(args, keyword) # Missing THEN KeywordValue(args, keyword) ELSE positional
    IN CASE HasOptions(args) -> NoIdentity
         [] ~HasOptions(args) /\ (schema = Missing \/ schema.text = "None") -> Identity(NoSchema, name)
         [] OTHER -> IF StaticString(schema) = "" THEN NoIdentity ELSE Identity(StaticString(schema), name)

-----------------------------------------------------------------------------
(* What each supported function becomes.                                   *)

On(args, type, table, detail) == << Operation(type, table, TableIdentity(args, table, "schema", 0), detail) >>

\* Mutant: the call counts wherever in a statement it stands.
CreateAnywhere(args, unconditional, direct) == unconditional /\ FalseOrAbsent(args, "if_not_exists")
\* Only a statement of its own, outside every branch and loop, is certain to create its table.
CertainCreate(args, unconditional, direct) ==
    unconditional /\ direct /\ FalseOrAbsent(args, "if_not_exists")

CreateTable(args, unconditional, direct) ==
    LET table == StringAt(args, 1, "table_name") IN
    When(table # "", << Operation("CreateModel", table,
        IF CertainCreate(args, unconditional, direct) THEN TableIdentity(args, table, "schema", 0) ELSE NoIdentity, {}) >>)

ChangeIndex(f, args) ==
    LET table == StringAt(args, 2, "table_name")
    IN When(table # "" \/ f = "drop_index",
            On(args, IndexType(f = "create_index", IsTrue(args, "postgresql_concurrently")), table, {}))

DropColumn(args) ==
    LET table == StringAt(args, 1, "table_name") IN
    When(table # "" /\ StringAt(args, 2, "column_name") # "", On(args, "RemoveField", table, {}))

\* column_field
Constructors == {"Column", "sa.Column", "sqlalchemy.Column"}
References(args) == \E v \in Range(args.positional) : v.node = "call" /\ v.text = "sa.ForeignKey"
ColumnFlags(args) ==
    Flags(References(args), "relation") \cup Flags(IsTrue(args, "unique"), "unique") \cup Flags(IsTrue(args, "index"), "index")
    \cup Flags(IsFalse(args, "nullable") \/ IsTrue(args, "primary_key"), "not null")
    \cup Flags(KeywordValue(args, "server_default") # Missing /\ KeywordValue(args, "server_default").text # "None", "default")
IsColumn(v) == v.node = "call" /\ v.text \in Constructors /\ StaticString(NthValue(v.args, 1)) # ""

AddColumn(args) ==
    LET table == StringAt(args, 1, "table_name")
        column == IF NthValue(args, 2) # Missing THEN NthValue(args, 2) ELSE KeywordValue(args, "column")
    IN IF table = "" \/ ~IsColumn(column) THEN <<>>
       ELSE LET flags == ColumnFlags(column.args) IN
            On(args, "AddField", table, flags)
            \o When("unique" \in flags, On(args, "AddConstraint", table, {"unique"}))
            \o When("index" \in flags, On(args, "AddIndex", table, {}))

AlterColumn(args) ==
    LET table == StringAt(args, 1, "table_name")
        identity == TableIdentity(args, table, "schema", 12)
        type == IF KeywordValue(args, "type_") # Missing THEN KeywordValue(args, "type_") ELSE NthValue(args, 7)
        changes == Flags(IsFalse(args, "nullable") \/ NthValue(args, 3).text = "False", "not null")
                   \cup Flags(type # Missing /\ type.text # "None", "type")
        newName == OrElse(StaticString(KeywordValue(args, "new_column_name")), StaticString(NthValue(args, 6)))
    IN IF table = "" \/ StringAt(args, 2, "column_name") = "" THEN <<>>
       ELSE When(changes # {}, << Operation("AlterField", table, identity, changes) >>)
            \o When(newName # "", << Operation("RenameField", table, identity, {}) >>)

RenameTable(args) ==
    LET name == StringAt(args, 2, "new_table_name") IN
    When(StringAt(args, 1, "old_table_name") # "" /\ name # "",
         On(args, "RenameModel", name, {StringAt(args, 1, "old_table_name")}))

DropTable(args) ==
    LET table == StringAt(args, 1, "table_name") IN When(table # "", On(args, "DeleteModel", table, {}))

AddUnique(args) ==
    LET table == StringAt(args, 2, "table_name") IN When(table # "", On(args, "AddConstraint", table, {"unique"}))

Constraints == {"create_foreign_key", "create_check_constraint", "create_exclude_constraint"}
AddConstraint(f, args) ==
    LET key == f = "create_foreign_key"
        table == StringAt(args, 2, IF key THEN "source_table" ELSE "table_name")
    IN When(table # "", << Operation("AddConstraint", table,
        TableIdentity(args, table, IF key THEN "source_schema" ELSE "schema", 0),
        {f} \cup Flags(IsTrue(args, "postgresql_not_valid"), "not valid")) >>)

Execute(args) ==
    When(StringAt(args, 1, "sqltext") # "", << Operation("ExecuteSql", "", NoIdentity, {}) >>)

ExtractOperation(f, args, unconditional, direct) ==
    CASE f = "create_table" -> CreateTable(args, unconditional, direct)
      [] f \in {"create_index", "drop_index"} -> ChangeIndex(f, args)
      [] f = "drop_column" -> DropColumn(args)
      [] f = "add_column" -> AddColumn(args)
      [] f = "alter_column" -> AlterColumn(args)
      [] f = "create_unique_constraint" -> AddUnique(args)
      [] f = "rename_table" -> RenameTable(args)
      [] f = "drop_table" -> DropTable(args)
      [] f \in Constraints -> AddConstraint(f, args)
      [] f = "execute" -> Execute(args)
      [] OTHER -> <<>>

-----------------------------------------------------------------------------
(* The same call to Alembic: Python drops the comments, fills parameters   *)
(* in order, then by keyword; what `**options` holds is not known.         *)

Parameters ==
    [create_table |-> <<"table_name">>,
     create_index |-> <<"index_name", "table_name", "columns">>,
     drop_index |-> <<"index_name", "table_name">>,
     drop_column |-> <<"table_name", "column_name">>,
     add_column |-> <<"table_name", "column">>,
     alter_column |-> <<"table_name", "column_name", "nullable", "comment", "server_default", "new_column_name",
                        "type_", "existing_type", "existing_server_default", "existing_nullable",
                        "existing_comment", "schema">>,
     create_unique_constraint |-> <<"constraint_name", "table_name", "columns">>,
     rename_table |-> <<"old_table_name", "new_table_name">>,
     drop_table |-> <<"table_name">>,
     create_foreign_key |-> <<"constraint_name", "source_table", "referent_table">>,
     create_check_constraint |-> <<"constraint_name", "table_name", "condition">>,
     create_exclude_constraint |-> <<"constraint_name", "table_name">>,
     execute |-> <<"sqltext">>]

\* The places of the positional values, and which of them the j-th child is.
ValuePlaces(args) == {j \in DOMAIN args.positional : args.positional[j] \notin {Comment, Options}}
Ordinal(args, j) == Cardinality({i \in ValuePlaces(args) : i <= j})

Given(f, args, parameter) ==
    LET names == IF f \in DOMAIN Parameters THEN Parameters[f] ELSE <<>>
        places == {j \in ValuePlaces(args) : Ordinal(args, j) \in DOMAIN names /\ names[Ordinal(args, j)] = parameter}
    IN IF places # {} THEN args.positional[CHOOSE j \in places : TRUE] ELSE KeywordValue(args, parameter)

\* A list of arguments without a comment.
Uncommented(args) ==
    /\ Len(args.positional) \in Nat /\ DOMAIN args.positional = 1..Len(args.positional)
    /\ \A i \in DOMAIN args.positional : args.positional[i].node # "comment"
ArgumentValues(args) == Range(args.positional) \cup Range(args.keywords)
\* A call Python accepts, without a comment or a `*rest` among its arguments:
\* `**options` are the last, and no parameter is given twice.  `**options` may
\* stand in the place of a parameter that is given by keyword.
WellFormed(f, args) ==
    /\ Uncommented(args)
    /\ \A v \in ArgumentValues(args) : v.node # "list_splat" /\ (v.node = "call" => Uncommented(v.args))
    /\ \A i, j \in DOMAIN args.positional : i < j /\ args.positional[i] = Options => args.positional[j] = Options
    /\ f \in DOMAIN Parameters =>
          \A i \in DOMAIN args.positional \cap DOMAIN Parameters[f] :
             args.positional[i] = Options \/ Parameters[f][i] \notin DOMAIN args.keywords
\* add_column(table, column=c, **options): `**options` in the column's place.
OptionsInPlace(f, args) == f = "add_column" /\ NthValue(args, 2) = Options

\* The tables the call may touch: the schema may come from anywhere else.
Touches(f, args, schemas) ==
    LET name == StaticString(Given(f, args, CASE f = "create_foreign_key" -> "source_table"
                                               [] f = "rename_table" -> "new_table_name" [] OTHER -> "table_name"))
        schema == Given(f, args, IF f = "create_foreign_key" THEN "source_schema" ELSE "schema")
    IN {Identity(s, name) : s \in CASE schema = Missing -> IF HasOptions(args) THEN schemas ELSE {NoSchema}
                                    [] schema.text = "None" -> {NoSchema}
                                    [] schema.node = "string" /\ schema.text \notin {"", "None"} -> {schema.text}
                                    [] OTHER -> schemas}
\* Whether it may leave a table that is there alone.
MayKeep(f, args) ==
    \/ Given(f, args, "if_not_exists").node = "identifier" /\ Given(f, args, "if_not_exists").text \notin {"None", "False"}
    \/ HasOptions(args)

NamesColumn(v) ==
    /\ v.node = "call" /\ v.text \in Constructors
    /\ \E i \in DOMAIN v.args.positional : /\ StaticString(v.args.positional[i]) # ""
                                          /\ \A j \in 1..i - 1 : v.args.positional[j] = Comment

\* What the README promises to see of it.
Meaning(f, args) ==
    LET Static(p) == StaticString(Given(f, args, p)) # ""
        Set(p) == Given(f, args, p) # Missing /\ Given(f, args, p).text # "None"
        column == Given(f, args, "column")
        Index(adds) == IndexType(adds, IsTrue(args, "postgresql_concurrently"))
        What(type, detail) == [type |-> type, detail |-> detail]
        If(condition, type, detail) == IF condition THEN {What(type, detail)} ELSE {}
    IN CASE f = "create_table" -> If(Static("table_name"), "CreateModel", {})
         [] f = "create_index" -> If(Static("table_name"), Index(TRUE), {})
         [] f = "drop_index" -> If(TRUE, Index(FALSE), {})
         [] f = "drop_column" -> If(Static("table_name") /\ Static("column_name"), "RemoveField", {})
         [] f = "add_column" ->
                IF ~Static("table_name") \/ ~NamesColumn(column) THEN {}
                ELSE If(TRUE, "AddField", ColumnFlags(column.args) \cap {"relation", "not null", "default"})
                     \cup If(IsTrue(column.args, "unique"), "AddConstraint", {"unique"})
                     \cup If(IsTrue(column.args, "index"), "AddIndex", {})
         [] f = "alter_column" ->
                IF ~Static("table_name") \/ ~Static("column_name") THEN {}
                ELSE If(Given(f, args, "nullable").text = "False", "AlterField", {"not null"})
                     \cup If(Set("type_"), "AlterField", {"type"})
                     \cup If(Static("new_column_name"), "RenameField", {})
         [] f = "create_unique_constraint" -> If(Static("table_name"), "AddConstraint", {"unique"})
         [] f = "rename_table" -> If(Static("old_table_name") /\ Static("new_table_name"), "RenameModel", {})
         [] f = "drop_table" -> If(Static("table_name"), "DeleteModel", {})
         [] f = "create_foreign_key" ->
                If(Static("source_table"), "AddConstraint", {f} \cup Flags(IsTrue(args, "postgresql_not_valid"), "not valid"))
         [] f \in Constraints \ {"create_foreign_key"} ->
                If(Static("table_name"), "AddConstraint", {f} \cup Flags(IsTrue(args, "postgresql_not_valid"), "not valid"))
         [] f = "execute" -> If(Static("sqltext"), "ExecuteSql", {})
         [] OTHER -> {}
=============================================================================
