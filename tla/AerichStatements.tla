-------------------------- MODULE AerichStatements --------------------------
(***************************************************************************)
(* What one SQL statement of an Aerich revision becomes: extract_sql and   *)
(* extract_statement of src/ast/aerich.rs, which look for words in order   *)
(* and for the identifier after a word, beside the grammar of the          *)
(* statements they read.                                                   *)
(*                                                                         *)
(* A statement is the sequence of its tokens.  sql_words drops what is no  *)
(* word; a quoted name is one token and no keyword.                        *)
(***************************************************************************)
EXTENDS MigrationOperations

CONSTANT Fold(_)   \* PostgreSQL's lower case of an unquoted name

Token(text, quoted) == [text |-> text, quoted |-> quoted]
Plain(texts) == [i \in DOMAIN texts |-> Token(texts[i], FALSE)]
Punctuation == {".", ",", "(", ")"}
IsWord(t) == t.text \notin Punctuation

-----------------------------------------------------------------------------
(* Words.                                                                  *)

SqlWords(s) == SelectSeq(s, IsWord)
StartsWithWords(s, words) ==
    LET actual == SqlWords(s)
    IN Len(actual) >= Len(words) /\ \A i \in DOMAIN words : actual[i].text = words[i]
ContainsInOrder(s, words) ==
    FoldLeft(LAMBDA found, t : IF found < Len(words) /\ t.text = words[found + 1] THEN found + 1 ELSE found, 0, s)
        = Len(words)
ContainsWord(s, word) == \E i \in DOMAIN s : s[i].text = word

From(s, i) == SubSeq(s, i, Len(s))
Leads(s, i, text) == i \in DOMAIN s /\ s[i].text = text
SkipWord(s, i, word) == IF Leads(s, i, word) THEN i + 1 ELSE i
IsIdentifier(s, i) == i \in DOMAIN s /\ IsWord(s[i])

\* parse_identifier
ParseIdentifier(s, from) ==
    LET i == SkipWord(s, SkipWord(s, SkipWord(s, from, "IF"), "NOT"), "EXISTS")
    IN CASE ~IsIdentifier(s, i) -> NoIdentity
         [] IsIdentifier(s, i) /\ ~Leads(s, i + 1, ".") -> Identity(NoSchema, s[i].text)
         [] OTHER -> IF IsIdentifier(s, i + 2) THEN Identity(s[i].text, s[i + 2].text) ELSE NoIdentity

IdentifierAfter(s, keyword) ==
    LET places == {i \in DOMAIN s : s[i].text = keyword}
    IN IF places = {} THEN NoIdentity
       ELSE ParseIdentifier(s, (CHOOSE i \in places : \A j \in places : i <= j) + 1)

TableConstraints == {"CONSTRAINT", "UNIQUE", "PRIMARY", "FOREIGN", "CHECK", "EXCLUDE"}
AddsColumn(s) ==
    LET places == {i \in DOMAIN s : s[i].text = "ADD"}
    IN /\ places # {}
       /\ LET first == CHOOSE i \in places : \A j \in places : i <= j
              column == ParseIdentifier(s, SkipWord(s, first + 1, "COLUMN"))
          IN column # NoIdentity /\ column.name \notin TableConstraints

-----------------------------------------------------------------------------
(* model_drop_target: absence evidence may authorize only a completely     *)
(* understood single drop.                                                 *)

ModelIdentifier(t) == IF t.quoted THEN t.text ELSE Fold(t.text)

\* Mutant: what follows the column is not looked at.
DropTargetOfFirst(s) ==
    LET named == IF Leads(s, 4, ".") THEN 5 ELSE 3
    IN IF Leads(s, named + 1, "DROP") /\ Leads(s, named + 2, "COLUMN") /\ IsIdentifier(s, named + 3)
       THEN Identity(IF named = 5 THEN ModelIdentifier(s[3]) ELSE NoSchema, ModelIdentifier(s[named])) ELSE NoIdentity
DropTarget(s) ==
    LET named == IF Leads(s, 4, ".") THEN 5 ELSE 3      \* the table's place
        column == named + 3
        table == IF named = 5 THEN Identity(ModelIdentifier(s[3]), ModelIdentifier(s[5]))
                 ELSE Identity(NoSchema, ModelIdentifier(s[3]))
        rest == IF Leads(s, column + 1, "CASCADE") \/ Leads(s, column + 1, "RESTRICT") THEN column + 2 ELSE column + 1
    IN IF /\ StartsWithWords(s, <<"ALTER", "TABLE">>) /\ IsIdentifier(s, 3) /\ IsIdentifier(s, named)
          /\ Leads(s, named + 1, "DROP") /\ Leads(s, named + 2, "COLUMN") /\ IsIdentifier(s, column)
          /\ rest > Len(s)
       THEN table ELSE NoIdentity

-----------------------------------------------------------------------------
(* extract_statement                                                       *)

Table(s) == IdentifierAfter(s, "TABLE")
OnTable(type, table, detail) == When(table # NoIdentity, << Operation(type, table.name, table, detail) >>)
RawSql == << Operation("ExecuteSql", "", NoIdentity, {}) >>

IsIndex(s, verb) ==
    StartsWithWords(s, <<verb, "INDEX">>) \/ StartsWithWords(s, <<verb, "UNIQUE", "INDEX">>)
Concurrently(s, verb) ==
    StartsWithWords(s, <<verb, "INDEX", "CONCURRENTLY">>) \/ StartsWithWords(s, <<verb, "UNIQUE", "INDEX", "CONCURRENTLY">>)

\* Mutant: IF NOT EXISTS makes no difference.
CertainTableAlways(s, unconditional, generated) == unconditional
\* generated is <<an initial revision by its name, a revision with MODELS_STATE>>.
CertainTable(s, unconditional, generated) ==
    unconditional /\ (generated[1] \/ generated[2] \/ ~ContainsInOrder(s, <<"IF", "NOT", "EXISTS">>))

CreateTableOf(s, unconditional, generated) ==
    LET table == Table(s) IN
    When(table # NoIdentity, << Operation("CreateModel", table.name,
        IF CertainTable(s, unconditional, generated) THEN table ELSE NoIdentity, {}) >>)

RenamesConstraint(s) == ContainsInOrder(s, <<"RENAME", "CONSTRAINT">>)
RenamesColumn(s) ==
    /\ ~RenamesConstraint(s)
    /\ \/ ContainsInOrder(s, <<"RENAME", "COLUMN">>)
       \/ IdentifierAfter(s, "RENAME") # NoIdentity /\ IdentifierAfter(s, "RENAME").name # "TO"
RenamesTable(s) == ContainsInOrder(s, <<"RENAME", "TO">>) /\ ~RenamesColumn(s) /\ ~RenamesConstraint(s)

ChangesType(s) ==
    ContainsInOrder(s, <<"ALTER", "COLUMN", "TYPE">>) \/ ContainsInOrder(s, <<"ALTER", "COLUMN", "SET", "DATA", "TYPE">>)
SetsNotNull(s) == ContainsInOrder(s, <<"ALTER", "COLUMN", "SET", "NOT", "NULL">>)

ColumnDetail(s) ==
    Flags(ContainsWord(s, "REFERENCES"), "relation") \cup Flags(ContainsWord(s, "UNIQUE"), "unique")
    \cup Flags(ContainsInOrder(s, <<"NOT", "NULL">>), "not null") \cup Flags(ContainsWord(s, "DEFAULT"), "default")


NotValid(s) == Len(s) > 2 /\ s[Len(s) - 1].text = "NOT" /\ s[Len(s)].text = "VALID"
ConstraintType(s) ==
    IF ContainsInOrder(s, <<"FOREIGN", "KEY">>) THEN "foreign key"
    ELSE IF ContainsWord(s, "CHECK") THEN "check"
    ELSE IF ContainsWord(s, "EXCLUDE") THEN "exclusion"
    ELSE IF ContainsWord(s, "UNIQUE") THEN "unique" ELSE "other"
AddConstraintOf(s) ==
    CASE ConstraintType(s) = "other" -> RawSql
      [] ConstraintType(s) = "unique" /\ ContainsInOrder(s, <<"USING", "INDEX">>) -> <<>>
      [] OTHER -> OnTable("AddConstraint", Table(s), {ConstraintType(s)} \cup Flags(NotValid(s), "not valid"))

\* The first reading of an ALTER TABLE that fits is the only one.
AlterTable(s) ==
    IF Table(s) = NoIdentity THEN <<>>
    ELSE IF RenamesTable(s) THEN
         LET new == Identity(Table(s).schema, IdentifierAfter(s, "TO").name) IN OnTable("RenameModel", new, {Table(s).name})
    ELSE IF ContainsInOrder(s, <<"DROP", "COLUMN">>) THEN << Operation("RemoveField", Table(s).name, DropTarget(s), {}) >>
    ELSE IF RenamesColumn(s) THEN OnTable("RenameField", Table(s), {})
    ELSE IF ChangesType(s) THEN OnTable("AlterField", Table(s), {"type"})
    ELSE IF SetsNotNull(s) THEN OnTable("AlterField", Table(s), {"not null"})
    ELSE IF AddsColumn(s) THEN
         OnTable("AddField", Table(s), ColumnDetail(s))
         \o When("unique" \in ColumnDetail(s), OnTable("AddConstraint", Table(s), {"unique"}))
    ELSE IF ContainsWord(s, "ADD") /\ ContainsWord(s, "CONSTRAINT") THEN AddConstraintOf(s)
    ELSE RawSql

ExtractStatement(s, unconditional, generated) ==
    CASE IsIndex(s, "CREATE") -> OnTable(IndexType(TRUE, Concurrently(s, "CREATE")), IdentifierAfter(s, "ON"), {})
      [] StartsWithWords(s, <<"DROP", "INDEX">>) ->
             << Operation(IndexType(FALSE, Concurrently(s, "DROP")), "", NoIdentity, {}) >>
      [] StartsWithWords(s, <<"CREATE", "TABLE">>) -> CreateTableOf(s, unconditional, generated)
      [] StartsWithWords(s, <<"DROP", "TABLE">>) -> OnTable("DeleteModel", Table(s), {})
      [] StartsWithWords(s, <<"ALTER", "TABLE">>) -> AlterTable(s)
      [] \E what \in {"TABLE", "COLUMN"} : StartsWithWords(s, <<"COMMENT", "ON", what>>) ->
             IF generated[1] THEN <<>> ELSE RawSql
      [] OTHER -> RawSql

\* A DO block counts from its first ALTER TABLE on.
InDoBlock(s) ==
    LET alters == {i \in DOMAIN s : Leads(s, i, "ALTER") /\ Leads(s, i + 1, "TABLE")}
    IN IF StartsWithWords(s, <<"DO">>) /\ alters # {}
       THEN From(s, CHOOSE i \in alters : \A j \in alters : i <= j) ELSE s

\* extract_sql: the statements of one script, in order.
ExtractSql(script, unconditional, generated) ==
    FlattenSeq([i \in DOMAIN script |-> ExtractStatement(InDoBlock(script[i]), unconditional, generated)])

-----------------------------------------------------------------------------
(* PostgreSQL's grammar of ALTER TABLE, as far as the README goes.  An     *)
(* action is [tokens, type, detail]; "ExecuteSql" is one no rule is about. *)

Action(texts, type, detail) == [tokens |-> Plain(texts), type |-> type, detail |-> detail]

Spelled == {
    Action(<<"DROP", "COLUMN", "total">>, "RemoveField", {}),
    Action(<<"DROP", "COLUMN", "total", "CASCADE">>, "RemoveField", {}),
    Action(<<"DROP", "COLUMN", "IF", "EXISTS", "total">>, "RemoveField", {}),
    Action(<<"ADD", "COLUMN", "IF", "NOT", "EXISTS", "total", "int">>, "AddField", {}),
    Action(<<"ADD", "total", "int", "NOT", "NULL", "DEFAULT", "0">>, "AddField", {"not null", "default"}),
    Action(<<"ADD", "COLUMN", "total", "int", "UNIQUE">>, "AddField", {"unique"}),
    Action(<<"ADD", "COLUMN", "total", "int", "REFERENCES", "users">>, "AddField", {"relation"}),
    Action(<<"ADD", "CONSTRAINT", "c", "CHECK", "(", "total", ")">>, "AddConstraint", {"check"}),
    Action(<<"ADD", "CONSTRAINT", "c", "CHECK", "(", "total", ")", "NOT", "VALID">>, "AddConstraint", {"check", "not valid"}),
    Action(<<"ADD", "CONSTRAINT", "c", "FOREIGN", "KEY", "(", "total", ")", "REFERENCES", "users">>, "AddConstraint", {"foreign key"}),
    Action(<<"ADD", "CONSTRAINT", "c", "UNIQUE", "(", "total", ")">>, "AddConstraint", {"unique"}),
    Action(<<"ADD", "CONSTRAINT", "c", "UNIQUE", "USING", "INDEX", "i">>, "none", {}),
    Action(<<"DROP", "CONSTRAINT", "c">>, "ExecuteSql", {}),
    Action(<<"VALIDATE", "CONSTRAINT", "c">>, "ExecuteSql", {}),
    Action(<<"ALTER", "COLUMN", "total", "TYPE", "bigint">>, "AlterField", {"type"}),
    Action(<<"ALTER", "COLUMN", "total", "SET", "DATA", "TYPE", "bigint">>, "AlterField", {"type"}),
    Action(<<"ALTER", "COLUMN", "total", "SET", "NOT", "NULL">>, "AlterField", {"not null"}),
    Action(<<"ALTER", "COLUMN", "total", "DROP", "NOT", "NULL">>, "ExecuteSql", {}),
    Action(<<"ALTER", "COLUMN", "total", "SET", "DEFAULT", "0">>, "ExecuteSql", {}),
    Action(<<"RENAME", "TO", "orders">>, "RenameModel", {}),
    Action(<<"RENAME", "COLUMN", "total", "TO", "sum">>, "RenameField", {}),
    Action(<<"RENAME", "total", "TO", "sum">>, "RenameField", {}),
    Action(<<"RENAME", "CONSTRAINT", "c", "TO", "d">>, "ExecuteSql", {})}

\* ALTER TABLE <before> <names> <actions>: before is <<>>, IF EXISTS or ONLY.
AlterStatement(before, name, actions) ==
    Plain(<<"ALTER", "TABLE">>) \o Plain(before) \o name
    \o FoldLeft(LAMBDA s, a : IF s = <<>> THEN a.tokens ELSE s \o Plain(<<",">>) \o a.tokens, <<>>, actions)

\* ALTER TABLE of PostgreSQL: what stands before the name, the word or `*` that
\* follows it, and a name of one or two words.
BeforeName == {<<>>, <<"ONLY">>, <<"IF", "EXISTS">>, <<"IF", "EXISTS", "ONLY">>}
Verbs == {"*", "ADD", "DROP", "ALTER", "RENAME", "VALIDATE", "SET", "RESET", "OWNER", "ENABLE", "DISABLE", "FORCE", "CLUSTER",
          "INHERIT", "NO", "NOT", "OF", "REPLICA", "ATTACH", "DETACH"}
IsTableName(name) == IsWord(name[1]) /\ (Len(name) = 3 => name[2].text = "." /\ IsWord(name[3]))

\* The table PostgreSQL means by a name of one or two tokens.
Denotes(name) ==
    IF Len(name) = 1 THEN Identity(NoSchema, ModelIdentifier(name[1]))
    ELSE Identity(ModelIdentifier(name[1]), ModelIdentifier(name[3]))
=============================================================================
