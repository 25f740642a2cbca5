----------------------------- MODULE DjangoCalls -----------------------------
(***************************************************************************)
(* The expressions of a Django migration as src/ast/extractor.rs reads     *)
(* them: the arguments of an operation, string literals, and the facts the *)
(* rules ask of an operation -- beside what Python binds and Django does.  *)
(***************************************************************************)
EXTENDS Naturals, Sequences, FiniteSets, SequencesExt

Str(pieces) == [kind |-> "string", raw |-> FALSE, pieces |-> pieces]
RawStr(pieces) == [kind |-> "string", raw |-> TRUE, pieces |-> pieces]
Concatenated(strings) == [kind |-> "concatenated_string", items |-> strings]
List(items) == [kind |-> "list", items |-> items]
Tuple(items) == [kind |-> "tuple", items |-> items]
Ident(name) == [kind |-> "identifier", name |-> name]
Word(text) == [kind |-> "word", text |-> text]           \* None, True, set(), f(x), ...
Noop == [kind |-> "attribute", text |-> "migrations.RunSQL.noop"]
Call(path, args) == [kind |-> "call", path |-> path, args |-> args]  \* path: the dotted name
Comment == [kind |-> "comment"]
Splat(value) == [kind |-> "list_splat", value |-> value]
Interpolation == "{expression}"

Positional(value) == [key |-> "", value |-> value]
Keyword(key, value) == [key |-> key, value |-> value]

Strings == {"string", "concatenated_string"}
Sequences == {"list", "tuple"}
IsComment(node) == node.kind = "comment"
NotComment(node) == ~IsComment(node)
Called(node) == Last(node.path)

-----------------------------------------------------------------------------
(* Arguments: the keyword, else the n-th value that is neither a keyword   *)
(* nor a comment.  {} is None of an Option, else the set of its value.     *)

Places(args) == {i \in DOMAIN args : args[i].key = "" /\ NotComment(args[i].value)}
Ordinal(args, i) == Cardinality({j \in Places(args) : j <= i})
KeywordValue(args, key) == {args[i].value : i \in {j \in DOMAIN args : args[j].key = key}}
NthPositional(args, n) == {args[i].value : i \in {j \in Places(args) : Ordinal(args, j) = n + 1}}
Argument(args, key, n) ==
    IF KeywordValue(args, key) # {} THEN KeywordValue(args, key) ELSE NthPositional(args, n)

\* The texts one after the other, sep between each two of them.
Joined(before, part, sep) ==
    IF before = {} \/ part = {} THEN before \cup part ELSE {a \o sep \o b : a \in before, b \in part}
Join(parts, sep) ==
    LET upTo[n \in 0..Len(parts)] == IF n = 0 THEN {} ELSE Joined(upTo[n - 1], parts[n], sep)
    IN upTo[Len(parts)]

\* string_content and escape_sequence children; an f-string has no value.
Decode(raw, piece) == IF piece = "\\n" /\ ~raw THEN "newline" ELSE piece
LiteralText(node) ==
    IF Interpolation \in Range(node.pieces) THEN <<>>
    ELSE [i \in DOMAIN node.pieces |-> Decode(node.raw, node.pieces[i])]
StringValue(node) ==
    CASE node.kind = "string" -> {LiteralText(node)}
      [] node.kind = "concatenated_string" ->
            Join([i \in DOMAIN node.items |-> {LiteralText(node.items[i])}], <<>>)
      [] OTHER -> {<<node>>}    \* the text of the node
StringOf(args, key, n) == UNION {StringValue(v) : v \in Argument(args, key, n)}

-----------------------------------------------------------------------------
(* What the rules ask of one operation.                                    *)

IndexTypes == {"AddIndex", "AddIndexConcurrently", "RemoveIndex", "RemoveIndexConcurrently"}
ModelTypes == {"CreateModel", "DeleteModel", "AlterModelTable"}
FieldTypes == {"AddField", "RemoveField", "AlterField", "RenameField"}
WithField == {"AddField", "AlterField"}
ConstraintTypes == {"AddConstraint", "RemoveConstraint"}
TogetherTypes == {"AlterUniqueTogether", "AlterIndexTogether"}
Together(type) == IF type = "AlterUniqueTogether" THEN "unique_together" ELSE "index_together"

Flag(condition, flag) == IF condition THEN {flag} ELSE {}
KwargEquals(node, key, text) == Word(text) \in KeywordValue(node.args, key)
\* Mutant: default=None counts as a default.
HasKwarg(node, key) == KeywordValue(node.args, key) # {}
HasNonNullKwarg(node, key) ==
    \E v \in KeywordValue(node.args, key) : v \notin {Word("None"), Word("models.NOT_PROVIDED")}

FieldInfo(node) ==
    LET type == Called(node)
    IN Flag(type \in {"ForeignKey", "OneToOneField"}, "relation")
       \cup Flag(type = "ForeignKey", "foreign key")
       \cup Flag(KwargEquals(node, "db_constraint", "False"), "unconstrained")
       \cup Flag(\/ KwargEquals(node, "db_index", "True")
                 \/ type = "SlugField" /\ ~KwargEquals(node, "db_index", "False"), "indexed")
       \cup Flag(KwargEquals(node, "db_index", "False"), "index disabled")
       \cup Flag(KwargEquals(node, "unique", "True") \/ KwargEquals(node, "primary_key", "True"), "unique")
       \cup Flag(KwargEquals(node, "null", "True"), "nullable")
       \cup Flag(HasNonNullKwarg(node, "default"), "default")
       \cup Flag(HasNonNullKwarg(node, "db_default"), "db_default")

IsEmpty(node) == \/ node \in {Word("None"), Word("set()")}
                 \/ node.kind \in Sequences /\ node.items = <<>>
IsEmptyQ(node) == node \in {Word("None"), Word("Q()"), Word("models.Q()")}
StateOnly(node) ==
    \/ Places(node.args) # {}
    \/ \E v \in KeywordValue(node.args, "condition") : ~IsEmptyQ(v)
    \/ \E key \in {"include", "opclasses"} : \E v \in KeywordValue(node.args, key) : ~IsEmpty(v)
ConstraintInfo(node) ==
    CASE Called(node) = "UniqueConstraint" -> {"unique"} \cup Flag(StateOnly(node), "state only")
      [] Called(node) = "CheckConstraint" -> {"check"}
      [] Called(node) = "ExclusionConstraint" -> {"exclusion"}
      [] OTHER -> {}

\* A call's facts; an identifier or another expression has none.
FactsOf(nodes, Facts(_)) == UNION {Facts(v) : v \in {n \in nodes : n.kind = "call"}}

Data(type, args) ==
    CASE type \in IndexTypes -> [model |-> StringOf(args, "model_name", 0)]
      [] type = "RenameModel" ->
            [old |-> StringOf(args, "old_name", 0), name |-> StringOf(args, "new_name", 1)]
      [] type \in ModelTypes -> [name |-> StringOf(args, "name", 0)]
      [] type = "RenameField" ->
            [model |-> StringOf(args, "model_name", 0),
             old |-> StringOf(args, "old_name", 1), new |-> StringOf(args, "new_name", 2)]
      [] type \in FieldTypes \ {"RenameField"} ->
            [model |-> StringOf(args, "model_name", 0), name |-> StringOf(args, "name", 1),
             facts |-> IF type \in WithField THEN FactsOf(Argument(args, "field", 2), FieldInfo) ELSE {}]
      [] type \in ConstraintTypes ->
            [model |-> StringOf(args, "model_name", 0),
             facts |-> FactsOf(Argument(args, "constraint", 1), ConstraintInfo)]
      [] type \in TogetherTypes ->
            [model |-> StringOf(args, "name", 0),
             facts |-> Flag(\E v \in Argument(args, Together(type), 1) : ~IsEmpty(v), "adds")]
      [] type = "RunPython" ->
            [code |-> StringOf(args, "code", 0),
             facts |-> Flag(\E v \in Argument(args, "reverse_code", 1) : v # Word("None"), "reverse")]
      [] OTHER -> <<>>

-----------------------------------------------------------------------------
(* Python and Django.                                                      *)

Signature(type) ==
    CASE type \in {"AddIndex", "AddIndexConcurrently"} -> <<"model_name", "index">>
      [] type \in {"RemoveIndex", "RemoveIndexConcurrently", "RemoveField", "RemoveConstraint"} -> <<"model_name", "name">>
      [] type = "CreateModel" -> <<"name", "fields", "options", "bases", "managers">>
      [] type = "DeleteModel" -> <<"name">>
      [] type = "RenameModel" -> <<"old_name", "new_name">>
      [] type = "AlterModelTable" -> <<"name", "table">>
      [] type \in WithField -> <<"model_name", "name", "field", "preserve_default">>
      [] type = "RenameField" -> <<"model_name", "old_name", "new_name">>
      [] type = "AddConstraint" -> <<"model_name", "constraint">>
      [] type \in TogetherTypes -> <<"name", Together(type)>>
      [] type = "RunSQL" -> <<"sql", "reverse_sql", "state_operations", "hints", "elidable">>
      [] type = "RunPython" -> <<"code", "reverse_code", "atomic", "hints", "elidable">>
      [] type = "SeparateDatabaseAndState" -> <<"database_operations", "state_operations">>
      [] OTHER -> <<>>

\* The arguments bound to the parameters, comments gone.
Parameter(type, args, p) ==
    {args[i].value : i \in {j \in DOMAIN args :
        \/ args[j].key = p
        \/ /\ j \in Places(args) /\ Ordinal(args, j) \in DOMAIN Signature(type)
           /\ Signature(type)[Ordinal(args, j)] = p}}
\* A call that Python and Django accept: parameters are given once, keywords
\* after the values, none that is unknown; and no constraint for a name.
Accepted(type, args) ==
    /\ \A i, j \in DOMAIN args : args[i].key = args[j].key /\ args[i].key # "" => i = j
    /\ \A i \in DOMAIN args : args[i].key # "" => NotComment(args[i].value)
    /\ Signature(type) # <<>> =>
          /\ \A i \in DOMAIN args : args[i].key # "" => args[i].key \in Range(Signature(type))
          /\ \A i \in Places(args), j \in DOMAIN args : Ordinal(args, i) \in DOMAIN Signature(type) =>
                args[j].key # Signature(type)[Ordinal(args, i)]
    /\ type = "RemoveConstraint" => \A v \in Parameter(type, args, "name") : v.kind # "call"

\* The value of a literal, and its statements if it is SQL.
Unescaped(node) == [i \in DOMAIN node.pieces |->
    IF node.pieces[i] = "\\n" /\ ~node.raw THEN "newline" ELSE node.pieces[i]]
PythonText(node) ==
    IF node.kind = "string" THEN {Unescaped(node)}
    ELSE Join([i \in DOMAIN node.items |-> {Unescaped(node.items[i])}], <<>>)
Value(node) == IF node.kind \in Strings THEN PythonText(node) ELSE {<<node>>}
Bound(type, args, p) == UNION {Value(v) : v \in Parameter(type, args, p)}
Interpolated(node) ==
    CASE node.kind = "string" -> Interpolation \in Range(node.pieces)
      [] node.kind = "concatenated_string" ->
            \E i \in DOMAIN node.items : Interpolation \in Range(node.items[i].pieces)
      [] OTHER -> FALSE
Bare(node) == node.kind \in Sequences /\ \A i \in DOMAIN node.items : IsComment(node.items[i])
\* No argument is an f-string, or a sequence of nothing but comments, which the
\* code compares with the text of an empty one.
Plain(args) == \A i \in DOMAIN args : ~Interpolated(args[i].value) /\ (Bare(args[i].value) => args[i].value.items = <<>>)

True(node, key) == KeywordValue(node.args, key) = {Word("True")}
False(node, key) == KeywordValue(node.args, key) = {Word("False")}
Provided(node, key) == KeywordValue(node.args, key) \notin {{}, {Word("None")}, {Word("models.NOT_PROVIDED")}}
\* What Django is certain to do for a field, and for a constraint.
FieldMeans(node) ==
    LET type == Called(node)
    IN {f \in {"relation", "foreign key", "unconstrained", "indexed", "index disabled", "unique", "nullable",
               "default", "db_default"} :
          CASE f = "relation" -> type \in {"ForeignKey", "OneToOneField"}
            [] f = "foreign key" -> type = "ForeignKey"
            [] f = "unconstrained" -> False(node, "db_constraint")
            [] f = "indexed" -> IF type = "SlugField" THEN ~False(node, "db_index") ELSE True(node, "db_index")
            [] f = "index disabled" -> False(node, "db_index")
            [] f = "unique" -> True(node, "unique") \/ True(node, "primary_key")
            [] f = "nullable" -> True(node, "null")
            [] f \in {"default", "db_default"} -> Provided(node, f)}
\* A conditional, covering or expression constraint is a unique index instead.
Falsy(node) == node \in {Word("None"), Word("set()")} \/ Bare(node)
FalsyQ(node) == node \in {Word("None"), Word("Q()"), Word("models.Q()")}
ConstraintMeans(node) ==
    LET asIndex == \E i \in DOMAIN node.args :
            LET a == node.args[i]
            IN CASE a.key = "" -> NotComment(a.value)
                 [] a.key = "condition" -> ~FalsyQ(a.value)
                 [] a.key \in {"include", "opclasses"} -> ~Falsy(a.value)
                 [] OTHER -> FALSE
    IN CASE Called(node) = "UniqueConstraint" -> IF asIndex THEN {"unique", "state only"} ELSE {"unique"}
         [] Called(node) = "CheckConstraint" -> {"check"}
         [] Called(node) = "ExclusionConstraint" -> {"exclusion"}
         [] OTHER -> {}

Means(type, args) ==
    LET Given(p) == Bound(type, args, p)
        Facts(p, Of(_)) == FactsOf(Parameter(type, args, p), Of)
    IN CASE type \in IndexTypes -> [model |-> Given("model_name")]
         [] type = "RenameModel" -> [old |-> Given("old_name"), name |-> Given("new_name")]
         [] type \in ModelTypes -> [name |-> Given("name")]
         [] type = "RenameField" ->
               [model |-> Given("model_name"), old |-> Given("old_name"), new |-> Given("new_name")]
         [] type \in FieldTypes \ {"RenameField"} ->
               [model |-> Given("model_name"), name |-> Given("name"),
                facts |-> IF type \in WithField THEN Facts("field", FieldMeans) ELSE {}]
         [] type = "AddConstraint" -> [model |-> Given("model_name"), facts |-> Facts("constraint", ConstraintMeans)]
         [] type = "RemoveConstraint" -> [model |-> Given("model_name"), facts |-> {}]
         [] type \in TogetherTypes ->
               [model |-> Given("name"),
                facts |-> IF \A v \in Parameter(type, args, Together(type)) : Falsy(v) THEN {} ELSE {"adds"}]
         [] type = "RunPython" ->
               [code |-> Given("code"),
                facts |-> IF Parameter(type, args, "reverse_code") \subseteq {Word("None")} THEN {} ELSE {"reverse"}]
         [] OTHER -> <<>>
=============================================================================
