-------------------------- MODULE MCModelEvidence --------------------------
(* TLC instance of ModelEvidence: two modules app.a and app.b.             *)
EXTENDS ModelEvidence, TLC

None == [x \in {} |-> Leaf("Other")]
A == <<"app", "a">>
B == <<"app", "b">>
Link == <<"app", "link">>
Notes == <<"app", "notes">>
File(python, size) == [regular |-> TRUE, python |-> python, size |-> size]
Both == A :> File(TRUE, 1) @@ B :> File(TRUE, 1)

MCSnapshots == {Both @@ Notes :> File(FALSE, 9), Notes :> File(FALSE, 1),
                Both @@ Link :> [regular |-> FALSE, python |-> FALSE, size |-> 0],
                A :> File(TRUE, 3) @@ B :> File(TRUE, 1)}

Scope(orm, paths) == [orm |-> orm, paths |-> paths]
Sources(list) == [kind |-> "sources", scopes |-> list]
MCConfigFiles == {
    [kind |-> "absent"], [kind |-> "invalid"],
    Sources(<<Scope("sqlalchemy", <<A, <<>>>>)>>),
    Sources(<<Scope("tortoise", <<<<"app">>>>)>>),
    Sources(<<Scope("sqlalchemy", <<A>>), Scope("tortoise", <<<<"app">>>>)>>),
    Sources(<<Scope("sqlalchemy", <<<<"..", "app">>>>)>>), Sources(<<>>)}

Blank0 == [kind |-> "", name |-> "", orm |-> "", value |-> Leaf("Other"), bases |-> <<>>, attrs |-> <<>>,
           meta |-> <<>>, unsupported |-> FALSE, opaque |-> FALSE, decorator |-> {}]
Import(origin, name, alias) ==
    [kind |-> "import", level |-> 0, origin |-> origin, name |-> name, alias |-> alias, orm |-> ""]
Relative(level, name) == [Import(<<>>, name, Last(name)) EXCEPT !.level = level]
Assign(name, value) == [Blank0 EXCEPT !.kind = "assign", !.name = name, !.value = value]
Class(name, bases, attrs) ==
    [Blank0 EXCEPT !.kind = "class", !.name = name, !.bases = bases, !.attrs = attrs]
Local(name) == Name(<<name>>)
Attr(name, value) == [name |-> name, value |-> value, annotation |-> Leaf("Other")]
Typed(name, annotation, value) == [name |-> name, value |-> value, annotation |-> annotation]
Table(t) == Attr("__tablename__", Str(t))

Declarative == Name(<<"sqlalchemy", "orm", "DeclarativeBase">>)
Tortoise == Name(<<"tortoise", "models", "Model">>)
Column0(args) == Call(MappedColumn, args, None)
ColumnC == Column0(<<Str("c")>>)
IntField == Call(<<"tortoise", "fields", "IntField">>, <<>>, None)
IsAnnotated(args) == Subscript(Annotated, args)
MappedAs(e) == Subscript(Mapped, <<e>>)

\* app.a begins with "import app.b", app.b with "import app.a".
InA(name) == Name(Append(A, name))
InB(name) == Name(Append(B, name))

Index == Call(<<"sqlalchemy", "Index">>, <<>>, None)
InSchema(x) == Composite("Dict", Leaf("None"), <<>>, "schema" :> Str(x))
TableArgsOf(items) == Attr("__table_args__", Composite("Tuple", Leaf("None"), items, None))

MCStatements == [
    sqlalchemy |-> (
        B :> {Class("Base", <<Declarative>>, <<>>),
              Class("Mixin", <<>>, <<Attr("x", ColumnC)>>),
              Assign("Col", IsAnnotated(<<Name(<<"int">>), ColumnC>>)),
              Assign("Same", Local("Col")),
              Class("Named", <<>>, <<Table("t")>>), Class("Other", <<>>, <<Table("u")>>),
              [Class("D", <<Local("Base")>>, <<Table("t"), Attr("c", Column0(<<>>))>>) EXCEPT !.kind = "unsupported"]}
        @@
        A :> {Import(B, <<"Base">>, "Base"), Relative(1, <<"b">>),
              Class("T", <<InB("Base")>>, <<Table("t"), Attr("x", Column0(<<>>))>>),
              Class("S", <<InB("Base")>>, <<Table("u"), TableArgsOf(<<Index, InSchema("s")>>)>>),
              Class("U", <<Name(<<"b", "Mixin">>), InB("Base")>>, <<Table("t")>>),
              Class("V", <<Local("Base")>>,
                    <<Table("t"), Typed("x", MappedAs(Subscript(Optional, <<InB("Same")>>)), Leaf("Missing"))>>),
              Class("N", <<Name(<<"ext", "Thing">>), InB("Named"), InB("Base")>>, <<>>),
              Class("N", <<InB("Named"), InB("Other"), InB("Base")>>, <<>>),
              Class("X", <<Local("T")>>, <<Attr("y", Call(<<"custom">>, <<>>, None))>>)}),
    tortoise |-> (
        B :> {[Class("Row", <<Tortoise>>, <<Attr("c", IntField)>>) EXCEPT !.meta = <<Attr("abstract", BoolExpr(TRUE))>>],
              [Class("Row", <<Tortoise>>, <<>>) EXCEPT !.opaque = TRUE]}
        @@
        A :> {Relative(1, <<"b">>), [Blank0 EXCEPT !.kind = "wildcard"] @@ [origin |-> B],
              [Blank0 EXCEPT !.kind = "function", !.name = "Row", !.decorator = {Name(<<"ext", "register">>)}],
              [Class("Row", <<Tortoise>>, <<Attr("x", IntField)>>) EXCEPT !.meta = <<Attr("table", Str("t"))>>],
              Class("Default", <<InB("Row")>>, <<>>),
              [Class("Row", <<Name(<<"b", "Row">>)>>,
                     <<Attr("c", Call(<<"tortoise", "fields", "ForeignKeyField">>, <<>>, None))>>)
                  EXCEPT !.meta = <<Attr("table", Str("t"))>>]})]
AllStatements == UNION {MCStatements[o][p] : o \in DOMAIN MCStatements, p \in {A, B}}
MCPlain == {s \in AllStatements : /\ s.kind \in {"import", "assign", "class"}
                                  /\ s.kind = "class" => s.name # "X" /\ ~s.opaque}
=============================================================================
