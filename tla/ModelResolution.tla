-------------------------- MODULE ModelResolution --------------------------
(***************************************************************************)
(* ModelIndex of src/models/mod.rs: the tables and columns that the classes*)
(* read by ModelSources map, and the answer to whether a column is absent  *)
(* from all of them.                                                       *)
(***************************************************************************)
EXTENDS ModelSources, FiniteSets

CONSTANTS
    MaxClasses,   \* 4096: classes resolved for one class
    MaxVisiting   \* 128: classes on one chain of bases

NoTable == "no table"
NoSchema == "no schema"

Blank == [model |-> FALSE, table |-> NoTable, schema |-> NoSchema, columns |-> {}, unknown |-> FALSE,
          abstractModel |-> FALSE, primaryKey |-> FALSE, identityUnknown |-> FALSE]

\* Doubt about the class, and about which table it is.
Doubt(r) == [r EXCEPT !.unknown = TRUE]
IdentityDoubt(r) == [r EXCEPT !.unknown = TRUE, !.identityUnknown = TRUE]
DoubtIf(r, c) == IF c THEN Doubt(r) ELSE r

-----------------------------------------------------------------------------
(* Fields.                                                                 *)

Mapped == <<"sqlalchemy", "orm", "Mapped">>
Annotated == <<"typing", "Annotated">>
ClassVar == <<"typing", "ClassVar">>
Optional == <<"typing", "Optional">>
UnionType == <<"typing", "Union">>
MappedColumn == <<"sqlalchemy", "orm", "mapped_column">>
Columns == {MappedColumn, <<"sqlalchemy", "Column">>}
Relationship == <<"sqlalchemy", "orm", "relationship">>
Descriptors == {Relationship, <<"sqlalchemy", "orm", "synonym">>}
TortoiseColumns == {<<"tortoise", "fields", "IntField">>}
TortoiseRelations == {<<"tortoise", "fields", "ForeignKeyField">>}
ManyToMany == <<"tortoise", "fields", "ManyToManyField">>
BackwardRelations == {<<"tortoise", "fields", "BackwardFKRelation">>}
BuiltinTypes == {<<"int">>, <<"str">>, <<"bool">>, <<"datetime", "date">>}
GenericTypes == {<<"list">>, <<"dict">>, Optional, UnionType}

\* A type without the None it may also be.
RECURSIVE NonNullable(_)
NonNullable(e) ==
    LET union == e.k = "Union" \/ (e.k = "Subscript" /\ e.head = Name(UnionType))
        types == SelectSeq(e.args, LAMBDA x : x.k # "None")
    IN  CASE e.k = "Subscript" /\ e.head = Name(Optional) /\ Len(e.args) = 1 -> NonNullable(e.args[1])
          [] union -> IF Len(types) = 1 THEN NonNullable(types[1]) ELSE e
          [] OTHER -> e

RECURSIVE UnknownType(_, _, _)
UnknownType(e, module, nested) ==
    LET s == Symbol(e.head, module)
    IN  CASE e.k = "Name" -> e.n \notin BuiltinTypes \cup DOMAIN classes
          [] e.k = "String" -> Symbol(Name(<<e.s>>), module) \notin DOMAIN classes
          [] e.k = "Subscript" /\ s = <<"typing", "Literal">> -> FALSE
          [] e.k = "Subscript" /\ s = Annotated ->
                nested \/ e.args = <<>> \/ UnknownType(e.args[1], module, TRUE)
          [] e.k = "Subscript" \/ e.k = "Union" ->
                \/ e.k = "Subscript" /\ s \notin GenericTypes \cup DOMAIN classes
                \/ \E i \in DOMAIN e.args : UnknownType(e.args[i], module, TRUE)
          [] OTHER -> e.k \notin {"Literal", "None"}

IsCall(e, names, module) == e.k = "Call" /\ Symbol(e.head, module) \in names
IsSubscript(e, name, module) == e.k = "Subscript" /\ Symbol(e.head, module) = name

\* A first argument that is a column's type, written with its module.
IsTypeArgument(e) ==
    \/ e.k = "Name" /\ Head(e.n) = "sqlalchemy"
    \/ e.k = "Call" /\ e.head.k = "Name" /\ Head(e.head.n) = "sqlalchemy"

\* The mapped_column calls among an annotation's metadata; the others leave doubt.
Metadata(annotation, module) ==
    IF ~IsSubscript(annotation, Mapped, module) THEN <<>>
    ELSE LET items(e) == LET t == NonNullable(e)
                         IN  IF IsSubscript(t, Annotated, module) THEN Tail(t.args) ELSE <<>>
         IN  FoldLeft(LAMBDA acc, e : acc \o items(e), <<>>, annotation.args)

\* A ClassVar annotation, or a registry that may change what a table is called.
RegistryField(class, attr, r) ==
    LET v == Expand(attr.value, class.module)
    IN  IF \/ DynamicGlobal(v, class.module)
           \/ ~IsCall(v, {<<"sqlalchemy", "orm", "registry">>}, class.module)
           \/ v.args # <<>> \/ DOMAIN v.kw \ {"type_annotation_map"} # {}
        THEN IdentityDoubt(r) ELSE r

\* A column's options from its own call and from the Annotated template.
Merged(value, template) ==
    LET named == value.args # <<>> /\ value.args[1].k = "String"
        args == IF ~named /\ template.args # <<>> /\ template.args[1].k = "String"
                THEN <<template.args[1]>> \o value.args ELSE value.args
        inherited == {x \in DOMAIN template.kw :
                        ~(x = "name" /\ args # <<>> /\ args[1].k = "String")}
    IN  [value EXCEPT !.args = args,
                      !.kw = [x \in DOMAIN value.kw \cup inherited |->
                                IF x \in DOMAIN value.kw THEN value.kw[x] ELSE template.kw[x]]]

\* The value a field has with its annotation's template, and whether it is in doubt.
AnnotatedValue(class, attr, annotation) ==
    LET value == Expand(attr.value, class.module)
        items == IF class.orm = "sqlalchemy" THEN Metadata(annotation, class.module) ELSE <<>>
        templates == SelectSeq(items, LAMBDA e : IsCall(e, {MappedColumn}, class.module))
        types == IF class.orm = "sqlalchemy" /\ IsSubscript(annotation, Mapped, class.module)
                 THEN annotation.args ELSE <<>>
        doubt == \/ Len(templates) > 1 \/ Len(items) # Len(templates)
                 \/ types # <<>> /\ Len(types) # 1
                 \/ \E i \in DOMAIN types : UnknownType(NonNullable(types[i]), class.module, FALSE)
        unclear == value.k = "Call" /\ value.args # <<>> /\ value.args[1].k # "String"
                   /\ ~IsTypeArgument(value.args[1])
    IN  CASE templates = <<>> -> [value |-> value, doubt |-> doubt]
          [] templates # <<>> /\ value.k = "Missing" -> [value |-> templates[1], doubt |-> doubt]
          [] templates # <<>> /\ IsCall(value, {MappedColumn}, class.module) ->
                [value |-> Merged(value, templates[1]), doubt |-> doubt \/ unclear]
          [] OTHER -> [value |-> value, doubt |-> TRUE]

\* Mutant: a name given in the call is overlooked.
ColumnFieldByAttribute(class, attr, value, relation, r) ==
    [r EXCEPT !.columns = @ \cup {IF relation THEN attr.name \o "_id" ELSE attr.name}]

\* A call that makes a column: its name and its options.
ColumnField(class, attr, value, relation, r) ==
    LET nameKey == IF class.orm = "sqlalchemy" THEN "name" ELSE "source_field"
        first == value.args # <<>> /\ class.orm = "sqlalchemy"
        given == nameKey \in DOMAIN value.kw
        name == CASE given /\ value.kw[nameKey].k = "String" -> value.kw[nameKey].s
                  [] first /\ value.args[1].k = "String" -> value.args[1].s
                  [] relation -> attr.name \o "_id"
                  [] OTHER -> attr.name
        doubt == \/ first /\ value.args[1].k # "String" /\ ~IsTypeArgument(value.args[1])
                 \/ given /\ value.kw[nameKey].k # "String"
                 \/ "**" \in DOMAIN value.kw \/ name = ""
        key == IF "primary_key" \in DOMAIN value.kw THEN "primary_key" ELSE "pk"
    IN  [DoubtIf(r, doubt) EXCEPT
            !.columns = @ \cup {name},
            !.primaryKey = @ \/ (key \in DOMAIN value.kw /\ value.kw[key] = BoolExpr(TRUE))]

SqlalchemyCall(class, attr, value, r) ==
    LET s == Symbol(value.head, class.module)
    IN  CASE s \in Columns -> ColumnField(class, attr, value, FALSE, r)
          [] s = Relationship -> IF "secondary" \in DOMAIN value.kw THEN IdentityDoubt(r) ELSE r
          [] s \in Descriptors \ {Relationship} -> Doubt(r)
          [] OTHER -> IdentityDoubt(r)

TortoiseCall(class, attr, value, r) ==
    LET s == Symbol(value.head, class.module)
    IN  CASE s \in TortoiseColumns \cup TortoiseRelations ->
               ColumnField(class, attr, value, s \in TortoiseRelations, r)
          [] s = ManyToMany -> IdentityDoubt(r)
          [] s \in BackwardRelations -> r
          [] s \notin TortoiseColumns \cup TortoiseRelations \cup BackwardRelations \cup {ManyToMany}
             /\ Len(s) > 2 /\ SubSeq(s, 1, 2) = <<"tortoise", "fields">> -> Doubt(r)
          [] OTHER -> IdentityDoubt(r)

\* What becomes of a field by its value; mapped says that it is annotated Mapped.
FieldOfValue(class, attr, mapped, value, r) ==
    CASE ContainsLimit(value) -> IdentityDoubt(r)
      [] ~ContainsLimit(value) /\ value.k = "Call" ->
            IF class.orm = "sqlalchemy" THEN SqlalchemyCall(class, attr, value, r)
                                        ELSE TortoiseCall(class, attr, value, r)
      [] ~ContainsLimit(value) /\ value.k # "Call" /\ class.orm = "sqlalchemy" /\ mapped ->
            [r EXCEPT !.columns = @ \cup {attr.name}]
      [] OTHER -> DoubtIf(r, value.k \notin {"String", "Bool", "Literal", "None"})
ValuedField(class, attr, mapped, a, r) ==
    FieldOfValue(class, attr, mapped, a.value, DoubtIf(r, a.doubt))

\* A field with its annotation, which may keep it out of the mapping.
AnnotatedField(class, attr, annotation, r) ==
    LET classvar == annotation = Name(ClassVar) \/ IsSubscript(annotation, ClassVar, class.module)
    IN  CASE ContainsLimit(annotation) -> IdentityDoubt(r)
          [] ~ContainsLimit(annotation) /\ classvar /\ attr.name = "registry" -> RegistryField(class, attr, r)
          [] ~ContainsLimit(annotation) /\ classvar /\ attr.name # "registry"
             /\ Expand(attr.value, class.module).k # "Call" -> r
          [] OTHER ->
                ValuedField(class, attr, IsSubscript(annotation, Mapped, class.module),
                            AnnotatedValue(class, attr, annotation), r)

Field(class, attr, r) == AnnotatedField(class, attr, Expand(attr.annotation, class.module), r)

-----------------------------------------------------------------------------
(* Classes.                                                                *)

Terminal(orm) ==
    IF orm = "sqlalchemy" THEN {<<"sqlalchemy", "orm", "DeclarativeBase">>}
                          ELSE {<<"tortoise", "models", "Model">>}
Factories == {<<"sqlalchemy", "orm", "declarative_base">>}
PlainBases == {<<"object">>, <<"Exception">>, <<"typing", "Protocol">>}
TableParts == {<<"sqlalchemy", "Index">>, <<"sqlalchemy", "CheckConstraint">>}
Ignored == {"__allow_unmapped__", "__doc__"}

TableName(attr, r) ==
    IF attr.value.k = "String" THEN [r EXCEPT !.table = attr.value.s] ELSE IdentityDoubt(r)
Abstract(attr, r) ==
    IF attr.value.k = "Bool" THEN [r EXCEPT !.abstractModel = attr.value.b] ELSE Doubt(r)
SchemaOption(value, r) ==
    IF value.k = "String" THEN [r EXCEPT !.schema = value.s] ELSE IdentityDoubt(r)

\* Mutant: only a dictionary is understood.
TableArgsDictOnly(class, attr, r) ==
    LET e == Expand(attr.value, class.module)
    IN  IF e.k = "Dict" /\ "schema" \in DOMAIN e.kw THEN SchemaOption(e.kw["schema"], r) ELSE IdentityDoubt(r)

\* __table_args__: a dictionary, or a tuple with dictionaries among its parts.
TableArgs(class, attr, r) ==
    LET e == Expand(attr.value, class.module)
        items == IF e.k = "Dict" THEN <<e>> ELSE IF e.k = "Tuple" THEN e.args ELSE <<>>
        Item(acc, x) ==
            CASE x.k = "Dict" ->
                    LET named == IF "schema" \in DOMAIN x.kw THEN SchemaOption(x.kw["schema"], acc) ELSE acc
                    IN  DoubtIf(named, "autoload" \in DOMAIN x.kw)
              [] IsCall(x, TableParts, class.module) -> acc
              [] OTHER -> Doubt(acc)
        own == [r EXCEPT !.schema = NoSchema]
    IN  IF e.k \in {"Dict", "Tuple"} THEN FoldLeft(Item, own, items) ELSE IdentityDoubt(own)

OwnAttribute(class, r, attr) ==
    CASE attr.name = "__tablename__" -> TableName(attr, r)
      [] attr.name = "__abstract__" -> Abstract(attr, r)
      [] attr.name = "__table_args__" -> TableArgs(class, attr, r)
      [] attr.name \in Ignored -> r
      [] attr.name \in {"__mapper_args__", "__hook__"} -> IdentityDoubt(r)
      [] OTHER -> Field(class, attr, r)

MetaAttribute(r, attr) ==
    CASE attr.name = "table" -> TableName(attr, r)
      [] attr.name = "schema" -> SchemaOption(attr.value, r)
      [] attr.name = "abstract" -> Abstract(attr, r)
      [] OTHER -> r

HasMeta(class, name) == \E i \in DOMAIN class.meta : class.meta[i].name = name
HasOwnTable(class) ==
    HasMeta(class, "table") \/ \E i \in DOMAIN class.attrs : class.attrs[i].name = "__tablename__"

\* Tortoise: Meta is the class's own, and a concrete model always has a table.
TortoiseMeta(class, r) ==
    LET inherited == IF r.schema # NoSchema /\ ~HasMeta(class, "schema") THEN IdentityDoubt(r) ELSE r
        cleared == IF HasMeta(class, "table") THEN inherited ELSE [inherited EXCEPT !.table = NoTable]
        own == FoldLeft(MetaAttribute, cleared, class.meta)
        concrete == own.model /\ ~own.abstractModel
    IN  [own EXCEPT !.table = IF concrete /\ @ = NoTable THEN "default" ELSE @,
                    !.columns = IF concrete /\ ~own.primaryKey THEN @ \cup {"id"} ELSE @]

\* What a class makes of the bases folded so far.
Inherit(r, b) ==
    [r EXCEPT !.model = @ \/ b.model, !.columns = @ \cup b.columns, !.unknown = @ \/ b.unknown,
              !.table = IF b.table # NoTable THEN b.table ELSE @,
              !.schema = IF b.schema # NoSchema THEN b.schema ELSE @,
              !.primaryKey = @ \/ b.primaryKey, !.identityUnknown = @ \/ b.identityUnknown]

IsFactory(base, module) ==
    LET e == Expand(base, module)
    IN  IsCall(e, Factories, module) /\ e.args = <<>> /\ DOMAIN e.kw = {}

\* resolve_class after its bases.
OwnAttributes(class, r) == FoldLeft(LAMBDA acc, attr : OwnAttribute(class, acc, attr), r, class.attrs)
OwnMeta(class, r) == IF class.orm = "tortoise" THEN TortoiseMeta(class, r) ELSE r
OwnDoubt(class, r) == IF class.unsupported THEN IdentityDoubt(r) ELSE r
MixinIsAbstract(r) == [r EXCEPT !.abstractModel = @ \/ (~r.model /\ r.columns # {})]
Complete(class, r, terminal) ==
    LET inherited == [r EXCEPT !.abstractModel = /\ terminal /\ class.orm = "sqlalchemy" /\ r.table = NoTable
                                                 /\ ~HasOwnTable(class)]
    IN  MixinIsAbstract(OwnDoubt(class, OwnMeta(class, OwnAttributes(class, inherited))))

RECURSIVE ResolveWithin(_, _, _)
ResolveWithin(class, visiting, budget) ==
    IF budget = 0
    THEN [r |-> [IdentityDoubt(Blank) EXCEPT !.model = TRUE], left |-> 0]
    ELSE IF Cardinality(visiting) >= MaxVisiting \/ class.key \in visiting
    THEN [r |-> [Doubt(Blank) EXCEPT !.model = TRUE], left |-> budget - 1]
    ELSE LET Base(acc, base) ==
               LET s == Symbol(base, class.module)
                   parent == ResolveWithin(classes[s], visiting \cup {class.key}, acc.left)
               IN  CASE s \in Terminal(class.orm) ->
                          [acc EXCEPT !.r.model = TRUE, !.terminal = TRUE]
                     [] s \in PlainBases -> acc
                     [] s \notin Terminal(class.orm) \cup PlainBases /\ s \in DOMAIN classes ->
                          [acc EXCEPT !.r = Inherit(@, parent.r), !.left = parent.left]
                     [] OTHER ->
                          [acc EXCEPT !.r = [DoubtIf(@, ~IsFactory(base, class.module)) EXCEPT !.model = TRUE]]
             all == FoldLeft(Base, [r |-> Blank, terminal |-> FALSE, left |-> budget - 1], class.bases)
         IN  [r |-> Complete(class, all.r, all.terminal), left |-> all.left]

Resolve(class) == ResolveWithin(class, {}, MaxClasses).r

-----------------------------------------------------------------------------
(* ModelIndex::build and column_absence.                                   *)

Concrete(r) == r.model /\ ~r.abstractModel

IndexOf(models) ==
    [mappings |-> {[orm |-> m.orm, table |-> m.r.table, schema |-> m.r.schema,
                    columns |-> m.r.columns, unknown |-> m.r.unknown] :
                   m \in {x \in models : x.r.table # NoTable}},
     unknown |-> \/ unknown
                 \/ \E g \in globals : DynamicGlobal(g.value, g.module)
                 \/ \E m \in models : \/ "" \in {m.r.table, m.r.schema}
                                       \/ m.r.identityUnknown
                                       \/ m.r.table = NoTable]
BuildIndex ==
    LET resolved == {[orm |-> classes[key].orm, r |-> Resolve(classes[key])] : key \in DOMAIN classes}
    IN  IndexOf({m \in resolved : Concrete(m.r)})

Required(framework) == IF framework = "alembic" THEN "sqlalchemy" ELSE "tortoise"

\* Mutant: a table without a mapping has no such column.
ColumnAbsenceWithoutMapping(index, framework, table, schema, column) ==
    /\ framework \in {"alembic", "aerich"} /\ ~index.unknown
    /\ \A m \in index.mappings : m.table = table => column \notin m.columns /\ ~m.unknown

\* Whether the index vouches for the column's absence.
ColumnAbsence(index, framework, table, schema, column) ==
    LET matching == {m \in index.mappings :
                        m.table = table /\ (m.schema = schema \/ NoSchema \in {m.schema, schema})}
    IN  /\ framework \in {"alembic", "aerich"}
        /\ \A m \in matching : column \notin m.columns /\ ~m.unknown
        /\ ~index.unknown
        /\ \E m \in matching : m.orm = Required(framework) /\ m.schema = schema
=============================================================================
