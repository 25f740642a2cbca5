--------------------------- MODULE ModelEvidence ---------------------------
(***************************************************************************)
(* One snapshot's model evidence (src/model_check.rs over src/models/mod.rs*)
(* ): the configured scopes, the files they cover, the statements of those *)
(* files, and the answer to "does nothing map this column?" -- beside what *)
(* the ORM would really map if the interpreter ran the files.              *)
(***************************************************************************)
EXTENDS ModelResolution

CONSTANTS
    Snapshots,      \* candidate snapshots: path -> [regular, python, size]
    ConfigFiles,    \* candidate contents of one configuration file
    Statements,     \* provider -> path -> statements its file may hold
    MaxStatements,  \* bound on the statements of all files
    MaxFiles,       \* 10,000
    MaxBytes,       \* 100 MiB
    Tables, Schemas, TableColumns, Column   \* the question, and what there is

VARIABLES
    phase,      \* "collect", "read", "answered"
    entries,    \* the snapshot
    scopes,     \* the scopes' directories: [orm, dir]
    listed,     \* how many of them have been listed
    files,      \* the model files collected: [path, orm]
    content,    \* path -> the statements it has been found to hold
    at,         \* file and statement being read
    answers     \* the questions that were answered with absence

vars == <<sourcesVars, phase, entries, scopes, listed, files, content, at, answers>>

Questions == [framework : {"alembic", "aerich"}, table : Tables, schema : Schemas]

-----------------------------------------------------------------------------
(* model_sources and build_index.                                          *)

\* pyproject.toml, then zero-downtime-migrations.toml, whose sources win.
\* A file is [kind : "absent" | "invalid" | "silent"] or has scopes.
ConfiguredScopes(pyproject, own) ==
    CASE "invalid" \in {pyproject.kind, own.kind} -> {}
      [] own.kind = "sources" -> {own.scopes}
      [] own.kind # "sources" /\ pyproject.kind = "sources" -> {pyproject.scopes}
      [] OTHER -> {}

\* ModelSource::validate: literal paths inside the repository, at least one.
ValidScope(scope) == scope.paths # <<>> /\ \A i \in DOMAIN scope.paths : ".." \notin Range(scope.paths[i])

Start(pyproject, own, snapshot) ==
    LET configured == ConfiguredScopes(pyproject, own)
        usable == {s \in configured : s # <<>> /\ \A i \in DOMAIN s : ValidScope(s[i])}
        Listing(acc, scope) == acc \o [i \in DOMAIN scope.paths |-> [orm |-> scope.orm, dir |-> scope.paths[i]]]
    IN  /\ entries = snapshot
        /\ phase = IF usable = {} THEN "answered" ELSE "collect"
        /\ scopes = IF usable = {} THEN <<>> ELSE FoldLeft(Listing, <<>>, CHOOSE s \in usable : TRUE)

EvidenceInit ==
    /\ Init
    /\ \E pyproject, own \in ConfigFiles, snapshot \in Snapshots : Start(pyproject, own, snapshot)
    /\ files = <<>> /\ listed = 0 /\ content = << >> /\ at = <<1, 1>> /\ answers = {}

Fail == /\ phase' = "answered" /\ UNCHANGED <<sourcesVars, entries, scopes, listed, files, content, at, answers>>

Below(dir) == {p \in DOMAIN entries : IsPrefix(dir, p)}
Bytes(more) ==
    FoldLeft(LAMBDA sum, p : sum + entries[p].size, 0, [i \in DOMAIN files |-> files[i].path] \o more)

\* Mutant: a file already read is not read again for another provider.
ListDirectoryOncePerPath ==
    /\ phase = "collect" /\ listed < Len(scopes)
    /\ LET scope == scopes[listed + 1]
           here == Below(scope.dir)
           python == {p \in here : entries[p].python}
           fresh == SetToSeq({p \in python : p \notin {f.path : f \in Range(files)}})
       IN  IF \/ \E p \in here : ~entries[p].regular
              \/ python = {} \/ Len(files) + Len(fresh) > MaxFiles \/ Bytes(fresh) > MaxBytes
           THEN Fail
           ELSE /\ listed' = listed + 1
                /\ files' = files \o [i \in DOMAIN fresh |-> [path |-> fresh[i], orm |-> scope.orm]]
                /\ UNCHANGED <<sourcesVars, phase, entries, scopes, content, at, answers>>

\* One directory of one scope: all of it, or no evidence.
ListDirectory ==
    /\ phase = "collect" /\ listed < Len(scopes)
    /\ LET scope == scopes[listed + 1]
           here == Below(scope.dir)
           python == {p \in here : entries[p].python}
           fresh == SetToSeq({p \in python : [path |-> p, orm |-> scope.orm] \notin Range(files)})
       IN  IF \/ \E p \in here : ~entries[p].regular
              \/ python = {} \/ Len(files) + Len(fresh) > MaxFiles \/ Bytes(fresh) > MaxBytes
           THEN Fail
           ELSE /\ listed' = listed + 1
                /\ files' = files \o [i \in DOMAIN fresh |-> [path |-> fresh[i], orm |-> scope.orm]]
                /\ UNCHANGED <<sourcesVars, phase, entries, scopes, content, at, answers>>

Collected ==
    /\ phase = "collect" /\ listed = Len(scopes) /\ phase' = "read"
    /\ UNCHANGED <<sourcesVars, entries, scopes, listed, files, content, at, answers>>

-----------------------------------------------------------------------------
(* Reading the files, and asking.                                          *)

Path == files[at[1]].path
ModuleOf(path) == IF Last(path) = "__init__" THEN Front(path) ELSE path
Held(path) == IF path \in DOMAIN content THEN content[path] ELSE <<>>
Total == FoldFunction(LAMBDA s, n : n + Len(s), 0, content)
\* A file listed for two providers is read twice, and is the same both times.
ReadBefore == \E i \in 1..at[1] - 1 : files[i].path = Path

ReadStatement ==
    /\ phase = "read" /\ at[1] <= Len(files)
    /\ \E s \in IF ReadBefore THEN {Held(Path)[i] : i \in {at[2]} \cap DOMAIN Held(Path)}
                              ELSE IF Total < MaxStatements THEN Statements[files[at[1]].orm][Path] ELSE {} :
            /\ Read(ModuleOf(Path), Last(Path) = "__init__", [s EXCEPT !.orm = files[at[1]].orm])
            /\ content' = IF ReadBefore THEN content ELSE With(content, Path, Append(Held(Path), s))
    /\ at' = [at EXCEPT ![2] = @ + 1]
    /\ UNCHANGED <<phase, entries, scopes, listed, files, answers>>

NextFile ==
    /\ phase = "read" /\ at[1] <= Len(files)
    /\ ReadBefore => at[2] > Len(Held(Path))
    /\ at' = <<at[1] + 1, 1>>
    /\ UNCHANGED <<sourcesVars, phase, entries, scopes, listed, files, content, answers>>

Answer ==
    /\ phase = "read" /\ at[1] > Len(files) /\ phase' = "answered"
    /\ LET index == BuildIndex
       IN  answers' = {q \in Questions : ColumnAbsence(index, q.framework, q.table, q.schema, Column)}
    /\ UNCHANGED <<sourcesVars, entries, scopes, listed, files, content, at>>

\* Answered, with or without evidence.
Done == phase = "answered" /\ UNCHANGED vars

Next == Done \/ ListDirectory \/ Collected \/ ReadStatement \/ NextFile \/ Answer
Spec == EvidenceInit /\ [][Next]_vars

-----------------------------------------------------------------------------
(* What the interpreter and the ORM make of the same statements.  Where the*)
(* source leaves it open, every table, schema or column is possible.       *)

Fuel == Cardinality(bound) + Cardinality(defs) + 2

\* The values a name may stand for, however long the chain.
RECURSIVE Denotes(_, _, _)
Denotes(e, module, fuel) ==
    LET local == Append(module, Head(e.n))
        here == {b \in bound : b.key = local}
        whole == {b \in bound : b.key = e.n}
        isClass(key) == \E d \in defs : d.key = key
        Through(b) == IF Len(e.n) = 1 THEN Denotes(b.value, b.origin, fuel - 1)
                      ELSE IF b.value.k = "Name"
                      THEN Denotes(Name(b.value.n \o Tail(e.n)), b.origin, fuel - 1) ELSE {}
    IN  CASE fuel = 0 -> {}
          [] fuel > 0 /\ e.k # "Name" -> {[value |-> e, module |-> module]}
          [] fuel > 0 /\ e.k = "Name" /\ (here # {} \/ isClass(local)) ->
                UNION {Through(b) : b \in here}
                \cup IF isClass(local) THEN {[value |-> Name(local \o Tail(e.n)), module |-> <<>>]} ELSE {}
          [] fuel > 0 /\ e.k = "Name" /\ here = {} /\ ~isClass(local) /\ whole # {} ->
                UNION {Denotes(b.value, b.origin, fuel - 1) : b \in whole}
          [] OTHER -> {[value |-> e, module |-> <<>>]}

Values(e, module) == Denotes(e, module, Fuel)
MayBe(e, module, names) == \E v \in Values(e, module) : v.value.k = "Name" /\ v.value.n \in names
MayCall(e, module, names) ==
    \E v \in Values(e, module) : v.value.k = "Call" /\ MayBe(v.value.head, v.module, names)

\* Calls of the module level that create or change no mapping.
Harmless == Columns \cup Factories
            \cup {<<"sqlalchemy", "orm", "registry">>, <<"sqlalchemy", "Integer">>, <<"typing", "NewType">>,
                  <<"dict">>, <<"len">>, <<"functools", "lru_cache">>, <<"staticmethod">>,
                  <<"contextlib", "contextmanager">>, <<"sqlalchemy", "event", "listens_for">>}
RECURSIVE Harmful(_, _)
Harmful(e, module) ==
    \/ e.k = "Other"
    \/ e.k = "Call" /\ ~MayBe(e.head, module, Harmless)
    \/ IsComposite(e) /\ \E i \in DOMAIN e.args : Harmful(e.args[i], module)
\* A module runs something that may map anything.
AnythingMapped == \E b \in bound : Harmful(b.value, b.origin)

\* The columns an attribute maps.
KeywordColumn(e, key, otherwise) ==
    IF "**" \in DOMAIN e.kw THEN TableColumns
    ELSE IF key \notin DOMAIN e.kw THEN otherwise
    ELSE IF e.kw[key].k = "String" THEN {e.kw[key].s} ELSE TableColumns
FirstColumn(e, otherwise) ==
    IF e.args = <<>> THEN otherwise
    ELSE CASE e.args[1].k = "String" -> {e.args[1].s}
           [] IsTypeArgument(e.args[1]) -> otherwise
           [] OTHER -> TableColumns
RECURSIVE TemplateColumns(_, _, _)
TemplateColumns(e, module, otherwise) ==
    UNION {LET t == v.value
           IN  CASE t.k = "Subscript" /\ MayBe(t.head, v.module, {Annotated}) ->
                      UNION {KeywordColumn(m, "name", FirstColumn(m, otherwise)) :
                             m \in {x \in Range(Tail(t.args)) : x.k = "Call"}}
                 [] t.k \in {"Subscript", "Union"} /\ ~(t.k = "Subscript" /\ MayBe(t.head, v.module, {Annotated})) ->
                      UNION {TemplateColumns(x, v.module, otherwise) : x \in Range(t.args)}
                 [] t.k = "Name" /\ t.n \notin BuiltinTypes -> TableColumns
                 [] OTHER -> {} : v \in Values(e, module)}
AttributeColumns(d, attr) ==
    LET template == TemplateColumns(attr.annotation, d.module, {})
        own == IF template = {} THEN {attr.name} ELSE template
        ValueColumns(v) ==
            CASE v.value.k = "Call" /\ d.orm = "sqlalchemy" ->
                    IF MayBe(v.value.head, v.module, Columns)
                    THEN KeywordColumn(v.value, "name", FirstColumn(v.value, own))
                    ELSE IF MayBe(v.value.head, v.module, {Relationship}) THEN {} ELSE TableColumns
              [] v.value.k = "Call" /\ d.orm = "tortoise" ->
                    CASE MayBe(v.value.head, v.module, TortoiseColumns) ->
                            KeywordColumn(v.value, "source_field", {attr.name})
                      [] MayBe(v.value.head, v.module, TortoiseRelations) ->
                            KeywordColumn(v.value, "source_field", {attr.name \o "_id"})
                      [] OTHER -> TableColumns
              [] v.value.k = "Missing" ->
                    IF MayBe(attr.annotation.head, d.module, {Mapped}) THEN own ELSE {}
              [] v.value.k \in {"String", "Bool", "Literal", "None"} -> {}
              [] OTHER -> TableColumns
    IN  UNION {ValueColumns(v) : v \in Values(attr.value, d.module)}

\* A relationship through a table of its own.
OtherTable(d, attr) ==
    \/ MayCall(attr.value, d.module, {ManyToMany})
    \/ \E v \in Values(attr.value, d.module) :
          v.value.k = "Call" /\ MayBe(v.value.head, v.module, {Relationship}) /\ "secondary" \in DOMAIN v.value.kw

Attributes(d) == {d.attrs[i] : i \in DOMAIN d.attrs}
MetaOf(d) == {d.meta[i] : i \in DOMAIN d.meta}
Hooked(d) == d.unsupported \/ \E a \in Attributes(d) : a.name \in {"__hook__", "__mapper_args__"}
BaseValues(d) == UNION {Values(d.bases[i], d.module) : i \in DOMAIN d.bases}
\* A base outside the files, other than those known to map nothing.
Foreign(v) == ~\E d \in defs : v.value = Name(d.key)
MapsNothing(v) ==
    \/ v.value.k = "Name" /\ v.value.n \in PlainBases \cup Terminal("sqlalchemy") \cup Terminal("tortoise")
    \/ v.value.k = "Call" /\ MayBe(v.value.head, v.module, Factories)

RECURSIVE Related(_, _)
Related(ds, fuel) ==
    IF fuel = 0 THEN ds
    ELSE Related(ds \cup {p \in defs : \E d \in ds : \E v \in BaseValues(d) : v.value = Name(p.key)}, fuel - 1)
Ancestors(d) == Related({d}, Cardinality(defs))

IsModel(d) ==
    \E a \in Ancestors(d) : \E v \in BaseValues(a) :
        \/ Foreign(v) /\ ~MapsNothing(v)
        \/ v.value.k = "Name" /\ v.value.n \in Terminal(d.orm)
        \/ v.value.k = "Call"
IsDeclarativeBase(d) ==
    d.orm = "sqlalchemy" /\ \E v \in BaseValues(d) : v.value.k = "Name" /\ v.value.n \in Terminal(d.orm)
IsAbstract(d) ==
    LET flags == {a \in Attributes(d) : a.name = "__abstract__" /\ d.orm = "sqlalchemy"}
                 \cup {a \in MetaOf(d) : a.name = "abstract" /\ d.orm = "tortoise"}
    IN  \E a \in flags : a.value = BoolExpr(TRUE)

\* An option of a class: its own, or that of the first base that has one.
RECURSIVE Option(_, _, _, _)
OptionFrom(base, d, Own, none, fuel) ==
    UNION {IF ~Foreign(v) THEN UNION {Option(p, Own, none, fuel) : p \in {x \in defs : v.value = Name(x.key)}}
           ELSE IF MapsNothing(v) THEN {none} ELSE {none, "anything"} : v \in Values(base, d.module)}
Option(d, Own, none, fuel) ==
    IF fuel = 0 THEN {none}
    ELSE IF Own[d] # {} THEN Own[d]
    ELSE LET First(acc, base) ==
               IF none \in acc THEN (acc \ {none}) \cup OptionFrom(base, d, Own, none, fuel - 1) ELSE acc
         IN  FoldLeft(First, {none}, d.bases)

Literal(e) == IF e.k = "String" THEN {e.s} ELSE {"anything"}
\* The dictionaries of a __table_args__ value, and the schema one names.
Options(v) ==
    IF v.value.k # "Tuple" THEN {v}
    ELSE LET dicts == {w \in UNION {Values(x, v.module) : x \in Range(v.value.args)} : w.value.k = "Dict"}
         IN  IF dicts = {} THEN {[value |-> Composite("Dict", Leaf("None"), <<>>, NoKeywords), module |-> <<>>]}
             ELSE dicts
SchemaIn(o) ==
    IF o.value.k # "Dict" THEN {"anything"}
    ELSE IF "schema" \notin DOMAIN o.value.kw THEN {NoSchema}
    ELSE UNION {Literal(w.value) : w \in Values(o.value.kw["schema"], o.module)}
OwnTable == [d \in defs |->
    IF d.orm = "tortoise"
    THEN IF \E a \in MetaOf(d) : a.name = "table"
         THEN UNION {Literal(a.value) : a \in {x \in MetaOf(d) : x.name = "table"}} ELSE {"default"}
    ELSE UNION {Literal(a.value) : a \in {x \in Attributes(d) : x.name = "__tablename__"}}]
OwnSchema == [d \in defs |->
    IF d.orm = "tortoise"
    THEN IF \E a \in MetaOf(d) : a.name = "schema"
         THEN UNION {Literal(a.value) : a \in {x \in MetaOf(d) : x.name = "schema"}} ELSE {NoSchema}
    ELSE UNION {UNION {UNION {SchemaIn(o) : o \in Options(v)} : v \in Values(a.value, d.module)} :
                a \in {x \in Attributes(d) : x.name = "__table_args__"}}]

TablesOf(d) == Option(d, OwnTable, NoTable, Cardinality(defs) + 1)
SchemasOf(d) == Option(d, OwnSchema, NoSchema, Cardinality(defs) + 1)
\* More than one base may decide the table or the schema: Python takes the
\* first, and the analysis the last it resolves.
OrderDecides(d) ==
    LET Deciding(Own, none) == {i \in DOMAIN d.bases : OptionFrom(d.bases[i], d, Own, none, Cardinality(defs)) # {none}}
    IN  \/ OwnTable[d] = {} /\ Cardinality(Deciding(OwnTable, NoTable)) > 1
        \/ OwnSchema[d] = {} /\ Cardinality(Deciding(OwnSchema, NoSchema)) > 1
ColumnsOf(d) ==
    UNION {UNION {AttributeColumns(a, attr) :
                  attr \in {x \in Attributes(a) : x.name \notin {"__tablename__", "__abstract__",
                                                                 "__table_args__", "__doc__"}}} :
           a \in Ancestors(d)}
    \cup IF \E a \in Ancestors(d) : \E v \in BaseValues(a) : Foreign(v) /\ ~MapsNothing(v)
         THEN TableColumns ELSE {}
    \cup IF d.orm = "tortoise" THEN {"id"} ELSE {}

Maps(d, table, schema) ==
    /\ IsModel(d) /\ ~IsAbstract(d) /\ ~IsDeclarativeBase(d)
    /\ \/ \E a \in Ancestors(d) : Hooked(a) \/ \E x \in Attributes(a) : OtherTable(a, x)
       \/ {table, "anything"} \cap TablesOf(d) # {} /\ {schema, "anything"} \cap SchemasOf(d) # {}

MayMap(table, schema, column) ==
    \/ AnythingMapped
    \/ \E d \in defs : /\ Maps(d, table, schema)
                       /\ \/ column \in ColumnsOf(d)
                          \/ \E a \in Ancestors(d) : Hooked(a) \/ \E x \in Attributes(a) : OtherTable(a, x)
-----------------------------------------------------------------------------
(* Properties.                                                             *)

CONSTANTS PlainStatements   \* the documented subset of mappings, imports and constants

TypeOK ==
    /\ phase \in {"collect", "read", "answered"}
    /\ \A i \in DOMAIN files : files[i].path \in DOMAIN entries
    /\ \A key \in DOMAIN classes : classes[key].key = key /\ classes[key] \in defs
    /\ answers \subseteq Questions

\* Absence is answered only if no way of running the files maps the column,
\* unless a class takes its table from one of several bases.
\* (README: "Both must resolve the table completely and exclude the exact
\* database column".)
AbsenceSound == (\E d \in defs : OrderDecides(d)) \/ \A q \in answers : ~MayMap(q.table, q.schema, Column)

\* A table that no class maps is unknown, not free of the column.  (README: "A
\* missing table/model is unknown, not evidence of absence".)
EvidenceFromModel ==
    \/ \E d \in defs : OrderDecides(d)
    \/ \A q \in answers : \E d \in defs : d.orm = Required(q.framework) /\ Maps(d, q.table, q.schema)

\* Once the scopes are listed, every Python file under them is read for every
\* provider that names it, once, and nothing else was found there that might
\* hold models.  (README: paths "must cover all relevant model definitions".)
NothingUncovered ==
    phase = "read" =>
        \A i \in DOMAIN scopes : \A p \in Below(scopes[i].dir) :
            /\ entries[p].regular
            /\ entries[p].python =>
                  Cardinality({j \in DOMAIN files : files[j] = [path |-> p, orm |-> scopes[i].orm]}) = 1

\* Within the documented subset, absence is answered: names bound once, bases
\* known, every model with a table, and no schema in which the column is mapped.
OtherProvider == [sqlalchemy |-> "tortoise", tortoise |-> "sqlalchemy"]
Understood ==
    /\ phase = "answered" /\ files # <<>> /\ at[1] > Len(files)
    /\ \A p \in DOMAIN content : Range(content[p]) \subseteq PlainStatements
    /\ \A i, j \in DOMAIN files : files[i].path = files[j].path => i = j
    /\ \A b \in bound : b.key \notin DOMAIN classes
    /\ \A b, x \in bound : x.key = b.key => x = b
    /\ Cardinality(defs) = Cardinality(DOMAIN classes)
    /\ Total = Cardinality(bound) + Cardinality(defs)
    /\ \A d \in defs : \A v \in BaseValues(d) :
          /\ ~Foreign(v) \/ MapsNothing(v)
          /\ v.value.k = "Name" => v.value.n \notin Terminal(OtherProvider[d.orm])
    /\ \A d \in defs : ~OrderDecides(d)
    /\ \A d \in defs : IsModel(d) => IsAbstract(d) \/ IsDeclarativeBase(d) \/ NoTable \notin TablesOf(d)
AbsencePrecise ==
    Understood =>
        \A q \in Questions :
            /\ \E d \in defs : d.orm = Required(q.framework) /\ Maps(d, q.table, q.schema)
            /\ \A schema \in Schemas : ~MayMap(q.table, schema, Column)
            => q \in answers
=============================================================================
