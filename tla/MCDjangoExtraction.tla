------------------------- MODULE MCDjangoExtraction -------------------------
(* TLC instance of DjangoExtraction.                                       *)
EXTENDS DjangoExtraction

Op(name, args) == Call(<<"migrations", name>>, args)
Pos(values) == [i \in DOMAIN values |-> Positional(values[i])]
Order == Str(<<"order">>)
Total == Str(<<"total">>)
None == Word("None")
Remark == Positional(Comment)

\* Pieces of SQL: CREATE INDEX without and with CONCURRENTLY.
Index == Str(<<"index", ";">>)
Concurrent == Str(<<"index", "concurrently">>)
Noted == Str(<<"index", "--", "x">>)
NotedLine == Str(<<"index", "--", "x", "\\n", "concurrently">>)
NotedRaw == RawStr(<<"index", "--", "x", "\\n", "concurrently">>)
FString == Str(<<"index", Interpolation>>)
Implicit == Concatenated(<<Str(<<"index">>), Str(<<"concurrently", ";", "index">>)>>)
Pair == Tuple(<<Comment, Str(<<"index", ";", ";">>), List(<<>>)>>)
RunSql(value) == Op("RunSQL", Pos(<<value>>))
AddIndex == Op("AddIndex", <<Keyword("model_name", Order), Keyword("index", Call(<<"models", "Index">>, <<>>))>>)
Names == {Ident(v) : v \in Variables}

SpelledValues == {Index, Word("build_sql()"), List(<<Index, Concurrent>>), List(<<AddIndex, Comment>>), List(<<Comment>>)}
MCValues == SpelledValues \cup {Ident("SQL"), List(<<RunSql(Ident("SQL"))>>)}

Separated(database, state) == Op("SeparateDatabaseAndState",
    <<Remark, Keyword("state_operations", state), Keyword("database_operations", database)>>)
MCOperations ==
    {RunSql(n) : n \in Names}
    \cup {Op("RunSQL", <<Keyword("reverse_sql", Noop), Keyword("sql", n)>>) : n \in Names}
    \cup {Separated(n, List(<<AddIndex>>)) : n \in Names} \cup {Op(Separate, Pos(<<List(<<RunSql(n), AddIndex>>), n>>)) : n \in Names}
    \cup {Splat(n) : n \in Names} \cup {AddIndex, Comment}

-----------------------------------------------------------------------------
Literals == {Index, Concurrent, Noted, NotedLine, NotedRaw, FString, Implicit}
Whole == {Index, Concurrent, NotedLine, Implicit, Pair}
\* Two elements, of which the first may end in a comment.
Sequenced == {List(<<Noted, a>>) : a \in Whole} \cup {List(<<a, b>>) : a \in Whole, b \in Whole \cup {Comment, Word("build_sql()"), FString, Noted}}
             \cup {Tuple(<<a, Comment, b>>) : a, b \in Whole} \cup {List(<<>>), Tuple(<<Comment>>)}
SqlReadings == {RunSql(v) : v \in Literals \cup Sequenced \cup {Noop, None, Word("build_sql()")}}
    \cup {Op("RunSQL", <<Remark, Keyword("sql", Index), Keyword("reverse_sql", r)>>) : r \in Literals \cup {Noop, None, Word("f()")}}
    \cup {Op("RunSQL", <<Positional(Index), Remark, Positional(r)>>) : r \in Literals \cup {Noop, None, List(<<Index>>)}}

FieldOptions == {{}} \cup {{Keyword(k, Word(w))} : k \in {"null", "unique", "primary_key", "db_index", "db_constraint"},
                                                  w \in {"True", "False", "variable"}}
    \cup {{Keyword(k, Word(w))} : k \in {"default", "db_default"}, w \in {"None", "models.NOT_PROVIDED", "0"}}
    \cup {{Keyword("null", Word("True")), Keyword("default", Word("None")), Keyword("db_index", Word("False"))}}
Fields == {Call(<<"models", type>>, SetToSeq(options)) :
             type \in {"ForeignKey", "OneToOneField", "SlugField", "CharField"}, options \in FieldOptions}
Options == {{}} \cup {{Keyword("condition", Word(w))} : w \in {"None", "Q()", "models.Q()", "Q(a=1)"}}
    \cup {{Keyword(k, v)} : k \in {"include", "opclasses"}, v \in {None, List(<<>>), Tuple(<<>>), List(<<Total>>)}}
    \cup {{Keyword("nulls_distinct", Word("False"))}, {Positional(Word("Lower('total')"))}, {Remark}}
Constraints == {Call(<<"models", type>>, SetToSeq(options)) :
                  type \in {"UniqueConstraint", "CheckConstraint", "ExclusionConstraint", "Other"}, options \in Options}

\* The same arguments with all keywords, none, and a comment between them.
Spellings(type, values) ==
    LET keyword(i) == Keyword(Signature(type)[i], values[i])
        n == Len(values)
    IN {Op(type, [i \in 1..n |-> IF i <= k THEN Positional(values[i]) ELSE keyword(i)]) : k \in 0..n}
       \cup {Op(type, <<Remark>> \o Pos(values)), Op(type, <<Positional(values[1]), Remark>> \o Pos(Tail(values)))}
CallReadings ==
    UNION ({Spellings(type, <<Order, Total>>) : type \in IndexTypes \cup {"RenameModel", "RemoveField", "AlterModelTable"}}
      \cup {Spellings("RenameField", <<Order, Total, Str(<<"sum">>)>>)}
      \cup {Spellings(type, <<Order>>) : type \in {"CreateModel", "DeleteModel"}}
      \cup {Spellings("AddField", <<Order, Total, f>>) : f \in Fields}
      \cup {Spellings("AlterField", <<Order, Total, f>>) : f \in {Word("variable"), Call(<<"TextField">>, <<>>)}}
      \cup {Spellings("AddConstraint", <<Order, c>>) : c \in Constraints \cup {Word("variable")}}
      \cup {Spellings("RemoveConstraint", <<Order, Total>>)}
      \cup {Spellings(type, <<Order, v>>) : type \in TogetherTypes,
              v \in {None, Word("set()"), List(<<>>), Tuple(<<>>), List(<<Tuple(<<Total>>)>>), Word("variable")}}
      \cup {Spellings("RunPython", <<Word("forward"), v>>) : v \in {None, Word("backward")}})
    \cup {Op("RunPython", Pos(<<Word("forward")>>)), Op("VacuumEverything", <<>>), Op("AlterModelOptions", Pos(<<Order>>))}

Arms == {List(<<>>), List(<<Comment>>), List(<<AddIndex, Comment, Op("RenameModel", Pos(<<Order, Total>>))>>), None,
         Tuple(<<AddIndex>>), Word("build()"), List(<<Splat(List(<<AddIndex>>))>>)}
Nested == {List(<<Separated(d, s), AddIndex>>) : d, s \in Arms}
ArmReadings == {Separated(d, s) : d, s \in Arms \cup Nested} \cup {Op(Separate, Pos(<<d, s>>)) : d, s \in Arms}
               \cup {Op(Separate, <<>>), Op(Separate, <<Remark, Keyword("state_operations", List(<<AddIndex>>))>>)}

MCReadings == SqlReadings \cup CallReadings \cup ArmReadings

-----------------------------------------------------------------------------
\* All expressions, and those that mention no name.
Children(node) ==
    CASE node.kind \in Sequences \cup {"concatenated_string"} -> Range(node.items)
      [] node.kind = "call" -> {a.value : a \in Range(node.args)}
      [] node.kind = "list_splat" -> {node.value}
      [] OTHER -> {}
Inside(nodes) == UNION {Children(n) : n \in nodes}
Level0 == SpelledValues \cup MCReadings \cup {AddIndex, Unbound, Comment}
Level1 == Inside(Level0)
Level2 == Inside(Level1)
Level3 == Inside(Level2)
Level4 == Inside(Level3)
Level5 == Inside(Level4)
SpelledNodes == UNION {Level0, Level1, Level2, Level3, Level4, Level5}
AllNodes == SpelledNodes \cup MCValues \cup MCOperations \cup Inside(MCOperations) \cup Inside(Inside(MCOperations)) \cup Inside(MCValues) \cup Inside(Inside(MCValues))
\* TLC evaluates what a constant stands for again and again: a name is cheap.
MCSpelled == SpelledNodes
MCNodes == AllNodes
MCSymbols == {"newline", ";", "--", "\\n", "index", "concurrently", "x", "order", "total", "sum", Interpolation}
=============================================================================
