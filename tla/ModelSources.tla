---------------------------- MODULE ModelSources ----------------------------
(***************************************************************************)
(* Sources of src/models/mod.rs: what reading the application's Python     *)
(* files leaves behind, statement by statement, and how a name is followed *)
(* through it (symbol, expand_bounded).                                    *)
(*                                                                         *)
(* bound and defs are the other side: every name the interpreter may bind  *)
(* and every class it may create when it runs the same statements, whether *)
(* or not the analysis reads them.                                         *)
(*                                                                         *)
(* A dotted name is the sequence of its parts; the module "" is <<>>.      *)
(***************************************************************************)
EXTENDS Naturals, Sequences, SequencesExt

CONSTANTS
    MaxDepth,      \* 32: aliases followed one after the other
    MaxExpansion   \* 4096: nodes of one expanded expression

ASSUME LimitsAssumption == MaxDepth \in Nat /\ MaxExpansion \in Nat

VARIABLES
    classes,   \* Sources::classes: key -> class
    aliases,   \* Sources::aliases: key -> [value, origin]
    unknown,   \* whether Sources::unknown has a member
    globals,   \* Sources::globals
    bound,     \* the bindings the interpreter may make
    defs       \* the classes it may create

sourcesVars == <<classes, aliases, unknown, globals, bound, defs>>

-----------------------------------------------------------------------------
(* Expressions.  Calls, subscripts, tuples, dictionaries, unions and sums  *)
(* share one shape.                                                        *)

Name(n) == [k |-> "Name", n |-> n]
Str(s) == [k |-> "String", s |-> s]
BoolExpr(b) == [k |-> "Bool", b |-> b]
Leaf(kind) == [k |-> kind]
NoKeywords == [x \in {} |-> Leaf("Other")]
Composite(kind, head, args, kw) == [k |-> kind, head |-> head, args |-> args, kw |-> kw]
Call(f, args, kw) == Composite("Call", Name(f), args, kw)
Subscript(f, args) == Composite("Subscript", Name(f), args, NoKeywords)

IsComposite(e) == e.k \in {"Call", "Subscript", "Tuple", "Dict", "Union", "Add"}

RECURSIVE ContainsLimit(_)
ContainsLimit(e) ==
    \/ e.k = "Limit"
    \/ /\ IsComposite(e)
       /\ \/ ContainsLimit(e.head)
          \/ \E i \in DOMAIN e.args : ContainsLimit(e.args[i])
          \/ \E x \in DOMAIN e.kw : ContainsLimit(e.kw[x])

-----------------------------------------------------------------------------
(* Following names.                                                        *)

IsBound(key) == key \in DOMAIN aliases \cup DOMAIN classes

\* No name: the chain is too long or ends in something that is none.
Unresolved == <<>>

RECURSIVE SymbolAt(_, _, _)
SymbolAt(e, module, depth) ==
    IF depth > MaxDepth \/ e.k # "Name" \/ e.n = <<>> THEN Unresolved
    ELSE LET local == Append(module, Head(e.n))
             target == SymbolAt(aliases[local].value, aliases[local].origin, depth + 1)
         IN  CASE local \in DOMAIN aliases ->
                     IF target = Unresolved THEN Unresolved ELSE target \o Tail(e.n)
               [] local \notin DOMAIN aliases /\ local \in DOMAIN classes -> local \o Tail(e.n)
               [] e.n \in DOMAIN aliases /\ ~IsBound(local) ->
                     SymbolAt(aliases[e.n].value, aliases[e.n].origin, depth + 1)
               [] OTHER -> e.n

Symbol(e, module) == SymbolAt(e, module, 0)

\* The alias an expansion goes on with, of the keys in the order they are tried.
AliasFor(e, module) ==
    LET tried == SelectSeq(<<module \o e.n, e.n, Symbol(e, module)>>, LAMBDA key : key \in DOMAIN aliases)
    IN  IF tried = <<>> THEN {} ELSE {aliases[Head(tried)]}

\* expand_bounded: the value, and what is left of the budget.
RECURSIVE ExpandAt(_, _, _, _)
ExpandAt(e, module, depth, budget) ==
    IF depth > MaxDepth \/ budget = 0 THEN [value |-> Leaf("Limit"), left |-> budget]
    ELSE IF e.k = "Name"
    THEN IF AliasFor(e, module) = {}
         THEN LET s == Symbol(e, module)
              IN  [value |-> IF s = Unresolved THEN e ELSE Name(s), left |-> budget - 1]
         ELSE LET a == CHOOSE a \in AliasFor(e, module) : TRUE
              IN  ExpandAt(a.value, a.origin, depth + 1, budget - 1)
    ELSE IF ~IsComposite(e) THEN [value |-> e, left |-> budget - 1]
    ELSE LET keys == SetToSeq(DOMAIN e.kw)
             parts == <<e.head>> \o e.args \o [i \in DOMAIN keys |-> e.kw[keys[i]]]
             Next1(acc, part) == LET r == ExpandAt(part, module, depth + 1, acc.left)
                                 IN  [done |-> Append(acc.done, r.value), left |-> r.left]
             all == FoldLeft(Next1, [done |-> <<>>, left |-> budget - 1], parts)
             n == Len(e.args)
         IN  [value |-> [e EXCEPT !.head = all.done[1],
                                  !.args = SubSeq(all.done, 2, n + 1),
                                  !.kw = [x \in DOMAIN e.kw |->
                                            all.done[n + 1 + CHOOSE i \in DOMAIN keys : keys[i] = x]]],
              left |-> all.left]

Expand(e, module) == ExpandAt(e, module, 0, MaxExpansion).value

-----------------------------------------------------------------------------
(* Expressions of a module's top level that may do more than compute.      *)

KnownCalls == {<<"sqlalchemy", "orm", "declarative_base">>, <<"sqlalchemy", "orm", "registry">>, <<"sqlalchemy", "orm", "mapped_column">>,
               <<"sqlalchemy", "Column">>, <<"sqlalchemy", "Integer">>, <<"typing", "NewType">>, <<"dict">>}

RECURSIVE StaticScalar(_, _)
StaticScalar(e, module) ==
    LET v == Expand(e, module)
    IN  \/ v.k \in {"String", "Literal"}
        \/ v.k = "Name" /\ v.n = <<"string", "digits">>
        \/ v.k = "Add" /\ \A i \in DOMAIN v.args : StaticScalar(v.args[i], module)
        \/ /\ v.k = "Call" /\ Symbol(v.head, module) = <<"len">>
           /\ Len(v.args) = 1 /\ DOMAIN v.kw = {} /\ StaticScalar(v.args[1], module)

RECURSIVE DynamicGlobal(_, _)
DynamicGlobal(e, module) ==
    LET Inside == \/ \E i \in DOMAIN e.args : DynamicGlobal(e.args[i], module)
                  \/ \E x \in DOMAIN e.kw : DynamicGlobal(e.kw[x], module)
    IN  CASE e.k = "Call" ->
               IF Symbol(e.head, module) = <<"len">>
               THEN Len(e.args) # 1 \/ DOMAIN e.kw # {} \/ ~StaticScalar(e.args[1], module)
               ELSE Symbol(e.head, module) \notin KnownCalls \/ Inside
          [] e.k \in {"Tuple", "Union", "Dict", "Subscript"} -> Inside
          [] e.k = "Add" -> ~StaticScalar(e, module)
          [] OTHER -> e.k = "Other"

SafeDecorators == {<<"staticmethod">>, <<"contextlib", "contextmanager">>}
SafeDecorator(e, module) ==
    \/ e.k = "Name" /\ Symbol(e, module) \in SafeDecorators
    \/ /\ e.k = "Call" /\ Symbol(e.head, module) = <<"functools", "lru_cache">>
       /\ \A i \in DOMAIN e.args : e.args[i].k = "Literal"
       /\ \A x \in DOMAIN e.kw : e.kw[x].k \in {"Literal", "Bool"}
    \/ /\ e.k = "Call" /\ Symbol(e.head, module) = <<"sqlalchemy", "event", "listens_for">>
       /\ Len(e.args) = 2 /\ DOMAIN e.kw = {}
       /\ Symbol(e.args[1], module) = <<"sqlalchemy", "orm", "Session">>
       /\ e.args[2] = Str("do_orm_execute")

-----------------------------------------------------------------------------
(* Reading one statement of a module.                                      *)

Init ==
    /\ classes = << >> /\ aliases = << >> /\ unknown = FALSE /\ globals = {}
    /\ bound = {} /\ defs = {}

With(f, key, value) == [x \in DOMAIN f \cup {key} |-> IF x = key THEN value ELSE f[x]]

\* A name assigned, imported or defined as a function.
Bind(key, value, origin) ==
    /\ aliases' = With(aliases, key, [value |-> value, origin |-> origin])
    /\ bound' = bound \cup {[key |-> key, value |-> value, origin |-> origin]}

\* from <origin> import <name> as <alias>; level counts the leading dots and
\* package says that the file is an __init__.py.
ImportedModule(module, package, level, origin) ==
    IF level = 0 THEN origin
    ELSE LET remove == level - (IF package THEN 1 ELSE 0)
             keep == IF remove > Len(module) THEN 0 ELSE Len(module) - remove
         IN  SubSeq(module, 1, keep) \o origin

ReadImport(module, package, s) ==
    LET key == Append(module, s.alias)
        from == ImportedModule(module, package, s.level, s.origin)
    IN  /\ unknown' = (unknown \/ IsBound(key))
        /\ Bind(key, Name(from \o s.name), <<>>)
        /\ UNCHANGED <<classes, globals, defs>>

\* "from m import *" binds whatever m binds.
ReadWildcard(module, s) ==
    /\ unknown' = TRUE
    /\ bound' = bound \cup {[key |-> Append(module, Last(b.key)), value |-> Name(b.key), origin |-> <<>>] :
                            b \in {x \in bound \cup defs : Front(x.key) = s.origin}}
    /\ UNCHANGED <<classes, aliases, globals, defs>>

Imperative(e, module) ==
    e.k = "Call" /\ Symbol(e.head, module) = <<"sqlalchemy", "Table">>

ReadAssignment(module, s) ==
    LET key == Append(module, s.name)
    IN  /\ globals' = globals \cup {[value |-> s.value, module |-> module]}
        /\ unknown' = (unknown \/ IsBound(key) \/ Imperative(s.value, module))
        /\ Bind(key, s.value, module)
        /\ UNCHANGED <<classes, defs>>

\* A function; "decorator" is what decorates it, if anything does.
ReadFunction(module, s) ==
    LET key == Append(module, s.name)
    IN  /\ unknown' = (unknown \/ IsBound(key)
                       \/ \E d \in s.decorator : ~SafeDecorator(d, module))
        /\ aliases' = With(aliases, key, [value |-> Leaf("Other"), origin |-> module])
        /\ bound' = bound \cup {[key |-> key, origin |-> module, value |-> v] :
                                 v \in s.decorator \cup {Leaf("Function")}}
        /\ UNCHANGED <<classes, globals, defs>>

\* The class a statement declares.  Its body has attributes (assignments to a
\* name) and a Meta; unsupported says that it has anything else but methods, or
\* a method that takes part in creating classes, or that it is decorated.
ClassOf(module, s) ==
    [key |-> Append(module, s.name), module |-> module, orm |-> s.orm, bases |-> s.bases,
     attrs |-> s.attrs, meta |-> s.meta, unsupported |-> s.unsupported]

\* Mutant: a class is entered under its bare name.
ReadClassUnqualified(module, s) ==
    /\ unknown' = (unknown \/ s.opaque \/ IsBound(<<s.name>>))
    /\ classes' = With(classes, <<s.name>>, ClassOf(module, s))
    /\ defs' = defs \cup {ClassOf(module, s)}
    /\ UNCHANGED <<aliases, globals, bound>>

\* A class; opaque says that its Meta is dynamic, that a class is nested in it
\* or that it is decorated.
ReadClass(module, s) ==
    LET key == Append(module, s.name)
    IN  /\ unknown' = (unknown \/ s.opaque \/ IsBound(key))
        /\ aliases' = [x \in DOMAIN aliases \ {key} |-> aliases[x]]
        /\ classes' = With(classes, key, ClassOf(module, s))
        /\ defs' = defs \cup {ClassOf(module, s)}
        /\ UNCHANGED <<globals, bound>>

\* What the analysis gives up on: a condition, loop, try or with at the top
\* level, a class inside a function, a bare call, an assignment to an
\* attribute, a file that does not parse.  Any of them may run the statement
\* it contains.
ReadUnsupported(module, s) ==
    /\ unknown' = TRUE
    /\ defs' = defs \cup {ClassOf(module, s)}
    /\ UNCHANGED <<classes, aliases, globals, bound>>

Read(module, package, s) ==
    \/ s.kind = "import" /\ ReadImport(module, package, s)
    \/ s.kind = "wildcard" /\ ReadWildcard(module, s)
    \/ s.kind = "assign" /\ ReadAssignment(module, s)
    \/ s.kind = "function" /\ ReadFunction(module, s)
    \/ s.kind = "class" /\ ReadClass(module, s)
    \/ s.kind = "unsupported" /\ ReadUnsupported(module, s)
=============================================================================
