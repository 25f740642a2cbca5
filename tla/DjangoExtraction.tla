-------------------------- MODULE DjangoExtraction --------------------------
(***************************************************************************)
(* A Django migration file, read statement by statement up to its list of  *)
(* operations (src/ast/extractor.rs, src/parser.rs), beside Python         *)
(* executing the same statements and Django running the operations.        *)
(*                                                                         *)
(* Statements and operations are chosen as they are read, so files of      *)
(* every length are covered.  An element of the list of operations is      *)
(* walked like the iterator over the effective operations does: what is    *)
(* wrapped takes the place of its wrapper, at every depth.  The names hold *)
(* what they hold when the list is evaluated.                              *)
(***************************************************************************)
EXTENDS DjangoCalls

CONSTANTS
    Variables,   \* names that the module and the class body assign
    Values,      \* what they assign to them
    Operations,  \* the elements of the list of operations
    Readings,    \* elements that name no variable: one context will do
    Nodes,       \* the expressions of the file, those inside others among them
    Spelled,     \* those in which no name occurs
    Symbols      \* the pieces of string literals

Unbound == Word("unbound")

ArgumentLists == Seq([key : STRING, value : Nodes])
\* What the parser makes of an expression; a call is one that Django accepts.
WellFormed(node) ==
    CASE node.kind = "string" -> node.pieces \in Seq(Symbols) /\ node.raw \in BOOLEAN
      [] node.kind = "concatenated_string" ->
            node.items \in Seq(Nodes) \ {<<>>} /\ \A i \in DOMAIN node.items : node.items[i].kind = "string"
      [] node.kind \in Sequences -> node.items \in Seq(Nodes)
      [] node.kind = "identifier" -> node.name \in Variables
      [] node.kind = "call" -> node.args \in ArgumentLists /\ Accepted(Called(node), node.args)
      [] OTHER -> TRUE
\* The names that an expression spells out itself, and what it is made of.
NamesNothing(node) ==
    /\ node.kind # "identifier"
    /\ node.kind \in Sequences => Range(node.items) \subseteq Spelled
    /\ node.kind = "call" => \A i \in DOMAIN node.args : node.args[i].value \in Spelled

ASSUME FileAssumption ==
    /\ Values \cup Operations \cup Readings \cup {Unbound, Comment} \subseteq Nodes
    /\ "newline" \in Symbols /\ ";" \in Symbols
    /\ \A node \in Nodes : WellFormed(node)
ASSUME SpelledAssumption ==
    /\ Spelled \subseteq Nodes
    /\ \A node \in Spelled : NamesNothing(node)

VARIABLES
    phase,     \* "module", "class" or "operations"
    bindings,  \* MigrationExtractor::module_bindings
    env,       \* what the names hold
    unclear,   \* names of which nothing is claimed
    todo,      \* what the iterator has yet to see of an element
    last,      \* what it saw last
    pending,   \* what Django has yet to run of the element
    running,   \* what it ran last
    direct     \* whether all of the element, so far, is there to be read

walk == <<todo, last, pending, running, direct>>
vars == <<phase, bindings, env, unclear, walk>>

Init ==
    /\ phase = "module"
    /\ bindings = [v \in Variables |-> Unbound]
    /\ env = [v \in Variables |-> Unbound]
    /\ unclear = {}
    /\ todo = <<>> /\ last = Comment
    /\ pending = <<>> /\ running = Comment /\ direct = TRUE

-----------------------------------------------------------------------------
(* The statements before the list.                                         *)

Evaluate(value) == IF value.kind = "identifier" THEN env[value.name] ELSE value
Defined(value) == value.kind = "identifier" => env[value.name] # Unbound
\* What mentions other names has the value they had at the time.
UnclearAfter(v, value) == IF value \in Spelled THEN unclear \ {v} ELSE unclear \cup {v}

\* Mutant: only literals are recorded.
AssignLiteral(v, value) ==
    /\ phase = "module" /\ Defined(value)
    /\ bindings' = IF value.kind \in Strings \cup Sequences THEN [bindings EXCEPT ![v] = value] ELSE bindings
    /\ env' = [env EXCEPT ![v] = Evaluate(value)]
    /\ unclear' = UnclearAfter(v, value)
    /\ UNCHANGED <<phase, walk>>
\* NAME = value, a statement of the module.
Assign(v, value) ==
    /\ phase = "module" /\ Defined(value)
    /\ bindings' = [bindings EXCEPT ![v] = value]
    /\ env' = [env EXCEPT ![v] = Evaluate(value)]
    /\ unclear' = UnclearAfter(v, value)
    /\ UNCHANGED <<phase, walk>>

\* NAME += ..., an assignment in a branch or loop, an import of the name, or
\* any assignment in the body of the class: no direct assignment of the module.
AssignElsewhere(v, value) ==
    /\ phase \in {"module", "class"} /\ Defined(value)
    /\ env' = [env EXCEPT ![v] = Evaluate(value)]
    /\ unclear' = unclear \cup {v}
    /\ UNCHANGED <<phase, bindings, walk>>

\* class Migration: bindings are those of the statements before it.
OpenClass ==
    /\ phase = "module"
    /\ phase' = "class"
    /\ UNCHANGED <<bindings, env, unclear, walk>>

\* operations = [...], or a tuple: the calls among the children of either are
\* extracted.  Other expressions are not modelled.
OpenOperations ==
    /\ phase = "class"
    /\ phase' = "operations"
    /\ UNCHANGED <<bindings, env, unclear, walk>>

-----------------------------------------------------------------------------
(* SQL: resolve_string_value.  {} is None, else the set of the one text.   *)

FirstShown(items) ==
    {items[i] : i \in {j \in DOMAIN items : NotComment(items[j]) /\ \A k \in 1..j - 1 : IsComment(items[k])}}
TrimEnd(text) ==
    LET ends == {n \in 0..Len(text) : \A i \in n + 1..Len(text) : text[i] = ";"}
    IN SubSeq(text, 1, CHOOSE n \in ends : \A m \in ends : n <= m)

PartText(item) ==
    LET literals == CASE item.kind \in Strings -> {item}
                      [] item.kind \in Sequences -> {v \in FirstShown(item.items) : v.kind \in Strings}
                      [] OTHER -> {}
    IN UNION {{TrimEnd(t) : t \in StringValue(v)} : v \in literals}

\* Mutant: the elements become one statement.
JoinLines(parts) == Join(parts, <<"newline">>)
JoinStatements(parts) == Join(parts, <<";", "newline">>)

SequenceText(items) ==
    IF \E i \in DOMAIN items : NotComment(items[i]) /\ PartText(items[i]) = {} THEN {}
    ELSE JoinStatements([i \in DOMAIN items |-> IF IsComment(items[i]) THEN {} ELSE PartText(items[i])])

LiteralSql(node) ==
    CASE node.kind \in Strings -> StringValue(node)
      [] node.kind \in Sequences -> SequenceText(node.items)
      [] OTHER -> {}
ResolveString(node) ==
    CASE node.kind = "identifier" -> LiteralSql(bindings[node.name])
      [] node = Noop -> {<<>>}
      [] OTHER -> LiteralSql(node)
Sql(args, key, n) == UNION {ResolveString(v) : v \in Argument(args, key, n)}

-----------------------------------------------------------------------------
(* Operations: extract_operation and the arms of SeparateDatabaseAndState. *)

Separate == "SeparateDatabaseAndState"
KnownTypes == IndexTypes \cup ModelTypes \cup FieldTypes \cup ConstraintTypes \cup TogetherTypes
              \cup {"RenameModel", "RunSQL", "RunPython", Separate, "AlterModelOptions"}
OperationType(node) == IF Called(node) \in KnownTypes THEN Called(node) ELSE "Unknown"
IsWrapper(node) == node.kind = "call" /\ OperationType(node) = Separate
IsOperation(node) == node.kind = "call" /\ OperationType(node) # Separate

\* The list an arm stands for, if it is one.
ResolveList(node) ==
    IF node.kind = "list" THEN {node}
    ELSE IF node.kind = "identifier" /\ bindings[node.name].kind = "list" THEN {bindings[node.name]} ELSE {}

\* Mutant: an arm counts if an operation was extracted from it.
MeaningfulIfExtracted(arm) ==
    \E node \in arm : \E list \in ResolveList(node) : \E item \in Range(list.items) : item.kind = "call"
Meaningful(arm) ==
    \E node \in arm :
        IF ResolveList(node) = {} THEN node # Word("None")
        ELSE \E list \in ResolveList(node) : \E item \in Range(list.items) : NotComment(item)

DatabaseOperations(node) == Argument(node.args, "database_operations", 0)
StateOperations(node) == Argument(node.args, "state_operations", 1)

\* What extract_operation makes of a call.
Extract(node) ==
    IF IsWrapper(node)
    THEN [hasDatabase |-> Meaningful(DatabaseOperations(node)), hasState |-> Meaningful(StateOperations(node))]
    ELSE [data |-> Data(OperationType(node), node.args),
          sql |-> Sql(node.args, "sql", 0), reverse |-> Sql(node.args, "reverse_sql", 1)]

\* The one sequence of a set of at most one.
TheItems(nodes) == IF nodes = {} THEN <<>> ELSE (CHOOSE node \in nodes : TRUE).items
\* What takes the place of a node in Migration::database_effective_operations.
Wrapped(node) == IF IsWrapper(node) THEN TheItems(UNION {ResolveList(n) : n \in DatabaseOperations(node)}) ELSE <<>>

-----------------------------------------------------------------------------
(* Django: the operations it runs on the database for the same element.    *)

Held(node) == IF node.kind = "identifier" THEN env[node.name] ELSE node
Clear(node) == node.kind = "identifier" => node.name \notin unclear
DatabaseArm(node) == Parameter(Separate, node.args, "database_operations")
StateArm(node) == Parameter(Separate, node.args, "state_operations")

Runs(node) ==
    IF IsWrapper(node) THEN TheItems({l \in {Held(n) : n \in DatabaseArm(node)} : l.kind = "list"}) ELSE <<>>
\* All of it is there to be read: no name, call or unpacking hides operations.
IsDirect(node) ==
    \/ IsComment(node) \/ IsOperation(node)
    \/ IsWrapper(node) /\ \A n \in DatabaseArm(node) : n = Word("None") \/ (Clear(n) /\ Held(n).kind = "list")

\* An element of the list: a call, or whatever else Python allows there.
AtEnd == todo = <<>> /\ pending = <<>>
Begin(node) ==
    /\ phase = "operations" /\ AtEnd /\ last = Comment
    /\ todo' = <<node>> /\ pending' = <<node>>
    /\ running' = Comment /\ direct' = TRUE
    /\ UNCHANGED <<phase, bindings, env, unclear, last>>
ReadOperation(node) == Begin(node)
ReadAlone(node) == (\A v \in Variables : env[v] = Unbound) /\ Begin(node)
\* To the element after it.
NextElement ==
    /\ AtEnd /\ last # Comment
    /\ last' = Comment /\ running' = Comment /\ direct' = TRUE
    /\ UNCHANGED <<phase, bindings, env, unclear, todo, pending>>

\* Both take a step: one sees, the other runs.
First(nodes) == IF nodes = <<>> THEN Comment ELSE Head(nodes)
Rest(nodes) == IF nodes = <<>> THEN <<>> ELSE Tail(nodes)
Step ==
    /\ ~AtEnd
    /\ last' = First(todo)
    /\ todo' = Wrapped(First(todo)) \o Rest(todo)
    /\ direct' = (direct /\ IsDirect(First(pending)))
    /\ running' = First(pending)
    /\ pending' = IF direct' THEN Runs(First(pending)) \o Rest(pending) ELSE <<>>
    /\ UNCHANGED <<phase, bindings, env, unclear>>

Next ==
    \/ \E v \in Variables, value \in Values :
          \/ Assign(v, value)
          \/ AssignElsewhere(v, value)
    \/ OpenClass
    \/ OpenOperations
    \/ \E node \in Operations : ReadOperation(node)
    \/ \E node \in Readings : ReadAlone(node)
    \/ Step
    \/ NextElement

Spec == Init /\ [][Next]_vars

-----------------------------------------------------------------------------
(* The statements of a text, cut by PostgreSQL at the semicolons outside   *)
(* of line comments.  A statement is its words, each with its distance     *)
(* from the first.                                                         *)

Hidden(t, k) == \E i \in 1..k : t[i] = "--" /\ \A j \in i..k : t[j] # "newline"
Cuts(t, k) == t[k] = ";" /\ ~Hidden(t, k)
Shown(t) == {k \in DOMAIN t : t[k] \notin {";", "newline"} /\ ~Hidden(t, k)}
SameStatement(t, f, k) == f <= k /\ \A j \in f..k : ~Cuts(t, j)
Statement(t, f) == {<<k - f, t[k]>> : k \in {j \in Shown(t) : SameStatement(t, f, j)}}
Firsts(t) == {f \in Shown(t) : \A g \in Shown(t) : SameStatement(t, g, f) => g = f}
Statements(t) == {Statement(t, f) : f \in Firsts(t)}
EndsInComment(t) == Hidden(t, Len(t))

\* What Django executes for a value: a text, or each element of a sequence, be
\* it a text or a pair of a text and its parameters.
ElementText(item) ==
    IF item.kind \in Strings THEN PythonText(item) ELSE UNION {PythonText(v) : v \in FirstShown(item.items)}
Elements(node) == {node.items[i] : i \in {j \in DOMAIN node.items : NotComment(node.items[j])}}
Executes(node) ==
    CASE node.kind \in Strings -> UNION {Statements(t) : t \in PythonText(node)}
      [] node.kind \in Sequences -> UNION {UNION {Statements(t) : t \in ElementText(item)} : item \in Elements(node)}
      [] OTHER -> {}

\* What Python can know without running anything.
IsLiteral(node) == node.kind \in Strings /\ ~Interpolated(node)
IsStatement(node) ==
    \/ IsLiteral(node)
    \/ node.kind \in Sequences /\ Cardinality({i \in DOMAIN node.items : NotComment(node.items[i])}) = 2
       /\ \A v \in FirstShown(node.items) : IsLiteral(v)
IsSql(node) ==
    \/ IsLiteral(node)
    \/ node.kind \in Sequences /\ Elements(node) # {} /\ \A item \in Elements(node) : IsStatement(item)
\* No SQL, or not known before something runs; an f-string inside of something
\* else is neither.
Unreadable(node) ==
    \/ node.kind \notin Strings \cup Sequences
    \/ node.kind = "string" /\ Interpolated(node)
    \/ node.kind \in Sequences /\ (Bare(node) \/ \E item \in Elements(node) : item.kind \notin Strings \cup Sequences)
\* No element could hide what is joined to it.
CommentsClosed(node) ==
    node.kind \in Sequences =>
        \A item \in Elements(node) : item.kind \in Strings \cup Sequences => \A t \in ElementText(item) : ~EndsInComment(t)

-----------------------------------------------------------------------------
(* Properties.                                                             *)

\* What a direct assignment spells out is what the name holds.
TypeOK ==
    /\ phase \in {"module", "class", "operations"}
    /\ unclear \subseteq Variables
    /\ \A v \in Variables \ unclear : bindings[v] = env[v]

Seen == Extract(last)
SeesSql == last.kind = "call" /\ OperationType(last) = "RunSQL"
SqlGiven == Parameter("RunSQL", last.args, "sql")
ReverseGiven == Parameter("RunSQL", last.args, "reverse_sql")
SeenSql == UNION {Statements(t) : t \in Seen.sql}
SqlMatches(node) ==
    /\ IsSql(node) => SeenSql = Executes(node)
    /\ Unreadable(node) => SeenSql = {}

(***************************************************************************)
(* README:245: the raw SQL rules judge statements.  Whatever a name was    *)
(* assigned before, in whichever form and with whichever comments, quotes  *)
(* and escapes the SQL is written, the statements they see are exactly     *)
(* those Django executes, or none if they cannot be known; no statement is *)
(* read together with its neighbour.  (Nothing is claimed of a name that   *)
(* something else than a direct assignment gave its value, of f-strings    *)
(* inside of something else, and of elements that end in a line comment.)  *)
(***************************************************************************)
SqlExact ==
    SeesSql => \A node \in SqlGiven : Clear(node) /\ CommentsClosed(Held(node)) => SqlMatches(Held(node))

(***************************************************************************)
(* An operation means to the rules what it means to Django, whichever of   *)
(* its arguments are keywords and whatever comments stand between them.    *)
(* R013: SQL counts as reversible only if what is given to undo it is not  *)
(* None, and it does if that is `noop` or SQL that is written out, in      *)
(* place or where a name was directly assigned.  (A reverse_sql that       *)
(* something else returns counts as none; of a name that something else    *)
(* has bound, nothing is claimed.)                                         *)
(***************************************************************************)
Understood(node) ==
    Plain(node.args) /\ (\A i \in DOMAIN node.args : node.args[i].value.kind = "call" => Plain(node.args[i].value.args))
    => Extract(node).data = Means(OperationType(node), node.args)
CallsUnderstood ==
    /\ IsOperation(last) => Understood(last)
    /\ SeesSql =>
          /\ Seen.reverse # {} => \E node \in ReverseGiven : Clear(node) => Held(node) # Word("None")
          /\ \A node \in ReverseGiven : node = Noop \/ (Clear(node) /\ IsSql(Held(node))) => Seen.reverse # {}

(***************************************************************************)
(* R009 tells state and database operations apart, and the other rules     *)
(* look at the database operations only: an arm that counts as empty runs  *)
(* nothing, one that is a list counts as full if it has an element, and of *)
(* an element that is written out the rules see, in order, all that Django *)
(* runs on the database and nothing of what it does not.                   *)
(***************************************************************************)
RunsNothing(node) == Held(node) = Word("None") \/ Bare(Held(node))
ArmSound(arm, meaningful) ==
    /\ ~meaningful => \A n \in arm : Clear(n) => RunsNothing(n)
    /\ meaningful => \E n \in arm : Clear(n) => ~(Held(n).kind = "list" /\ RunsNothing(n))
ArmsJudged ==
    /\ IsWrapper(last) => /\ ArmSound(DatabaseArm(last), Seen.hasDatabase)
                          /\ ArmSound(StateArm(last), Seen.hasState)
    /\ direct => (IsOperation(last) \/ IsOperation(running) => last = running)

(***************************************************************************)
(* extractor.rs:791: "Django treats a sequence as separate SQL statements. *)
(* Preserve that boundary": the statements of a literal sequence are those *)
(* Django executes, comments at the end of an element or not.              *)
(***************************************************************************)
SequenceBoundaries ==
    SeesSql => \A node \in SqlGiven : Clear(node) /\ Held(node).kind \in Sequences => SqlMatches(Held(node))
=============================================================================
