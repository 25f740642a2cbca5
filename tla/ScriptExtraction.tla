-------------------------- MODULE ScriptExtraction --------------------------
(***************************************************************************)
(* The walks over the functions of an Alembic revision                     *)
(* (src/ast/alembic.rs) and of an Aerich revision (src/ast/aerich.rs)      *)
(* beside one run of the same functions against a database.                *)
(*                                                                         *)
(* The script is read statement by statement, chosen as it is read, so     *)
(* functions of every length are covered; blocks nest up to MaxDepth.  The *)
(* run may skip anything inside a branch, loop or try statement.  Where it *)
(* returns or raises, the behaviour ends: nothing that follows is run.     *)
(***************************************************************************)
EXTENDS AlembicCalls, AerichStatements

CONSTANTS
    Frameworks,   \* which of "alembic" and "aerich" the script is for
    Variables,    \* names of local variables
    Calls,        \* Alembic: the calls of op, [f, args]
    Statements,   \* Aerich: [tokens, kind, table, to], what is executed; `to` is
                  \* the table's identity afterwards, another one if it is renamed
    Readings,     \* Aerich: [tokens, table, single, means], to be read only, as a function's first
    CallReadings, \* Alembic: calls to be read only, as a function's first
    Tables,       \* identities of the tables the script may act on
    Helpers,      \* Aerich: bodies of a local function, [statement, conditional]
    MaxDepth      \* blocks nested in one another

ASSUME DepthAssumption == MaxDepth \in Nat \ {0}
ASSUME TablesAssumption ==
    /\ Tables # {} /\ NoIdentity \notin Tables
    /\ \A t \in Tables : t = Identity(t.schema, t.name) /\ t.name # ""

\* The tables a call may be about, each beside its identity afterwards.  A name
\* that is no literal may be any.
Touched(call) == Touches(call.f, call.args, {t.schema : t \in Tables})
Places(call) ==
    LET to == {t \in Tables : \E u \in Touched(call) : u.name = "" \/ u = t}
        old == StaticString(Given(call.f, call.args, "old_table_name"))
    IN CASE call.f = "rename_table" -> {p \in Tables \X to : p[1].schema = p[2].schema /\ old \in {"", p[1].name}}
         [] call.f = "execute" -> {<<t, t>> : t \in {CHOOSE u \in Tables : TRUE}}
         [] OTHER -> {<<t, t>> : t \in to}

\* Python accepts the calls, they have no comment among their arguments
\* (alembic_places is about those), and Tables has a table they may be about.
ASSUME CallsAssumption == \A call \in Calls : WellFormed(call.f, call.args) /\ Places(call) # {}

\* What the other fields say of a statement is what its tokens say: CREATE TABLE
\* creates, IF NOT EXISTS is written where it counts, and the tables found in
\* the tokens are those the statement is about.
ASSUME StatementsAssumption == \A s \in Statements :
    /\ s.table \in Tables /\ s.to \in Tables
    /\ s.table.schema = s.to.schema
    /\ s.kind # "rename" => s.to = s.table
    /\ StartsWithWords(s.tokens, <<"CREATE", "TABLE">>) => s.kind \in {"create", "create if"}
    /\ s.kind = "create if" => ContainsInOrder(s.tokens, <<"IF", "NOT", "EXISTS">>)
    /\ \A unconditional, initial, state \in BOOLEAN :
          LET ops == ExtractStatement(s.tokens, unconditional, <<initial, state>>)
          IN \A i \in DOMAIN ops :
                /\ ops[i].identity \in {NoIdentity, s.to}
                /\ ops[i].type = "RenameModel" => s.kind = "rename" /\ ops[i].detail = {s.table.name}
                /\ s.kind = "rename" => ops[i].type = "RenameModel"
                /\ s.kind = "sql" => ops[i].type = "ExecuteSql" /\ ops[i].identity = NoIdentity
\* A statement to be read, or what a DO block runs, is of PostgreSQL's grammar
\* if it alters a table, which it names; it is a single action if it names the
\* table first and no comma follows.
ASSUME ReadingsAssumption == \A s \in Readings :
    LET t == InDoBlock(s.tokens)
    IN /\ s.tokens \in Seq([text : STRING, quoted : BOOLEAN])
       /\ StartsWithWords(t, <<"ALTER", "TABLE">>) =>
             \E before \in BeforeName, size \in {1, 3} :
                LET start == Len(before) + 3
                    name == SubSeq(t, start, start + size - 1)
                IN /\ start + size <= Len(t) /\ t[start + size].text \in Verbs
                   /\ \A i \in DOMAIN before : t[i + 2].text = before[i]
                   /\ IsTableName(name) /\ s.table = Denotes(name)
                   /\ before = <<>> /\ (\A i \in start + size..Len(t) : t[i].text # ",") => s.single
ASSUME HelpersAssumption == Helpers \subseteq Seq([statement : Statements, conditional : BOOLEAN])

VARIABLES
    framework,
    generated,   \* Aerich: (is_generated_initial, is_generated_migration)
    helper,      \* Aerich: the body of the local function
    frames,      \* the open blocks: [kind, unconditional, autocommit, real]
    bindings,    \* Alembic: the context bindings of the statements read before
    unseen,      \* Alembic: the names bound since by something else than `name = value`
    ahead,       \* Alembic: the names the current statement of the body assigns anywhere
    owed,        \* those of them whose assignment is still to be read
    exempt,      \* CreatedModels::sql_tables after the operations so far
    visited,     \* Aerich: whether the local function has been extracted
    spared,      \* the statements of the local function that were exempt then
    at,          \* the statement of the local function that is next, or 0
    calls,       \* the call being followed: [first, unconditional, runs]
    env,         \* the run: what its variables hold
    database,    \* the run: "absent", "existing" or "fresh", created by it
    misled,      \* whether the run did to an exempt table what the walk cannot see
    last         \* what became of the statement read last

walk == <<frames, bindings, unseen, ahead, owed, exempt, visited, spared, at, calls>>
run == <<env, database, misled>>
fixed == <<framework, generated, helper>>
vars == <<walk, run, fixed, last>>

Item(s, conditional) == [statement |-> s, conditional |-> conditional]
Frame(kind, unconditional, autocommit, real) ==
    [kind |-> kind, unconditional |-> unconditional, autocommit |-> autocommit, real |-> real]
Body == Frame("body", TRUE, FALSE, FALSE)
Top == frames[Len(frames)]
Idle == [first |-> FALSE, unconditional |-> FALSE, runs |-> FALSE]
Quiet == [ran |-> FALSE, seen |-> TRUE, exact |-> TRUE, spared |-> FALSE, fresh |-> FALSE,
          autocommit |-> FALSE, real |-> FALSE]

\* The tables this framework's part of the script is about.
Scope == IF framework = "aerich" THEN {s.table : s \in Statements} \cup {s.to : s \in Statements} ELSE Tables
\* What Aerich generates never finds a table that was there where it creates one.
Possible(s) == (generated[1] \/ generated[2]) /\ s.kind \in {"create", "create if"} => database[s.table] # "existing"

Init ==
    /\ framework \in Frameworks
    /\ generated \in IF framework = "aerich" THEN BOOLEAN \X BOOLEAN ELSE {<<FALSE, FALSE>>}
    /\ helper \in IF framework = "aerich" THEN Helpers ELSE {<<>>}
    /\ frames = <<Body>>
    /\ bindings = [v \in Variables |-> FALSE]
    /\ unseen = {}
    /\ ahead = {}
    /\ owed = {}
    /\ exempt = {}
    /\ visited = FALSE
    /\ spared = {}
    /\ at = 0
    /\ calls = Idle
    /\ env = [v \in Variables |-> "unbound"]
    /\ database \in [Tables -> {"absent", "existing"}]
    /\ \A t \in Tables \ Scope : database[t] = "existing"
    /\ misled = FALSE
    /\ last = Quiet

-----------------------------------------------------------------------------
(* The run.                                                                *)

Status == {"absent", "existing", "fresh"}
Conditional == \E i \in DOMAIN frames : frames[i].kind = "conditional"
MayRun == IF Conditional THEN BOOLEAN ELSE {TRUE}

\* One statement on table t, which a rename moves to `to`.  Raw SQL may do
\* anything to any table.
Succeeds(kind, t, to) ==
    CASE kind = "create" -> database[t] = "absent"
      [] kind = "rename" -> database[t] # "absent" /\ database[to] = "absent"
      [] kind \in {"create if", "sql", "none"} -> TRUE
      [] OTHER -> database[t] # "absent"
After(kind, t, to) ==
    CASE kind \in {"create", "create if"} /\ database[t] = "absent" -> {[database EXCEPT ![t] = "fresh"]}
      [] kind = "drop" -> {[database EXCEPT ![t] = "absent"]}
      [] kind = "rename" -> {[database EXCEPT ![to] = database[t], ![t] = "absent"]}
      [] kind = "sql" -> {d \in [Tables -> Status] : \A u \in Tables \ Scope : d[u] = database[u]}
      [] OTHER -> {database}

\* A statement that fails ends the run, unless a try statement is around it.
Perform(kind, t, to, runs) ==
    /\ runs /\ ~Succeeds(kind, t, to) => Conditional
    /\ database' \in (IF runs /\ Succeeds(kind, t, to) THEN After(kind, t, to) ELSE {database})
    /\ UNCHANGED env

-----------------------------------------------------------------------------
(* Created tables, as walk_with_created_models keeps them.                 *)

\* The member a rename takes along: the old name in the new name's schema.
Renamed(created, op) ==
    IF op.identity = NoIdentity THEN {}
    ELSE {t \in created : t.schema = op.identity.schema /\ t.name \in op.detail}
\* Mutant: a table nothing is certain about is created like any other.
CreatedAfterUncertain(created, op) ==
    CASE op.type = "CreateModel" -> created \cup {op.identity}
      [] op.type = "RenameModel" /\ Renamed(created, op) # {} -> (created \ Renamed(created, op)) \cup {op.identity}
      [] op.type = "DeleteModel" -> created \ {op.identity}
      [] op.type = "ExecuteSql" -> {}
      [] OTHER -> created
CreatedAfter(created, op) ==
    CASE op.type = "CreateModel" /\ op.identity # NoIdentity -> created \cup {op.identity}
      [] op.type = "RenameModel" /\ Renamed(created, op) # {} -> (created \ Renamed(created, op)) \cup {op.identity}
      [] op.type = "DeleteModel" -> created \ {op.identity}
      [] op.type = "ExecuteSql" -> {}
      [] OTHER -> created
CreatedBy(created, ops) ==
    LET after[i \in 0..Len(ops)] == IF i = 0 THEN created ELSE CreatedAfter(after[i - 1], ops[i])
    IN after[Len(ops)]
\* What the rules are told of an operation; a rename has moved the member then.
Exempted(op) ==
    /\ op.type # "CreateModel"
    /\ op.identity \in (IF op.type = "RenameModel" THEN CreatedAfter(exempt, op) ELSE exempt)
Spared(ops) == \E i \in DOMAIN ops : Exempted(ops[i])

\* The walk reads a script once and takes its renames as done.  It is misled by
\* a rename it exempts that the run does not carry out; by a statement that
\* changes an exempt table and becomes no operation that says so (a table or SQL
\* that is no literal, a schema it cannot tell, the local function run again);
\* and where an old table comes to lie under a statement of the local function
\* that was exempt when it was read and runs again.
Tells(op) ==
    \/ op.type = "ExecuteSql"
    \/ op.type \in {"RenameModel", "DeleteModel"} /\ op.identity # NoIdentity
Misleads(ops, done) ==
    \/ ~done /\ \E i \in DOMAIN ops : ops[i].type = "RenameModel" /\ Exempted(ops[i])
    \/ (\A i \in DOMAIN ops : ~Tells(ops[i])) /\ \E t \in exempt : database'[t] # database[t]
    \/ \E i \in spared : LET t == helper[i].statement.table
                         IN database[t] # "existing" /\ database'[t] = "existing"

\* A statement that succeeds found no table that was there before.
Fresh(kind, t, to) == Succeeds(kind, t, to) => database[t] # "existing"

-----------------------------------------------------------------------------
(* Blocks.                                                                 *)

AtRoot == Len(frames) = 1
Announce(names) ==
    /\ ahead' = IF AtRoot THEN names ELSE ahead
    /\ owed' = IF AtRoot THEN names ELSE owed
\* Mutant: an assignment inside a branch is overlooked.
BoundDirectly == bindings
\* collect_context_bindings: what the statements of upgrade() up to here bind,
\* the one that is being read counting as a whole.
Bound == [v \in Variables |-> v \notin ahead /\ bindings[v]]

\* if, for, while, try and match.  What a loop's earlier turn left is open:
\* the block assigns names, and binds `others` in ways the walk does not see.
EnterBlock(names, others) ==
    /\ at = 0 /\ Len(frames) <= MaxDepth
    /\ names # {} => AtRoot /\ framework = "alembic"
    /\ others # {} => framework = "alembic"
    /\ Announce(names)
    /\ unseen' = unseen \cup others
    /\ frames' = Append(frames, Frame("conditional", FALSE, Top.autocommit, Top.real))
    /\ env' \in {env} \cup {[v \in Variables |-> IF v \in names \cup others THEN w ELSE env[v]] :
                               w \in {"context", "other"}}
    /\ last' = Quiet
    /\ UNCHANGED <<bindings, exempt, visited, spared, at, calls, database, misled, fixed>>

Canonical == "op.get_context()"
\* Mutant: any object with such a method will do.
OpensByName(known, item) == item \in {Canonical} \cup Variables
Opens(known, item) == IF item \in Variables THEN known[item] ELSE item = Canonical

\* with <item>.autocommit_block(), or another context manager.  A block opened by
\* a name that something else than `name = value` has bound is not judged.
EnterWith(item, names) ==
    /\ framework = "alembic" /\ Len(frames) <= MaxDepth
    /\ names # {} => AtRoot
    /\ LET open == IF AtRoot THEN Opens(bindings, item) ELSE Opens(Bound, item)
           isContext == IF item \in Variables THEN env[item] = "context" ELSE item = Canonical
       IN frames' = Append(frames, Frame("with", Top.unconditional,
                                         Top.autocommit \/ open, Top.real \/ isContext \/ item \in unseen))
    /\ Announce(names)
    /\ last' = Quiet
    /\ UNCHANGED <<bindings, unseen, exempt, visited, spared, at, calls, run, fixed>>

LeaveBlock ==
    /\ at = 0 /\ ~AtRoot
    /\ Len(frames) = 2 => owed = {}
    /\ frames' = SubSeq(frames, 1, Len(frames) - 1)
    /\ bindings' = IF Len(frames) = 2 THEN Bound ELSE bindings
    /\ ahead' = IF Len(frames) = 2 THEN {} ELSE ahead
    /\ last' = Quiet
    /\ UNCHANGED <<unseen, owed, exempt, visited, spared, at, calls, run, fixed>>

\* `name = op.get_context()`, or something else, as a statement.
Bind(v, value) ==
    /\ framework = "alembic"
    /\ AtRoot \/ v \in ahead
    /\ bindings' = IF AtRoot THEN [bindings EXCEPT ![v] = value = "context"] ELSE bindings
    /\ unseen' = IF AtRoot THEN unseen \ {v} ELSE unseen
    /\ owed' = owed \ {v}
    /\ \E runs \in MayRun : env' = IF runs THEN [env EXCEPT ![v] = value] ELSE env
    /\ last' = Quiet
    /\ UNCHANGED <<frames, ahead, exempt, visited, spared, at, calls, database, misled, fixed>>

\* Any other statement that binds the name: a tuple or a chain of targets, for,
\* with ... as, :=, import, def, del.  collect_context_bindings passes it over.
BindOtherwise(v, value) ==
    /\ framework = "alembic"
    /\ unseen' = unseen \cup {v}
    /\ \E runs \in MayRun : env' = IF runs THEN [env EXCEPT ![v] = value] ELSE env
    /\ last' = Quiet
    /\ UNCHANGED <<frames, bindings, ahead, owed, exempt, visited, spared, at, calls, database, misled, fixed>>

-----------------------------------------------------------------------------
(* Alembic: a call of op as a statement, or as part of one: assigned to a  *)
(* name, or operand of a conditional expression, where it may be skipped.  *)

KindOf(call) ==
    CASE call.f = "create_table" -> IF MayKeep(call.f, call.args) THEN "create if" ELSE "create"
      [] call.f = "drop_table" -> "drop"
      [] call.f = "rename_table" -> "rename"
      [] call.f = "execute" -> "sql"
      [] call.f \in DOMAIN Parameters \ {"create_table", "drop_table", "rename_table", "execute", "drop_index"} -> "use"
      [] OTHER -> "none"
\* The table may be one that is not in Tables.
Kinds(call) == {KindOf(call)} \cup (IF call.f = "execute" \/ Touched(call) \subseteq Tables THEN {} ELSE {"none"})

Sees(ops, meanings) ==
    \A m \in meanings : \E i \in DOMAIN ops : ops[i].type = m.type /\ m.detail \subseteq ops[i].detail

CallOp(call, shape) ==
    /\ framework = "alembic"
    /\ LET ops == ExtractOperation(call.f, call.args, Top.unconditional, shape = "statement")
       IN \E runs \in IF shape = "part" THEN BOOLEAN ELSE MayRun, kind \in Kinds(call), p \in Places(call) :
            /\ Perform(kind, p[1], p[2], runs)
            /\ exempt' = CreatedBy(exempt, ops)
            /\ misled' = (misled \/ Misleads(ops, runs /\ Succeeds(kind, p[1], p[2])))
            /\ last' = [ran |-> runs, seen |-> Sees(ops, Meaning(call.f, call.args)), exact |-> TRUE,
                        spared |-> Spared(ops), fresh |-> Fresh(kind, p[1], p[2]),
                        autocommit |-> Top.autocommit /\ ops # <<>>, real |-> Top.real]
    /\ UNCHANGED <<frames, bindings, unseen, ahead, owed, visited, spared, at, calls, fixed>>

\* A call on its own, as the first statement: how its arguments are read does
\* not depend on the walk.
ReadCall(call) ==
    /\ framework = "alembic" /\ frames = <<Body>> /\ exempt = {}
    /\ bindings = [v \in Variables |-> FALSE] /\ \A t \in Tables : database[t] = "existing"
    /\ LET ops == ExtractOperation(call.f, call.args, TRUE, TRUE)
       IN last' = [Quiet EXCEPT !.ran = TRUE, !.seen = Sees(ops, Meaning(call.f, call.args)),
             !.exact = \A i \in DOMAIN ops : ops[i].identity # NoIdentity => Touched(call) = {ops[i].identity}]
    /\ UNCHANGED <<walk, run, fixed>>

-----------------------------------------------------------------------------
(* Aerich: SQL executed in place or returned, and the local function,      *)
(* which is extracted where it is called first.                            *)

\* The statement that became ops is run, or not.
Runs(s, ops, runs, wasSpared) ==
    /\ runs => Possible(s)
    /\ Perform(s.kind, s.table, s.to, runs)
    /\ exempt' = CreatedBy(exempt, ops)
    /\ misled' = (misled \/ Misleads(ops, runs /\ Succeeds(s.kind, s.table, s.to)))
    /\ last' = [Quiet EXCEPT !.ran = runs, !.spared = wasSpared, !.fresh = Fresh(s.kind, s.table, s.to)]

ExecuteStatement(s) ==
    /\ framework = "aerich" /\ at = 0
    /\ LET ops == ExtractStatement(s.tokens, Top.unconditional, generated)
       IN \E runs \in MayRun : Runs(s, ops, runs, Spared(ops))
    /\ UNCHANGED <<frames, bindings, unseen, ahead, owed, visited, spared, at, calls, fixed>>

\* A statement on its own: what it is read as, and what it does.  How it is
\* read does not depend on the walk, so the first statement will do.
ReadStatement(s) ==
    /\ framework = "aerich" /\ frames = <<Body>> /\ exempt = {} /\ ~visited
    /\ helper = <<>> /\ generated = <<FALSE, FALSE>> /\ \A t \in Tables : database[t] = "existing"
    /\ LET ops == ExtractSql(<<s.tokens>>, TRUE, generated)
           drops == {i \in DOMAIN ops : ops[i].type = "RemoveField" /\ ops[i].identity # NoIdentity}
       IN last' = [Quiet EXCEPT !.ran = TRUE,
             !.seen = Sees(ops, s.means),
             !.exact = \A i \in drops : s.single /\ ops[i].identity = s.table]
    /\ UNCHANGED <<walk, run, fixed>>

\* Mutant: every call counts as unconditional.
CallHelperForCertain ==
    /\ framework = "aerich" /\ at = 0 /\ helper # <<>>
    /\ at' = 1
    /\ \E runs \in MayRun : calls' = [first |-> ~visited, unconditional |-> TRUE, runs |-> runs]
    /\ visited' = TRUE
    /\ last' = Quiet
    /\ UNCHANGED <<frames, bindings, unseen, ahead, owed, exempt, spared, run, fixed>>
\* A call of the local function, or its name as an argument: the callback.
CallHelper ==
    /\ framework = "aerich" /\ at = 0 /\ helper # <<>>
    /\ at' = 1
    /\ \E runs \in MayRun : calls' = [first |-> ~visited, unconditional |-> Top.unconditional, runs |-> runs]
    /\ visited' = TRUE
    /\ last' = Quiet
    /\ UNCHANGED <<frames, bindings, unseen, ahead, owed, exempt, spared, run, fixed>>

\* The next statement of the local function.
FollowHelper ==
    /\ at > 0
    /\ LET item == helper[at]
           s == item.statement
           ops == IF calls.first
                  THEN ExtractStatement(s.tokens, calls.unconditional /\ ~item.conditional, generated) ELSE <<>>
           isSpared == IF calls.first THEN Spared(ops) ELSE at \in spared
       IN /\ \E runs \in IF ~calls.runs THEN {FALSE} ELSE IF item.conditional THEN BOOLEAN ELSE {TRUE} :
                Runs(s, ops, runs, isSpared)
          /\ spared' = IF isSpared THEN spared \cup {at} ELSE spared
          /\ at' = IF at = Len(helper) THEN 0 ELSE at + 1
          /\ calls' = IF at = Len(helper) THEN Idle ELSE calls
    /\ UNCHANGED <<frames, bindings, unseen, ahead, owed, visited, fixed>>

-----------------------------------------------------------------------------
Next ==
    \/ \E names, others \in SUBSET Variables : EnterBlock(names, others)
    \/ \E item \in {Canonical, "other"} \cup Variables, names \in SUBSET Variables : EnterWith(item, names)
    \/ LeaveBlock
    \/ \E v \in Variables, value \in {"context", "other"} : Bind(v, value) \/ BindOtherwise(v, value)
    \/ \E call \in Calls, shape \in {"statement", "part"} : CallOp(call, shape)
    \/ \E call \in CallReadings : ReadCall(call)
    \/ \E s \in Statements : ExecuteStatement(s)
    \/ \E s \in Readings : ReadStatement(s)
    \/ CallHelper
    \/ FollowHelper

Spec == Init /\ [][Next]_vars

-----------------------------------------------------------------------------
(* Properties.                                                             *)

\* The exempt set holds certain identities only, blocks inherit what encloses
\* them, and only an upgrade's statements leave context bindings.
TypeOK ==
    /\ exempt \subseteq Tables
    /\ NoIdentity \notin exempt
    /\ \A i \in 1..Len(frames) - 1 :
          /\ frames[i + 1].unconditional => frames[i].unconditional
          /\ frames[i].autocommit => frames[i + 1].autocommit
          /\ frames[i].real => frames[i + 1].real
    /\ at \in 0..Len(helper) /\ spared \subseteq 1..Len(helper)
    /\ visited \/ spared = {}
    /\ database \in [Tables -> Status]
    /\ misled \in BOOLEAN

(***************************************************************************)
(* README:266: operations are exempt because they act on tables created in *)
(* the same migration.  Whatever branches a run takes, whichever calls     *)
(* fail, whenever it ends and however often the local function is called,  *)
(* an exempt operation that runs finds no table that was there before,     *)
(* unless the run did what the walk cannot see (Misleads): not carried out *)
(* a rename, or changed an exempt table by a statement it does not read.   *)
(***************************************************************************)
ExemptOnlyFresh == last.ran /\ last.spared /\ ~misled => last.fresh

(***************************************************************************)
(* README:24: concurrent operations belong into an autocommit block.  What *)
(* upgrade() runs inside what the walk takes for one is inside one,        *)
(* whatever `name = value` assigned to the context's name since, and in    *)
(* which branch, loop or block.  Blocks opened by a name that was bound in *)
(* another way since are not judged: the walk overlooks that.              *)
(***************************************************************************)
AutocommitSound == last.ran /\ last.autocommit => last.real

(***************************************************************************)
(* README:17, 50: every supported call, and every statement of one action, *)
(* becomes all the operations it stands for, however Python and SQL let    *)
(* its arguments and options be written.  PlacesAside and ActionsSeen are  *)
(* about what is left out here: calls with a comment among the arguments   *)
(* or `**options` in the column's place, and ALTER TABLEs of two actions.  *)
(***************************************************************************)
SupportedSeen == last.ran => last.seen

(***************************************************************************)
(* README:17 of calls with a comment among their arguments, or `**options` *)
(* where a parameter stands that is given by keyword: to Python they are   *)
(* direct calls like any other.                                            *)
(***************************************************************************)
PlacesAside == SupportedSeen

(***************************************************************************)
(* README:50 of an ALTER TABLE with two actions: each of its column and    *)
(* constraint actions is mapped to the safety rules.                       *)
(***************************************************************************)
ActionsSeen == SupportedSeen

(***************************************************************************)
(* README:129: "evidence can authorize only a fully understood,            *)
(* single-action ALTER TABLE [schema.]table DROP COLUMN": a dropped column *)
(* has an identity only then, and it is the table PostgreSQL drops it from.*)
(* An operation of an Alembic call has one only if Python could pass no    *)
(* other table.                                                            *)
(***************************************************************************)
IdentityExact == last.exact
=============================================================================
