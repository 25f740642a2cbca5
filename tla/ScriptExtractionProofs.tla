----------------------- MODULE ScriptExtractionProofs -----------------------
(***************************************************************************)
(* What the walks over a revision's functions keep, for scripts of every   *)
(* length, blocks of every depth and every set of calls and statements.    *)
(***************************************************************************)
EXTENDS ScriptExtraction, WellFoundedInduction, TLAPS, FiniteSetTheorems

-----------------------------------------------------------------------------
(* Numbers: least elements and induction, said of sets.                    *)

\* A set of numbers that is not empty has a least element.
LEMMA Least ==
  ASSUME NEW T \in SUBSET Nat, T # {}
  PROVE  \E x \in T : \A y \in T : x <= y
<1> DEFINE R == {ss \in Nat \X Nat : ss[1] < ss[2]}
<1>1. IsWellFoundedOn(R, Nat)
  BY NatLessThanWellFounded DEF OpToRel
<1>2. PICK x \in T : \A y \in T : ~(<<y, x>> \in R)
  <2> HIDE DEF R
  <2> QED BY <1>1, WFMin
<1>3. ASSUME NEW y \in T PROVE x <= y
  <2>1. <<y, x>> \in Nat \X Nat /\ <<y, x>>[1] = y /\ <<y, x>>[2] = x
    OBVIOUS
  <2>2. ~(y < x)
    BY <1>2, <2>1
  <2> QED
    BY <2>2
<1> QED
  BY <1>2, <1>3

\* A set that holds 0 and with every number the next holds all of them.
LEMMA Induction ==
  ASSUME NEW S \in SUBSET Nat, 0 \in S, \A n \in S : n + 1 \in S
  PROVE  S = Nat
<1> SUFFICES ASSUME S # Nat PROVE FALSE
  OBVIOUS
<1>1. PICK x \in Nat \ S : \A y \in Nat \ S : x <= y
  <2>1. Nat \ S # {} /\ Nat \ S \in SUBSET Nat
    OBVIOUS
  <2> QED
    BY <2>1, Least
<1>2. x - 1 \in Nat /\ x - 1 < x
  BY <1>1
<1>3. x - 1 \in S
  BY <1>1, <1>2
<1> QED
  BY <1>1, <1>3

-----------------------------------------------------------------------------
(* Created tables.                                                         *)

\* The recursive function of CreatedBy is one.
LEMMA CreatedStepwise ==
  ASSUME NEW created, NEW ops, Len(ops) \in Nat
  PROVE  \E after :
           /\ CreatedBy(created, ops) = after[Len(ops)]
           /\ after[0] = created
           /\ \A i \in 1..Len(ops) : after[i] = CreatedAfter(after[i - 1], ops[i])
<1> DEFINE Fits(h, n) == h = [i \in 0..n |-> IF i = 0 THEN created
                                              ELSE CreatedAfter(h[i - 1], ops[i])]
           S == {n \in Nat : \E h : Fits(h, n)}
<1>1. 0 \in S
  <2>1. Fits([i \in 0..0 |-> created], 0)
    OBVIOUS
  <2> QED
    BY <2>1
<1>2. ASSUME NEW n \in S PROVE n + 1 \in S
  <2>1. PICK h : Fits(h, n)
    OBVIOUS
  <2> DEFINE longer == [i \in 0..(n + 1) |-> IF i = 0 THEN created
                                             ELSE CreatedAfter(h[i - 1], ops[i])]
  <2>2. \A i \in 0..n : h[i] = IF i = 0 THEN created ELSE CreatedAfter(h[i - 1], ops[i])
    <3> HIDE DEF longer
    <3> QED BY <2>1
  <2>3. \A i \in 0..n : longer[i] = h[i]
    <3>1. \A i \in 0..n : i \in 0..(n + 1)
      OBVIOUS
    <3> QED BY <2>2, <3>1
  <2>4. \A i \in 0..(n + 1) : i # 0 => h[i - 1] = longer[i - 1]
    <3>1. \A i \in 0..(n + 1) : i # 0 => i - 1 \in 0..n
      OBVIOUS
    <3> HIDE DEF longer
    <3> QED BY <2>3, <3>1
  <2>5. Fits(longer, n + 1)
    BY <2>4
  <2> QED
    <3> HIDE DEF Fits, longer
    <3> QED BY <2>5
<1>3. \E h : Fits(h, Len(ops))
  <2> HIDE DEF Fits
  <2>1. S = Nat
    BY <1>1, <1>2, Induction
  <2> QED
    BY <2>1
<1> DEFINE after == CHOOSE h : Fits(h, Len(ops))
<1>4. Fits(after, Len(ops))
  <2> HIDE DEF Fits
  <2> QED
    BY <1>3
<1>5. CreatedBy(created, ops) = after[Len(ops)]
  BY DEF CreatedBy
<1>6. /\ after[0] = created
      /\ \A i \in 1..Len(ops) : after[i] = CreatedAfter(after[i - 1], ops[i])
  <2> HIDE DEF after
  <2> QED
    BY <1>4
<1> QED
  BY <1>5, <1>6

\* Operations that change the set; lists without one, and lists of one.
Moving == {"CreateModel", "RenameModel", "DeleteModel", "ExecuteSql"}
Steady(ops) == (\E S : ops \in Seq(S)) /\ \A i \in DOMAIN ops : ops[i].type \notin Moving
Alone(ops) == Steady(ops) \/ \E op : ops = <<op>>

LEMMA CreatedSteady ==
  ASSUME NEW created, NEW ops, Steady(ops) PROVE CreatedBy(created, ops) = created
<1>1. Len(ops) \in Nat /\ DOMAIN ops = 1..Len(ops)
  BY DEF Steady
<1>2. PICK after :
        /\ CreatedBy(created, ops) = after[Len(ops)]
        /\ after[0] = created
        /\ \A i \in 1..Len(ops) : after[i] = CreatedAfter(after[i - 1], ops[i])
  BY <1>1, CreatedStepwise
<1> DEFINE S == {n \in Nat : n <= Len(ops) => after[n] = created}
<1>3. 0 \in S
  BY <1>2
<1>4. ASSUME NEW n \in S PROVE n + 1 \in S
  <2>1. SUFFICES ASSUME n + 1 <= Len(ops) PROVE after[n + 1] = created
    OBVIOUS
  <2>2. n + 1 \in 1..Len(ops) /\ after[n] = created
    BY <1>1, <2>1
  <2>3. after[n + 1] = CreatedAfter(created, ops[n + 1])
    BY <1>2, <2>2
  <2>4. ops[n + 1].type \notin Moving
    BY <1>1, <2>2 DEF Steady
  <2> QED
    BY <2>3, <2>4 DEF CreatedAfter, Moving
<1>5. S = Nat
  <2> HIDE DEF S
  <2> QED BY <1>3, <1>4, Induction DEF S
<1> QED
  BY <1>1, <1>2, <1>5

LEMMA CreatedAlone ==
  ASSUME NEW created, NEW op PROVE CreatedBy(created, <<op>>) = CreatedAfter(created, op)
<1>1. Len(<<op>>) = 1 /\ <<op>>[1] = op /\ Len(<<op>>) \in Nat
  OBVIOUS
<1>2. PICK after :
        /\ CreatedBy(created, <<op>>) = after[Len(<<op>>)]
        /\ after[0] = created
        /\ \A i \in 1..Len(<<op>>) : after[i] = CreatedAfter(after[i - 1], <<op>>[i])
  BY <1>1, CreatedStepwise
<1>3. after[1] = CreatedAfter(after[1 - 1], op) /\ 1 - 1 = 0
  BY <1>1, <1>2
<1> QED
  BY <1>1, <1>2, <1>3

LEMMA SteadyOne ==
  ASSUME NEW type, type \notin Moving, NEW table, NEW identity, NEW detail
  PROVE  Steady(<<Operation(type, table, identity, detail)>>)
<1> DEFINE op == Operation(type, table, identity, detail)
<1>1. op.type = type
  BY DEF Operation
<1>2. <<op>> \in Seq({op}) /\ \A i \in DOMAIN <<op>> : <<op>>[i] = op
  OBVIOUS
<1> HIDE DEF op
<1>3. Steady(<<op>>)
  BY <1>1, <1>2 DEF Steady
<1> QED
  BY <1>3 DEF op

LEMMA SteadyBoth ==
  ASSUME NEW a, NEW b, Steady(a), Steady(b) PROVE Steady(a \o b)
<1>1. PICK S : a \in Seq(S)
  BY DEF Steady
<1>2. PICK T : b \in Seq(T)
  BY DEF Steady
<1>3. a \in Seq(S \cup T) /\ b \in Seq(S \cup T)
  BY <1>1, <1>2
<1>4. a \o b \in Seq(S \cup T)
  BY <1>3
<1>5. \A i \in DOMAIN (a \o b) :
        \/ i \in DOMAIN a /\ (a \o b)[i] = a[i]
        \/ i - Len(a) \in DOMAIN b /\ (a \o b)[i] = b[i - Len(a)]
  BY <1>3
<1> QED
  BY <1>4, <1>5 DEF Steady

LEMMA SteadyWhen ==
  ASSUME NEW ops, NEW condition
  PROVE  /\ Steady(<<>>)
         /\ Steady(ops) => Steady(When(condition, ops))
         /\ Alone(ops) => Alone(When(condition, ops))
<1>1. Steady(<<>>)
  BY DEF Steady
<1> QED
  BY <1>1 DEF When, Alone

-----------------------------------------------------------------------------
(* Alembic: an argument the code finds by its place and one Python binds   *)
(* to the parameter are the same, if no options are passed on.             *)

LEMMA PlacesOfValues ==
  ASSUME NEW f, NEW args, WellFormed(f, args), ~HasOptions(args)
  PROVE  /\ ValuePlaces(args) = 1..Len(args.positional)
         /\ \A j \in ValuePlaces(args) : Ordinal(args, j) = j
<1>1. Len(args.positional) \in Nat /\ DOMAIN args.positional = 1..Len(args.positional)
  BY DEF WellFormed, Uncommented
<1>2. \A j \in DOMAIN args.positional : args.positional[j] # Comment
  BY DEF WellFormed, Uncommented, Comment, Value
<1>3. \A j \in DOMAIN args.positional : args.positional[j] # Options
  BY DEF HasOptions, Range
<1>4. ValuePlaces(args) = 1..Len(args.positional)
  BY <1>1, <1>2, <1>3 DEF ValuePlaces
<1>5. ASSUME NEW j \in ValuePlaces(args) PROVE Ordinal(args, j) = j
  <2>1. j \in 1..Len(args.positional)
    BY <1>4
  <2>2. {i \in ValuePlaces(args) : i <= j} = 1..j
    BY <1>1, <1>4, <2>1
  <2>3. Cardinality(1..j) = j
    BY <1>1, <2>1, FS_Interval
  <2> QED
    BY <2>2, <2>3 DEF Ordinal
<1> QED
  BY <1>4, <1>5

LEMMA GivenByPlace ==
  ASSUME NEW f \in DOMAIN Parameters, NEW args, WellFormed(f, args), ~HasOptions(args),
         NEW n \in DOMAIN Parameters[f],
         \A m \in DOMAIN Parameters[f] : Parameters[f][m] = Parameters[f][n] => m = n,
         DOMAIN Parameters[f] \subseteq Nat \ {0}
  PROVE  /\ Given(f, args, Parameters[f][n]) =
              IF NthValue(args, n) # Missing THEN NthValue(args, n) ELSE KeywordValue(args, Parameters[f][n])
         /\ Given(f, args, Parameters[f][n]) =
              IF KeywordValue(args, Parameters[f][n]) # Missing
              THEN KeywordValue(args, Parameters[f][n]) ELSE NthValue(args, n)
         /\ StaticString(Given(f, args, Parameters[f][n])) = StringAt(args, n, Parameters[f][n])
<1> DEFINE names == Parameters[f]
           p == names[n]
           places == {j \in ValuePlaces(args) : Ordinal(args, j) \in DOMAIN names /\ names[Ordinal(args, j)] = p}
<1>1. /\ Len(args.positional) \in Nat /\ DOMAIN args.positional = 1..Len(args.positional)
      /\ \A j \in DOMAIN args.positional : j = n => p \notin DOMAIN args.keywords
  BY DEF WellFormed, Uncommented, HasOptions, Range
<1>2. places = {j \in 1..Len(args.positional) : j = n}
  BY PlacesOfValues
<1>3. Given(f, args, p) = IF places # {} THEN args.positional[CHOOSE j \in places : TRUE] ELSE KeywordValue(args, p)
  BY DEF Given
<1>4. CASE n \in 1..Len(args.positional)
  <2>1. places = {n}
    BY <1>2, <1>4
  <2>2. Given(f, args, p) = args.positional[n]
    BY <1>3, <2>1
  <2>3. NthValue(args, n) = args.positional[n]
    BY <1>1, <1>4 DEF NthValue
  <2>4. KeywordValue(args, p) = Missing
    BY <1>1, <1>4 DEF KeywordValue
  <2>5. StaticString(Missing) = ""
    BY DEF StaticString, Missing, Value
  <2> HIDE DEF places, p, names
  <2>6. StringAt(args, n, p) = StaticString(NthValue(args, n))
    BY <2>4, <2>5 DEF StringAt, OrElse
  <2> QED
    BY <2>2, <2>3, <2>4, <2>6 DEF p, names
<1>5. CASE n \notin 1..Len(args.positional)
  <2>1. places = {}
    BY <1>2, <1>5
  <2>2. NthValue(args, n) = Missing
    BY <1>1, <1>5 DEF NthValue
  <2>3. StaticString(Missing) = ""
    BY DEF StaticString, Missing, Value
  <2> HIDE DEF places, p, names
  <2>4. Given(f, args, p) = KeywordValue(args, p)
    BY <1>3, <2>1
  <2>5. StringAt(args, n, p) = StaticString(KeywordValue(args, p))
    BY <2>2, <2>3 DEF StringAt, OrElse
  <2> QED
    BY <2>2, <2>4, <2>5 DEF p, names
<1> QED
  BY <1>4, <1>5

LEMMA GivenByKeyword ==
  ASSUME NEW f, NEW args, NEW p,
         f \in DOMAIN Parameters => \A m \in DOMAIN Parameters[f] : Parameters[f][m] # p
  PROVE  Given(f, args, p) = KeywordValue(args, p)
<1> DEFINE names == IF f \in DOMAIN Parameters THEN Parameters[f] ELSE <<>>
           places == {j \in ValuePlaces(args) : Ordinal(args, j) \in DOMAIN names /\ names[Ordinal(args, j)] = p}
<1>1. \A m \in DOMAIN names : names[m] # p
  OBVIOUS
<1>2. places = {}
  <2> HIDE DEF names
  <2> QED BY <1>1
<1>3. Given(f, args, p) = IF places # {} THEN args.positional[CHOOSE j \in places : TRUE] ELSE KeywordValue(args, p)
  BY DEF Given
<1> QED
  BY <1>2, <1>3

-----------------------------------------------------------------------------
(* The operations of one call: what they are about.                        *)

\* Operations on the table of an identity, or of none that is known; one that
\* creates it is among them only if `creates`.
About(ops, identity, creates) ==
    /\ \E S : ops \in Seq(S)
    /\ \A i \in DOMAIN ops : /\ ops[i].identity \in {NoIdentity, identity}
                             /\ ops[i].type = "CreateModel" /\ ops[i].identity # NoIdentity => creates

LEMMA AboutNothing ==
  ASSUME NEW identity, NEW creates PROVE About(<<>>, identity, creates)
BY DEF About

LEMMA AboutOne ==
  ASSUME NEW identity, NEW creates, NEW type, NEW table, NEW of \in {NoIdentity, identity}, NEW detail,
         type = "CreateModel" /\ of # NoIdentity => creates
  PROVE  About(<<Operation(type, table, of, detail)>>, identity, creates)
<1> DEFINE op == Operation(type, table, of, detail)
<1>1. op.identity = of /\ op.type = type
  BY DEF Operation
<1>2. <<op>> \in Seq({op}) /\ \A i \in DOMAIN <<op>> : <<op>>[i] = op
  OBVIOUS
<1> HIDE DEF op
<1>3. About(<<op>>, identity, creates)
  BY <1>1, <1>2 DEF About
<1> QED
  BY <1>3 DEF op

LEMMA AboutBoth ==
  ASSUME NEW identity, NEW creates, NEW a, NEW b, About(a, identity, creates), About(b, identity, creates)
  PROVE  About(a \o b, identity, creates)
<1>1. PICK S : a \in Seq(S)
  BY DEF About
<1>2. PICK T : b \in Seq(T)
  BY DEF About
<1>3. a \in Seq(S \cup T) /\ b \in Seq(S \cup T)
  BY <1>1, <1>2
<1>4. a \o b \in Seq(S \cup T) /\ Len(a \o b) = Len(a) + Len(b)
  BY <1>3
<1>5. \A i \in DOMAIN (a \o b) :
        \/ i \in DOMAIN a /\ (a \o b)[i] = a[i]
        \/ i - Len(a) \in DOMAIN b /\ (a \o b)[i] = b[i - Len(a)]
  BY <1>3
<1> QED
  BY <1>4, <1>5 DEF About

LEMMA AboutWhen ==
  ASSUME NEW identity, NEW creates, NEW ops, About(ops, identity, creates), NEW condition
  PROVE  About(When(condition, ops), identity, creates)
BY AboutNothing DEF When

\* The table a call of f names, and the identity the code gives it.
OfFirst == {"create_table", "drop_table", "drop_column", "add_column", "alter_column"}
OfSecond == {"create_index", "drop_index", "create_unique_constraint", "create_check_constraint",
             "create_exclude_constraint"}
NameOf(f, args) ==
    IF f \in OfFirst THEN StringAt(args, 1, "table_name")
    ELSE IF f \in OfSecond THEN StringAt(args, 2, "table_name")
    ELSE StringAt(args, 2, IF f = "create_foreign_key" THEN "source_table" ELSE "new_table_name")
IdentityOf(f, args) ==
    IF f \in OfFirst \cup OfSecond \cup {"create_foreign_key", "rename_table"}
    THEN TableIdentity(args, NameOf(f, args), IF f = "create_foreign_key" THEN "source_schema" ELSE "schema",
                       IF f = "alter_column" THEN 12 ELSE 0)
    ELSE NoIdentity

\* A call is certain to create a table only so.
CreatesSurely(f, args, unconditional, direct) ==
    f = "create_table" /\ CertainCreate(args, unconditional, direct) /\ NameOf(f, args) # ""

LEMMA CallIsAbout ==
  ASSUME NEW f, NEW args, NEW unconditional, NEW direct
  PROVE  About(ExtractOperation(f, args, unconditional, direct), IdentityOf(f, args),
               CreatesSurely(f, args, unconditional, direct))
<1> DEFINE ops == ExtractOperation(f, args, unconditional, direct)
           id == IdentityOf(f, args)
           name == NameOf(f, args)
           creates == CreatesSurely(f, args, unconditional, direct)
           Right(these) == About(these, id, creates)
<1> SUFFICES Right(ops)
  OBVIOUS
<1> USE DEF NameOf, IdentityOf, OfFirst, OfSecond, Constraints
<1>a. ASSUME NEW type, type # "CreateModel", NEW detail, id = TableIdentity(args, name, "schema", 0)
      PROVE  Right(On(args, type, name, detail))
  <2> HIDE DEF id, name, creates
  <2> QED BY <1>a, AboutOne DEF On
<1>b. ASSUME NEW these, Right(these), NEW condition PROVE Right(When(condition, these))
  <2> HIDE DEF id, name, creates
  <2> QED BY <1>b, AboutWhen
<1>c. ASSUME NEW these, NEW those, Right(these), Right(those) PROVE Right(these \o those)
  <2> HIDE DEF id, name, creates
  <2> QED BY <1>c, AboutBoth
<1>d. Right(<<>>)
  <2> HIDE DEF id, name, creates
  <2> QED BY AboutNothing
<1>1. CASE f = "create_table"
  <2>1. name = StringAt(args, 1, "table_name") /\ id = TableIdentity(args, name, "schema", 0)
    BY <1>1
  <2>2. ops = When(name # "", << Operation("CreateModel", name,
                 IF CertainCreate(args, unconditional, direct) THEN id ELSE NoIdentity, {}) >>)
    BY <1>1, <2>1 DEF ExtractOperation, CreateTable
  <2>3. CASE name = ""
    BY <1>d, <2>2, <2>3 DEF When
  <2>4. CASE name # ""
    <3>1. CertainCreate(args, unconditional, direct) => creates
      BY <1>1, <2>4 DEF CreatesSurely
    <3> HIDE DEF id, name, creates, ops
    <3>2. Right(<< Operation("CreateModel", name,
                    IF CertainCreate(args, unconditional, direct) THEN id ELSE NoIdentity, {}) >>)
      BY <3>1, AboutOne
    <3> HIDE DEF Right
    <3> QED
      BY <2>2, <3>2, <1>b
  <2> QED
    BY <2>3, <2>4
<1>2. CASE f \in {"create_index", "drop_index"}
  <2>1. name = StringAt(args, 2, "table_name") /\ id = TableIdentity(args, name, "schema", 0)
    BY <1>2
  <2>2. ops = When(name # "" \/ f = "drop_index",
                   On(args, IndexType(f = "create_index", IsTrue(args, "postgresql_concurrently")), name, {}))
    BY <1>2, <2>1 DEF ExtractOperation, ChangeIndex
  <2>3. IndexType(f = "create_index", IsTrue(args, "postgresql_concurrently")) # "CreateModel"
    BY DEF IndexType
  <2> HIDE DEF id, name, Right, ops
  <2> QED
    BY <1>a, <1>b, <2>1, <2>2, <2>3
<1>3. CASE f = "drop_column"
  <2>1. name = StringAt(args, 1, "table_name") /\ id = TableIdentity(args, name, "schema", 0)
    BY <1>3
  <2>2. ops = When(name # "" /\ StringAt(args, 2, "column_name") # "", On(args, "RemoveField", name, {}))
    BY <1>3, <2>1 DEF ExtractOperation, DropColumn
  <2> HIDE DEF id, name, Right, ops
  <2> QED
    BY <1>a, <1>b, <2>1, <2>2
<1>4. CASE f = "add_column"
  <2>1. name = StringAt(args, 1, "table_name") /\ id = TableIdentity(args, name, "schema", 0)
    BY <1>4
  <2>2. \/ ops = <<>>
        \/ \E flags : ops = On(args, "AddField", name, flags)
                            \o When("unique" \in flags, On(args, "AddConstraint", name, {"unique"}))
                            \o When("index" \in flags, On(args, "AddIndex", name, {}))
    BY <1>4, <2>1 DEF ExtractOperation, AddColumn
  <2> HIDE DEF id, name, Right, ops
  <2>3. \A flags : /\ Right(On(args, "AddField", name, flags))
                   /\ Right(When("unique" \in flags, On(args, "AddConstraint", name, {"unique"})))
                   /\ Right(When("index" \in flags, On(args, "AddIndex", name, {})))
    BY <1>a, <1>b, <2>1
  <2> QED
    BY <1>c, <1>d, <2>2, <2>3
<1>5. CASE f = "alter_column"
  <2>1. name = StringAt(args, 1, "table_name") /\ id = TableIdentity(args, name, "schema", 12)
    BY <1>5
  <2>2. \/ ops = <<>>
        \/ \E changes, newName :
              ops = When(changes # {}, << Operation("AlterField", name, id, changes) >>)
                    \o When(newName # "", << Operation("RenameField", name, id, {}) >>)
    BY <1>5, <2>1 DEF ExtractOperation, AlterColumn
  <2> HIDE DEF id, name, ops, creates
  <2>3. \A detail : /\ Right(<< Operation("AlterField", name, id, detail) >>)
                    /\ Right(<< Operation("RenameField", name, id, detail) >>)
    BY AboutOne
  <2> HIDE DEF Right
  <2>4. \A changes, newName :
          /\ Right(When(changes # {}, << Operation("AlterField", name, id, changes) >>))
          /\ Right(When(newName # "", << Operation("RenameField", name, id, {}) >>))
    BY <1>b, <2>3
  <2> QED
    BY <1>c, <1>d, <2>2, <2>4
<1>6. CASE f = "create_unique_constraint"
  <2>1. name = StringAt(args, 2, "table_name") /\ id = TableIdentity(args, name, "schema", 0)
    BY <1>6
  <2>2. ops = When(name # "", On(args, "AddConstraint", name, {"unique"}))
    BY <1>6, <2>1 DEF ExtractOperation, AddUnique
  <2> HIDE DEF id, name, Right, ops
  <2> QED
    BY <1>a, <1>b, <2>1, <2>2
<1>7. CASE f = "rename_table"
  <2>1. name = StringAt(args, 2, "new_table_name") /\ id = TableIdentity(args, name, "schema", 0)
    BY <1>7
  <2>2. ops = When(StringAt(args, 1, "old_table_name") # "" /\ name # "", On(args, "RenameModel", name, {StringAt(args, 1, "old_table_name")}))
    BY <1>7, <2>1 DEF ExtractOperation, RenameTable
  <2> HIDE DEF id, name, Right, ops
  <2> QED
    BY <1>a, <1>b, <2>1, <2>2
<1>8. CASE f = "drop_table"
  <2>1. name = StringAt(args, 1, "table_name") /\ id = TableIdentity(args, name, "schema", 0)
    BY <1>8
  <2>2. ops = When(name # "", On(args, "DeleteModel", name, {}))
    BY <1>8, <2>1 DEF ExtractOperation, DropTable
  <2> HIDE DEF id, name, Right, ops
  <2> QED
    BY <1>a, <1>b, <2>1, <2>2
<1>9. CASE f \in Constraints
  <2>1. /\ name = StringAt(args, 2, IF f = "create_foreign_key" THEN "source_table" ELSE "table_name")
        /\ id = TableIdentity(args, name, IF f = "create_foreign_key" THEN "source_schema" ELSE "schema", 0)
    BY <1>9 DEF Constraints
  <2>2. \E detail : ops = When(name # "", << Operation("AddConstraint", name, id, detail) >>)
    BY <1>9, <2>1 DEF ExtractOperation, AddConstraint, Constraints
  <2> HIDE DEF id, name, ops, creates
  <2>3. \A detail : Right(<< Operation("AddConstraint", name, id, detail) >>)
    BY AboutOne
  <2> HIDE DEF Right
  <2> QED
    BY <1>b, <2>2, <2>3
<1>10. CASE f = "execute"
  <2>1. ops = When(StringAt(args, 1, "sqltext") # "", << Operation("ExecuteSql", "", NoIdentity, {}) >>)
    BY <1>10 DEF ExtractOperation, Execute, Constraints
  <2> HIDE DEF id, name, ops, creates
  <2>2. Right(<< Operation("ExecuteSql", "", NoIdentity, {}) >>)
    BY AboutOne
  <2> HIDE DEF Right
  <2> QED
    BY <1>b, <2>1, <2>2
<1>11. CASE f \notin OfFirst \cup OfSecond \cup Constraints \cup {"rename_table", "execute"}
  <2>1. ops = <<>>
    BY <1>11 DEF ExtractOperation, Constraints
  <2> HIDE DEF id, creates, ops, Right
  <2> QED
    BY <1>d, <2>1
<1> QED
  BY <1>1, <1>2, <1>3, <1>4, <1>5, <1>6, <1>7, <1>8, <1>9, <1>10, <1>11 DEF Constraints

\* A call that changes the set becomes one operation; which, its function tells.
CallType(f, args, op) ==
    /\ op.type = "CreateModel" <=> f = "create_table"
    /\ op.type = "RenameModel" <=> f = "rename_table"
    /\ op.type \in Moving => f # "drop_index"
    /\ f = "rename_table" => LET old == StringAt(args, 1, "old_table_name") IN old # "" /\ op.detail = {old}

LEMMA CallIsAlone ==
  ASSUME NEW f, NEW args, NEW unconditional, NEW direct
  PROVE  LET ops == ExtractOperation(f, args, unconditional, direct)
         IN Alone(ops) /\ \A i \in DOMAIN ops : CallType(f, args, ops[i])
<1> DEFINE ops == ExtractOperation(f, args, unconditional, direct)
           Right(these) == Alone(these) /\ \A i \in DOMAIN these : CallType(f, args, these[i])
<1> SUFFICES Right(ops)
  OBVIOUS
<1>1. Right(<<>>)
  BY SteadyWhen DEF Alone
<1>2. ASSUME NEW condition, NEW type, NEW table, NEW identity, NEW detail,
             condition => CallType(f, args, Operation(type, table, identity, detail)),
             ops = When(condition, << Operation(type, table, identity, detail) >>)
      PROVE  Right(ops)
  <2> DEFINE op == Operation(type, table, identity, detail)
  <2> HIDE DEF op, ops
  <2>1. ops = When(condition, <<op>>) /\ (condition => CallType(f, args, op))
    BY <1>2 DEF op
  <2>2. CASE condition
    <3>1. ops = <<op>> /\ \A i \in DOMAIN <<op>> : <<op>>[i] = op
      BY <2>1, <2>2 DEF When
    <3> QED
      BY <2>1, <2>2, <3>1 DEF Alone
  <2>3. CASE ~condition
    BY <1>1, <2>1, <2>3 DEF When
  <2> QED
    BY <2>2, <2>3
<1>3. ASSUME NEW type, type \notin {"CreateModel", "RenameModel"}, f \notin {"create_table", "rename_table"},
             type \in Moving => f # "drop_index", NEW table, NEW identity, NEW detail
      PROVE  CallType(f, args, Operation(type, table, identity, detail))
  BY <1>3 DEF CallType, Operation
<1>4. CASE f = "create_table"
  <2> DEFINE table == StringAt(args, 1, "table_name")
             identity == IF CertainCreate(args, unconditional, direct) THEN TableIdentity(args, table, "schema", 0) ELSE NoIdentity
  <2>1. ops = When(table # "", << Operation("CreateModel", table, identity, {}) >>)
    BY <1>4 DEF ExtractOperation, CreateTable, Constraints
  <2> HIDE DEF table, identity, ops
  <2>2. CallType(f, args, Operation("CreateModel", table, identity, {}))
    BY <1>4 DEF CallType, Operation
  <2> HIDE DEF Right
  <2> QED
    BY <1>2, <2>1, <2>2
<1>5. CASE f = "rename_table"
  <2> DEFINE name == StringAt(args, 2, "new_table_name")
             old == StringAt(args, 1, "old_table_name")
             identity == TableIdentity(args, name, "schema", 0)
  <2>1. ops = When(old # "" /\ name # "", << Operation("RenameModel", name, identity, {old}) >>)
    BY <1>5 DEF ExtractOperation, RenameTable, On, Constraints
  <2>2. old # "" => CallType(f, args, Operation("RenameModel", name, identity, {old}))
    <3> HIDE DEF name, identity
    <3> QED BY <1>5 DEF CallType, Operation
  <2> HIDE DEF name, old, identity, ops, Right
  <2> QED
    BY <1>2, <2>1, <2>2
<1>6. ASSUME f \notin {"create_table", "rename_table"}, NEW condition, NEW type, type \notin {"CreateModel", "RenameModel"},
             type \in Moving => f # "drop_index", NEW table, NEW identity, NEW detail, ops = When(condition, << Operation(type, table, identity, detail) >>)
      PROVE  Right(ops)
  <2> HIDE DEF ops, Right
  <2> QED BY <1>2, <1>3, <1>6
<1> DEFINE first == StringAt(args, 1, "table_name")
           second == StringAt(args, 2, "table_name")
           Of(table) == TableIdentity(args, table, "schema", 0)
<1>a. CASE f \in {"create_index", "drop_index"}
  <2> DEFINE type == IndexType(f = "create_index", IsTrue(args, "postgresql_concurrently"))
             condition == second # "" \/ f = "drop_index"
  <2>1. ops = When(condition, << Operation(type, second, Of(second), {}) >>)
    BY <1>a DEF ExtractOperation, ChangeIndex, On, Constraints
  <2>2. type \notin Moving /\ type \notin {"CreateModel", "RenameModel"}
    BY DEF IndexType, Moving
  <2> HIDE DEF ops, Right, type, second, condition, Of
  <2> QED
    BY <1>6, <1>a, <2>1, <2>2
<1>b. CASE f = "drop_column"
  <2> DEFINE condition == first # "" /\ StringAt(args, 2, "column_name") # ""
  <2>1. ops = When(condition, << Operation("RemoveField", first, Of(first), {}) >>)
    BY <1>b DEF ExtractOperation, DropColumn, On, Constraints
  <2> HIDE DEF ops, Right, first, condition, Of
  <2> QED
    BY <1>6, <1>b, <2>1
<1>c. CASE f = "create_unique_constraint"
  <2> DEFINE condition == second # ""
  <2>1. ops = When(condition, << Operation("AddConstraint", second, Of(second), {"unique"}) >>)
    BY <1>c DEF ExtractOperation, AddUnique, On, Constraints
  <2> HIDE DEF ops, Right, second, condition, Of
  <2> QED
    BY <1>6, <1>c, <2>1
<1>d. CASE f = "drop_table"
  <2> DEFINE condition == first # ""
  <2>1. ops = When(condition, << Operation("DeleteModel", first, Of(first), {}) >>)
    BY <1>d DEF ExtractOperation, DropTable, On, Constraints
  <2> HIDE DEF ops, Right, first, condition, Of
  <2> QED
    BY <1>6, <1>d, <2>1
<1>e. CASE f = "execute"
  <2> DEFINE condition == StringAt(args, 1, "sqltext") # ""
  <2>1. ops = When(condition, << Operation("ExecuteSql", "", NoIdentity, {}) >>)
    BY <1>e DEF ExtractOperation, Execute, Constraints
  <2> HIDE DEF ops, Right, condition
  <2> QED
    BY <1>6, <1>e, <2>1
<1>f. CASE f \in Constraints
  <2>1. PICK condition, table, identity, detail : ops = When(condition, << Operation("AddConstraint", table, identity, detail) >>)
    BY <1>f DEF ExtractOperation, AddConstraint, Constraints
  <2>2. f \notin {"create_table", "rename_table", "drop_index"}
    BY <1>f DEF Constraints
  <2> HIDE DEF ops, Right
  <2> QED
    BY <1>6, <2>1, <2>2
<1>7. ASSUME f \notin {"create_table", "rename_table"}, Steady(ops) PROVE Right(ops)
  BY <1>7 DEF Alone, CallType, Steady, Moving
<1>8. CASE f = "add_column"
  <2>1. \/ ops = <<>>
        \/ \E table, identity, flags :
              ops = << Operation("AddField", table, identity, flags) >>
                    \o When("unique" \in flags, << Operation("AddConstraint", table, identity, {"unique"}) >>)
                    \o When("index" \in flags, << Operation("AddIndex", table, identity, {}) >>)
    BY <1>8 DEF ExtractOperation, AddColumn, On, Constraints
  <2>2. \A type \in {"AddField", "AddConstraint", "AddIndex"} : type \notin Moving
    BY DEF Moving
  <2>3. \A table, identity, detail : /\ Steady(<< Operation("AddField", table, identity, detail) >>)
                                     /\ Steady(<< Operation("AddConstraint", table, identity, detail) >>)
                                     /\ Steady(<< Operation("AddIndex", table, identity, detail) >>)
    BY <2>2, SteadyOne
  <2> HIDE DEF ops, Right
  <2>4. Steady(ops)
    BY <2>1, <2>3, SteadyBoth, SteadyWhen
  <2> QED
    BY <1>7, <1>8, <2>4
<1>9. CASE f = "alter_column"
  <2>1. \/ ops = <<>>
        \/ \E table, identity, changes, condition :
              ops = When(changes # {}, << Operation("AlterField", table, identity, changes) >>)
                    \o When(condition, << Operation("RenameField", table, identity, {}) >>)
    BY <1>9 DEF ExtractOperation, AlterColumn, Constraints
  <2>2. \A type \in {"AlterField", "RenameField"} : type \notin Moving
    BY DEF Moving
  <2>3. \A table, identity, detail : /\ Steady(<< Operation("AlterField", table, identity, detail) >>)
                                     /\ Steady(<< Operation("RenameField", table, identity, detail) >>)
    BY <2>2, SteadyOne
  <2> HIDE DEF ops, Right
  <2>4. Steady(ops)
    BY <2>1, <2>3, SteadyBoth, SteadyWhen
  <2> QED
    BY <1>7, <1>9, <2>4
<1>10. CASE f \notin {"create_table", "rename_table", "add_column", "alter_column", "create_index", "drop_index", "drop_column",
                      "create_unique_constraint", "drop_table", "execute"} \cup Constraints
  <2>1. ops = <<>>
    BY <1>10 DEF ExtractOperation, Constraints
  <2> HIDE DEF ops, Right
  <2> QED
    BY <1>1, <2>1
<1> HIDE DEF ops, Right
<1> QED
  BY <1>4, <1>5, <1>8, <1>9, <1>10, <1>a, <1>b, <1>c, <1>d, <1>e, <1>f

\* Unless it is an index that is dropped, a call that does not name its table
\* becomes nothing.
LEMMA NothingUnnamed ==
  ASSUME NEW f \in OfFirst \cup OfSecond \cup {"create_foreign_key", "rename_table"}, f # "drop_index", NEW args,
         NEW unconditional, NEW direct, NameOf(f, args) = ""
  PROVE  ExtractOperation(f, args, unconditional, direct) = <<>>
<1> USE DEF ExtractOperation, NameOf, OfFirst, OfSecond, Constraints, When
<1>1. CASE f = "create_table"
  BY <1>1 DEF CreateTable
<1>2. CASE f = "create_index"
  BY <1>2 DEF ChangeIndex
<1>3. CASE f = "drop_column"
  BY <1>3 DEF DropColumn
<1>4. CASE f = "add_column"
  BY <1>4 DEF AddColumn
<1>5. CASE f = "alter_column"
  BY <1>5 DEF AlterColumn
<1>6. CASE f = "create_unique_constraint"
  BY <1>6 DEF AddUnique
<1>7. CASE f = "rename_table"
  BY <1>7 DEF RenameTable
<1>8. CASE f = "drop_table"
  BY <1>8 DEF DropTable
<1>9. CASE f \in {"create_foreign_key", "create_check_constraint", "create_exclude_constraint"}
  BY <1>9 DEF AddConstraint
<1> QED
  BY <1>1, <1>2, <1>3, <1>4, <1>5, <1>6, <1>7, <1>8, <1>9

\* Where the code finds the table of a call is where Python binds it.
LEMMA NameIsGiven ==
  ASSUME NEW f \in OfFirst \cup OfSecond \cup {"create_foreign_key", "rename_table"}, NEW args,
         WellFormed(f, args), ~HasOptions(args)
  PROVE  StaticString(Given(f, args, IF f = "create_foreign_key" THEN "source_table"
                                     ELSE IF f = "rename_table" THEN "new_table_name" ELSE "table_name"))
           = NameOf(f, args)
<1> DEFINE n == IF f \in OfFirst THEN 1 ELSE 2
           p == IF f = "create_foreign_key" THEN "source_table"
                ELSE IF f = "rename_table" THEN "new_table_name" ELSE "table_name"
<1>1. /\ f \in DOMAIN Parameters /\ n \in DOMAIN Parameters[f] /\ Parameters[f][n] = p
      /\ \A m \in DOMAIN Parameters[f] : Parameters[f][m] = Parameters[f][n] => m = n
      /\ DOMAIN Parameters[f] \subseteq Nat \ {0}
  BY DEF OfFirst, OfSecond, Parameters
<1>2. StaticString(Given(f, args, Parameters[f][n])) = StringAt(args, n, Parameters[f][n])
  <2> HIDE DEF n, p
  <2> QED BY <1>1, GivenByPlace
<1>3. NameOf(f, args) = StringAt(args, n, p)
  BY DEF NameOf, OfFirst, OfSecond
<1> HIDE DEF n
<1> QED
  BY <1>1, <1>2, <1>3 DEF p

LEMMA SchemaIsGiven ==
  ASSUME NEW f \in OfFirst \cup OfSecond \cup {"create_foreign_key", "rename_table"}, NEW args,
         WellFormed(f, args), ~HasOptions(args)
  PROVE  LET keyword == IF f = "create_foreign_key" THEN "source_schema" ELSE "schema"
             positional == IF f = "alter_column" THEN NthValue(args, 12) ELSE Missing
         IN Given(f, args, keyword) =
              IF KeywordValue(args, keyword) # Missing THEN KeywordValue(args, keyword) ELSE positional
<1>1. CASE f = "alter_column"
  <2>1. /\ f \in DOMAIN Parameters /\ 12 \in DOMAIN Parameters[f] /\ Parameters[f][12] = "schema"
        /\ \A m \in DOMAIN Parameters[f] : Parameters[f][m] = Parameters[f][12] => m = 12
        /\ DOMAIN Parameters[f] \subseteq Nat \ {0}
    BY <1>1 DEF Parameters
  <2>2. Given(f, args, Parameters[f][12]) =
          IF KeywordValue(args, Parameters[f][12]) # Missing
          THEN KeywordValue(args, Parameters[f][12]) ELSE NthValue(args, 12)
    BY <2>1, GivenByPlace
  <2> QED
    BY <1>1, <2>1, <2>2
<1>2. CASE f # "alter_column"
  <2> DEFINE keyword == IF f = "create_foreign_key" THEN "source_schema" ELSE "schema"
  <2>1. f \in DOMAIN Parameters => \A m \in DOMAIN Parameters[f] : Parameters[f][m] # keyword
    BY <1>2 DEF OfFirst, OfSecond, Parameters
  <2>2. Given(f, args, keyword) = KeywordValue(args, keyword)
    <3> HIDE DEF keyword
    <3> QED BY <2>1, GivenByKeyword
  <2> QED
    BY <1>2, <2>2
<1> QED
  BY <1>1, <1>2

(***************************************************************************)
(* An operation of an Alembic call has an identity only if it is the one   *)
(* table Python could pass (IdentityExact of calls): for every function    *)
(* the extractor knows and every argument list Python accepts, with        *)
(* arguments by place, by keyword and by `**options`.                      *)
(***************************************************************************)
THEOREM CallIdentityIsExact ==
  ASSUME NEW f, NEW args, WellFormed(f, args), NEW schemas, NEW unconditional, NEW direct,
         NEW i \in DOMAIN ExtractOperation(f, args, unconditional, direct),
         ExtractOperation(f, args, unconditional, direct)[i].identity # NoIdentity
  PROVE  Touches(f, args, schemas) = {ExtractOperation(f, args, unconditional, direct)[i].identity}
<1> DEFINE id == IdentityOf(f, args)
           name == NameOf(f, args)
           keyword == IF f = "create_foreign_key" THEN "source_schema" ELSE "schema"
           parameter == IF f = "create_foreign_key" THEN "source_table"
                        ELSE IF f = "rename_table" THEN "new_table_name" ELSE "table_name"
           positional == IF f = "alter_column" THEN NthValue(args, 12) ELSE Missing
           schema == IF KeywordValue(args, keyword) # Missing THEN KeywordValue(args, keyword) ELSE positional
<1>1. ExtractOperation(f, args, unconditional, direct)[i].identity = id /\ id # NoIdentity
  BY CallIsAbout DEF About
<1>2. f \in OfFirst \cup OfSecond \cup {"create_foreign_key", "rename_table"}
  BY <1>1 DEF IdentityOf
<1>3. id = TableIdentity(args, name, keyword, IF f = "alter_column" THEN 12 ELSE 0)
  BY <1>2 DEF IdentityOf
<1>4. ~HasOptions(args)
  <2> HIDE DEF name, keyword
  <2> QED BY <1>1, <1>3 DEF TableIdentity
<1>5. id = IF schema = Missing \/ schema.text = "None" THEN Identity(NoSchema, name)
           ELSE IF StaticString(schema) = "" THEN NoIdentity ELSE Identity(StaticString(schema), name)
  <2>1. CASE f = "alter_column"
    <3>1. id = TableIdentity(args, name, keyword, 12) /\ positional = NthValue(args, 12)
      BY <1>3, <2>1
    <3>2. (IF 12 = 0 THEN Missing ELSE NthValue(args, 12)) = NthValue(args, 12)
      OBVIOUS
    <3> HIDE DEF name, keyword, id, positional
    <3> QED BY <1>4, <3>1, <3>2 DEF TableIdentity
  <2>2. CASE f # "alter_column"
    <3>1. id = TableIdentity(args, name, keyword, 0) /\ positional = Missing
      BY <1>3, <2>2
    <3> HIDE DEF name, keyword, id, positional
    <3> QED BY <1>4, <3>1 DEF TableIdentity
  <2> QED
    BY <2>1, <2>2
<1>6. StaticString(Given(f, args, parameter)) = name
  BY <1>2, <1>4, NameIsGiven
<1>7. Given(f, args, keyword) = schema
  BY <1>2, <1>4, SchemaIsGiven
<1>8. Touches(f, args, schemas) =
        {Identity(s, name) : s \in CASE schema = Missing -> IF HasOptions(args) THEN schemas ELSE {NoSchema}
                                     [] schema.text = "None" -> {NoSchema}
                                     [] schema.node = "string" /\ schema.text \notin {"", "None"} -> {schema.text}
                                     [] OTHER -> schemas}
  <2>1. parameter = CASE f = "create_foreign_key" -> "source_table"
                      [] f = "rename_table" -> "new_table_name" [] OTHER -> "table_name"
    OBVIOUS
  <2> HIDE DEF name, schema, parameter
  <2> QED BY <1>6, <1>7, <2>1 DEF Touches
<1>9. CASE schema = Missing \/ schema.text = "None"
  <2>1. id = Identity(NoSchema, name)
    BY <1>5, <1>9
  <2>2. Touches(f, args, schemas) = {Identity(s, name) : s \in {NoSchema}}
    <3> HIDE DEF name, schema
    <3>1. Missing.text = "" /\ Missing.node = "missing"
      BY DEF Missing, Value
    <3>2. CASE schema = Missing
      BY <1>4, <1>8, <3>1, <3>2
    <3>3. CASE schema # Missing /\ schema.text = "None"
      BY <1>4, <1>8, <3>1, <3>3
    <3> QED BY <1>9, <3>2, <3>3
  <2> HIDE DEF name, schema, id
  <2> QED
    BY <1>1, <2>1, <2>2
<1>10. CASE schema # Missing /\ schema.text # "None"
  <2>1. StaticString(schema) # "" /\ id = Identity(StaticString(schema), name)
    BY <1>1, <1>5, <1>10
  <2>2. schema.node = "string" /\ schema.text # "" /\ StaticString(schema) = schema.text
    <3> HIDE DEF schema
    <3> QED BY <2>1 DEF StaticString
  <2>3. Touches(f, args, schemas) = {Identity(s, name) : s \in {schema.text}}
    <3> HIDE DEF name, schema
    <3> QED BY <1>8, <1>10, <2>2
  <2> HIDE DEF name, schema, id
  <2> QED
    BY <1>1, <2>1, <2>2, <2>3
<1> QED
  BY <1>9, <1>10

\* What Python binds to a parameter, with `**options` after the values.
LEMMA ValueGiven ==
  ASSUME NEW f \in DOMAIN Parameters, NEW args, WellFormed(f, args),
         NEW n \in DOMAIN Parameters[f],
         \A m \in DOMAIN Parameters[f] : Parameters[f][m] = Parameters[f][n] => m = n,
         DOMAIN Parameters[f] \subseteq Nat \ {0}
  PROVE  /\ StaticString(Given(f, args, Parameters[f][n])) = StringAt(args, n, Parameters[f][n])
         /\ \/ /\ NthValue(args, n) = Given(f, args, Parameters[f][n])
               /\ KeywordValue(args, Parameters[f][n]) = Missing
            \/ /\ NthValue(args, n) \in {Missing, Options}
               /\ Given(f, args, Parameters[f][n]) = KeywordValue(args, Parameters[f][n])
         /\ Given(f, args, Parameters[f][n]) \in ArgumentValues(args) \cup {Missing}
<1> DEFINE names == Parameters[f]
           p == names[n]
           size == Len(args.positional)
           places == {j \in ValuePlaces(args) : Ordinal(args, j) \in DOMAIN names /\ names[Ordinal(args, j)] = p}
<1>1. /\ size \in Nat /\ DOMAIN args.positional = 1..size
      /\ \A j \in 1..size : args.positional[j] # Comment
      /\ \A i, j \in 1..size : i < j /\ args.positional[i] = Options => args.positional[j] = Options
      /\ \A j \in 1..size : j = n => args.positional[j] = Options \/ p \notin DOMAIN args.keywords
  BY DEF WellFormed, Uncommented, Comment, Value
<1>2. ValuePlaces(args) = {j \in 1..size : args.positional[j] # Options}
  BY <1>1 DEF ValuePlaces
<1>3. ASSUME NEW j \in ValuePlaces(args) PROVE Ordinal(args, j) = j
  <2>1. j \in 1..size /\ \A i \in 1..j : i \in ValuePlaces(args)
    BY <1>1, <1>2
  <2>2. {i \in ValuePlaces(args) : i <= j} = 1..j
    BY <1>1, <1>2, <2>1
  <2>3. Cardinality(1..j) = j
    BY <1>1, <2>1, FS_Interval
  <2> QED
    BY <2>2, <2>3 DEF Ordinal
<1>4. places = {j \in ValuePlaces(args) : j = n}
  BY <1>3
<1>5. Given(f, args, p) = IF places # {} THEN args.positional[CHOOSE j \in places : TRUE] ELSE KeywordValue(args, p)
  BY DEF Given
<1>6. /\ StaticString(Missing) = "" /\ StaticString(Options) = "" /\ Missing # Options
      /\ KeywordValue(args, p) \in Range(args.keywords) \cup {Missing}
  BY DEF StaticString, Missing, Options, Value, KeywordValue, Range
<1>7. CASE n \in ValuePlaces(args)
  <2>1. places = {n}
    BY <1>4, <1>7
  <2>2. Given(f, args, p) = args.positional[n] /\ args.positional[n] \in Range(args.positional)
    <3> HIDE DEF p, places
    <3> QED BY <1>1, <1>2, <1>5, <1>7, <2>1 DEF Range
  <2>3. NthValue(args, n) = args.positional[n]
    BY <1>1, <1>2, <1>7 DEF NthValue
  <2>4. KeywordValue(args, p) = Missing
    BY <1>1, <1>2, <1>7 DEF KeywordValue
  <2> HIDE DEF places, p, names
  <2>5. StringAt(args, n, p) = StaticString(NthValue(args, n))
    BY <1>6, <2>4 DEF StringAt, OrElse
  <2> QED
    BY <2>2, <2>3, <2>4, <2>5 DEF p, names, ArgumentValues
<1>8. CASE n \notin ValuePlaces(args)
  <2>1. places = {}
    BY <1>4, <1>8
  <2>2. NthValue(args, n) \in {Missing, Options}
    BY <1>1, <1>2, <1>8 DEF NthValue
  <2> HIDE DEF places, p, names
  <2>3. Given(f, args, p) = KeywordValue(args, p)
    BY <1>5, <2>1
  <2>4. StringAt(args, n, p) = StaticString(KeywordValue(args, p))
    BY <1>6, <2>2 DEF StringAt, OrElse
  <2> QED
    BY <1>6, <2>2, <2>3, <2>4 DEF p, names, ArgumentValues
<1> QED
  BY <1>7, <1>8

LEMMA ParametersDiffer ==
  ASSUME NEW f \in DOMAIN Parameters
  PROVE  /\ DOMAIN Parameters[f] \subseteq Nat \ {0}
         /\ \A m, n \in DOMAIN Parameters[f] : Parameters[f][m] = Parameters[f][n] => m = n
<1>1. CASE f = "alter_column"
  BY <1>1 DEF Parameters
<1>2. CASE f # "alter_column"
  BY <1>2 DEF Parameters
<1> QED
  BY <1>1, <1>2

\* A string is found where Python has it.
LEMMA StringGiven ==
  ASSUME NEW f, NEW args, WellFormed(f, args), f \in DOMAIN Parameters,
         NEW n \in DOMAIN Parameters[f], NEW p, p = Parameters[f][n]
  PROVE  StringAt(args, n, p) = StaticString(Given(f, args, p))
BY ParametersDiffer, ValueGiven

\* A call that is certain to create a table creates it, or fails.
LEMMA CallCreates ==
  ASSUME NEW call \in Calls, NEW unconditional, NEW direct,
         NEW i \in DOMAIN ExtractOperation(call.f, call.args, unconditional, direct),
         ExtractOperation(call.f, call.args, unconditional, direct)[i].type = "CreateModel",
         ExtractOperation(call.f, call.args, unconditional, direct)[i].identity # NoIdentity
  PROVE  unconditional /\ direct /\ KindOf(call) = "create"
<1> DEFINE f == call.f
           args == call.args
<1>1. CreatesSurely(f, args, unconditional, direct) /\ IdentityOf(f, args) # NoIdentity
  BY CallIsAbout DEF About
<1>2. ~HasOptions(args)
  <2>1. IdentityOf(f, args) = TableIdentity(args, NameOf(f, args), "schema", 0)
    BY <1>1 DEF IdentityOf, OfFirst, CreatesSurely
  <2> HIDE DEF f, args
  <2> QED
    BY <1>1, <2>1 DEF TableIdentity
<1>3. Given(f, args, "if_not_exists") = KeywordValue(args, "if_not_exists")
  <2>1. f \in DOMAIN Parameters => \A m \in DOMAIN Parameters[f] : Parameters[f][m] # "if_not_exists"
    <3>1. f = "create_table"
      BY <1>1 DEF CreatesSurely
    <3>2. DOMAIN Parameters["create_table"] = {1} /\ Parameters["create_table"][1] = "table_name"
      BY DEF Parameters
    <3> HIDE DEF f
    <3> QED BY <3>1, <3>2
  <2> HIDE DEF f, args
  <2> QED
    BY <2>1, GivenByKeyword
<1>4. ~MayKeep(f, args)
  <2>1. FalseOrAbsent(args, "if_not_exists")
    BY <1>1 DEF CreatesSurely, CertainCreate
  <2>2. Missing.node = "missing"
    BY DEF Missing, Value
  <2> HIDE DEF f, args
  <2> QED
    BY <1>2, <1>3, <2>1, <2>2 DEF MayKeep, FalseOrAbsent
<1> QED
  BY <1>1, <1>4 DEF CreatesSurely, CertainCreate, KindOf

\* The operations say of the run's statement what it does to the tables they
\* have identities of.
Describes(ops, kind, t, to, runs) ==
    /\ Alone(ops)
    /\ \A i \in DOMAIN ops :
          /\ ops[i].identity = NoIdentity \/ ops[i].type \notin Moving \/ ops[i].identity \in Tables
          /\ ops[i].identity \in Tables =>
                /\ ops[i].type = "CreateModel" =>
                      /\ ops[i].identity = t /\ runs /\ ~Conditional
                      /\ kind = "create" \/ (kind = "create if" /\ database[t] # "existing")
                /\ ops[i].type = "RenameModel" =>
                      ops[i].identity = to /\ kind = "rename" /\ t.schema = to.schema /\ ops[i].detail = {t.name}
                /\ ops[i].type \notin {"CreateModel", "RenameModel"} => ops[i].identity = t /\ kind \notin {"rename", "sql"}

LEMMA CallDescribes ==
  ASSUME NEW call \in Calls, NEW unconditional, NEW direct, NEW runs, unconditional /\ direct => runs /\ ~Conditional,
         NEW kind \in Kinds(call), NEW p \in Places(call)
  PROVE  /\ p[1] \in Tables /\ p[2] \in Tables
         /\ Describes(ExtractOperation(call.f, call.args, unconditional, direct), kind, p[1], p[2], runs)
<1> DEFINE f == call.f
           args == call.args
           ops == ExtractOperation(f, args, unconditional, direct)
<1>1. WellFormed(f, args) /\ Places(call) # {}
  BY CallsAssumption
<1>2. Alone(ops) /\ \A i \in DOMAIN ops : CallType(f, args, ops[i])
  BY CallIsAlone
<1>3. /\ p[1] \in Tables /\ p[2] \in Tables
      /\ f = "rename_table" => /\ p[1].schema = p[2].schema
                               /\ StaticString(Given(f, args, "old_table_name")) \in {"", p[1].name}
                               /\ \E u \in Touched(call) : u.name = "" \/ u = p[2]
      /\ f \notin {"rename_table", "execute"} => p[1] = p[2] /\ \E u \in Touched(call) : u.name = "" \/ u = p[1]
  <2> DEFINE to == {t \in Tables : \E u \in Touched(call) : u.name = "" \/ u = t}
             old == StaticString(Given(f, args, "old_table_name"))
  <2>1. Places(call) = CASE f = "rename_table" -> {q \in Tables \X to : q[1].schema = q[2].schema /\ old \in {"", q[1].name}}
                         [] f = "execute" -> {<<t, t>> : t \in {CHOOSE u \in Tables : TRUE}}
                         [] OTHER -> {<<t, t>> : t \in to}
    BY DEF Places
  <2> HIDE DEF f, args, old
  <2>2. ASSUME f = "rename_table"
        PROVE  /\ p[1] \in Tables /\ p[2] \in to
               /\ p[1].schema = p[2].schema /\ old \in {"", p[1].name}
    <3>1. Places(call) = {q \in Tables \X to : q[1].schema = q[2].schema /\ old \in {"", q[1].name}}
      BY <2>1, <2>2
    <3> HIDE DEF to
    <3> QED
      BY <3>1
  <2>3. ASSUME f = "execute" PROVE p[1] \in Tables /\ p[2] \in Tables
    <3>1. Places(call) = {<<t, t>> : t \in {CHOOSE u \in Tables : TRUE}}
      BY <2>1, <2>3
    <3>2. (CHOOSE u \in Tables : TRUE) \in Tables
      BY TablesAssumption
    <3> QED
      BY <3>1, <3>2
  <2>4. ASSUME f \notin {"rename_table", "execute"} PROVE p[1] \in to /\ p[1] = p[2]
    <3>1. Places(call) = {<<t, t>> : t \in to}
      BY <2>1, <2>4
    <3> HIDE DEF to
    <3> QED
      BY <3>1
  <2> QED
    BY <2>2, <2>3, <2>4 DEF old
<1>4. ASSUME NEW i \in DOMAIN ops, ops[i].identity # NoIdentity
      PROVE  /\ ops[i].type \notin Moving \/ ops[i].identity \in Tables
             /\ ops[i].identity \in Tables =>
                   /\ ops[i].type = "CreateModel" => ops[i].identity = p[1] /\ runs /\ ~Conditional /\ kind = "create"
                   /\ ops[i].type = "RenameModel" =>
                         ops[i].identity = p[2] /\ kind = "rename" /\ p[1].schema = p[2].schema /\ ops[i].detail = {p[1].name}
                   /\ ops[i].type \notin {"CreateModel", "RenameModel"} => ops[i].identity = p[1] /\ kind \notin {"rename", "sql"}
  <2> DEFINE id == ops[i].identity
  <2>1. Touched(call) = {id}
    BY <1>1, <1>4, CallIdentityIsExact DEF Touched
  <2>2. id = IdentityOf(f, args)
    BY <1>4, CallIsAbout DEF About
  <2>3. f \in OfFirst \cup OfSecond \cup {"create_foreign_key", "rename_table"} /\ f # "execute"
    BY <1>4, <2>2 DEF IdentityOf, OfFirst, OfSecond
  <2>4. f # "drop_index" => id.name # ""
    <3>1. NameOf(f, args) = "" /\ f # "drop_index" => FALSE
      <4>1. NameOf(f, args) = "" /\ f # "drop_index" => ops = <<>>
        BY <2>3, NothingUnnamed
      <4>2. i \in DOMAIN ops /\ DOMAIN <<>> = {}
        BY <1>4
      <4> HIDE DEF ops
      <4> QED BY <4>1, <4>2
    <3>2. \E schema : id = Identity(schema, NameOf(f, args))
      <4>1. \E keyword, position : id = TableIdentity(args, NameOf(f, args), keyword, position)
        BY <2>2, <2>3 DEF IdentityOf
      <4> HIDE DEF id, f, args
      <4>2. id # NoIdentity
        BY <1>4 DEF id
      <4> QED
        BY <4>1, <4>2 DEF TableIdentity
    <3>3. id.name = NameOf(f, args)
      <4> HIDE DEF id, f, args
      <4> QED BY <3>2 DEF Identity
    <3> HIDE DEF id, f, args, ops
    <3> QED
      BY <3>1, <3>3
  <2>5. id.name # "" => p[2] = id /\ id \in Tables
    <3> HIDE DEF id, f, args
    <3> QED BY <1>3, <2>1, <2>3
  <2>6. id \in Tables => id.name # ""
    BY TablesAssumption
  <2>7. CallType(f, args, ops[i])
    BY <1>2
  <2>8. id \in Tables => kind = KindOf(call)
    <3>1. id \in Tables => Touched(call) \subseteq Tables
      <4> HIDE DEF id
      <4> QED BY <2>1
    <3> HIDE DEF id
    <3> QED
      BY <3>1 DEF Kinds
  <2>9. ops[i].type \in Moving => f # "drop_index"
    <3> HIDE DEF f, args, ops
    <3> QED BY <2>7 DEF CallType
  <2>10. ASSUME ops[i].type = "CreateModel", id \in Tables PROVE runs /\ ~Conditional /\ kind = "create" /\ id = p[1]
    <3>1. unconditional /\ direct /\ KindOf(call) = "create"
      BY <1>4, <2>10, CallCreates
    <3>2. f = "create_table"
      <4> HIDE DEF f, args, ops
      <4> QED BY <2>7, <2>10 DEF CallType
    <3> HIDE DEF f, args, ops, id
    <3> QED
      BY <1>3, <2>5, <2>6, <2>8, <2>10, <3>1, <3>2
  <2>11. ASSUME ops[i].type = "RenameModel", id \in Tables
         PROVE  id = p[2] /\ kind = "rename" /\ p[1].schema = p[2].schema /\ ops[i].detail = {p[1].name}
    <3> DEFINE old == StringAt(args, 1, "old_table_name")
    <3>1. f = "rename_table" /\ old # "" /\ ops[i].detail = {old}
      <4> HIDE DEF f, args, ops
      <4> QED BY <2>7, <2>11 DEF CallType
    <3>2. old = StaticString(Given(f, args, "old_table_name"))
      <4>0. /\ "rename_table" \in DOMAIN Parameters /\ 1 \in DOMAIN Parameters["rename_table"]
            /\ Parameters["rename_table"][1] = "old_table_name"
        BY DEF Parameters
      <4>1. f \in DOMAIN Parameters /\ 1 \in DOMAIN Parameters[f] /\ Parameters[f][1] = "old_table_name"
        BY <3>1, <4>0
      <4> HIDE DEF f, args
      <4> QED BY <1>1, <4>1, StringGiven
    <3>3. KindOf(call) = "rename"
      BY <3>1 DEF KindOf
    <3> HIDE DEF f, args, ops, id, old
    <3> QED
      BY <1>3, <2>5, <2>6, <2>8, <2>11, <3>1, <3>2, <3>3
  <2>12. ASSUME ops[i].type \notin {"CreateModel", "RenameModel"}, id \in Tables
         PROVE  id = p[1] /\ kind \notin {"rename", "sql"}
    <3>1. f # "rename_table"
      <4> HIDE DEF f, args, ops
      <4> QED BY <2>7, <2>12 DEF CallType
    <3>2. KindOf(call) \notin {"rename", "sql"}
      BY <2>3, <3>1 DEF KindOf
    <3> HIDE DEF f, args, ops, id
    <3> QED
      BY <1>3, <2>3, <2>5, <2>6, <2>8, <2>12, <3>1, <3>2
  <2>13. ops[i].type \notin Moving \/ id \in Tables
    <3> HIDE DEF ops, id, f, args
    <3> QED BY <2>4, <2>5, <2>9
  <2> QED
    BY <2>10, <2>11, <2>12, <2>13
<1>5. TRUE /\ NoIdentity \notin Tables
  BY TablesAssumption
<1> HIDE DEF ops
<1>6. Describes(ops, kind, p[1], p[2], runs)
  BY <1>2, <1>4, <1>5 DEF Describes
<1> QED
  BY <1>3, <1>6 DEF ops

-----------------------------------------------------------------------------
(* The operations of one SQL statement.                                    *)

\* A statement is certain to create a table only so.
StatementCreatesSurely(s, unconditional, revision) ==
    StartsWithWords(s, <<"CREATE", "TABLE">>) /\ CertainTable(s, unconditional, revision)

LEMMA AboutTable ==
  ASSUME NEW table, NEW creates, NEW type, NEW detail, type # "CreateModel"
  PROVE  About(OnTable(type, table, detail), table, creates)
BY AboutOne, AboutWhen DEF OnTable

LEMMA AboutRawSql ==
  ASSUME NEW identity, NEW creates PROVE About(RawSql, identity, creates)
BY AboutOne DEF RawSql

LEMMA AlterIsAbout ==
  ASSUME NEW s, NEW creates
  PROVE  \E identity : About(AlterTable(s), identity, creates)
<1> DEFINE Right(ops) == \E identity : About(ops, identity, creates)
<1>1. Right(<<>>) /\ Right(RawSql)
  BY AboutNothing, AboutRawSql
<1>2. ASSUME NEW table, NEW type, type # "CreateModel", NEW detail PROVE Right(OnTable(type, table, detail))
  BY <1>2, AboutTable
<1>3. ASSUME NEW name, NEW table PROVE Right(<< Operation("RemoveField", name, table, {}) >>)
  <2>1. About(<< Operation("RemoveField", name, table, {}) >>, table, creates)
    BY AboutOne
  <2> QED BY <2>1
<1>4. ASSUME NEW table, NEW detail, NEW more, NEW condition
      PROVE  Right(OnTable("AddField", table, detail) \o When(condition, OnTable("AddConstraint", table, more)))
  <2>1. About(OnTable("AddField", table, detail), table, creates)
    BY AboutTable
  <2>2. About(When(condition, OnTable("AddConstraint", table, more)), table, creates)
    BY AboutTable, AboutWhen
  <2>3. About(OnTable("AddField", table, detail) \o When(condition, OnTable("AddConstraint", table, more)), table, creates)
    BY <2>1, <2>2, AboutBoth
  <2> QED BY <2>3
<1>5. Right(AddConstraintOf(s))
  <2>1. \/ AddConstraintOf(s) = RawSql \/ AddConstraintOf(s) = <<>>
        \/ \E detail : AddConstraintOf(s) = OnTable("AddConstraint", Table(s), detail)
    BY DEF AddConstraintOf
  <2> HIDE DEF Right
  <2> QED BY <1>1, <1>2, <2>1
<1>6. \/ AlterTable(s) = <<>> \/ AlterTable(s) = RawSql \/ AlterTable(s) = AddConstraintOf(s)
      \/ \E table, type, detail : type # "CreateModel" /\ AlterTable(s) = OnTable(type, table, detail)
      \/ \E name, table : AlterTable(s) = << Operation("RemoveField", name, table, {}) >>
      \/ \E table, detail, condition, more :
            AlterTable(s) = OnTable("AddField", table, detail) \o When(condition, OnTable("AddConstraint", table, more))
  BY DEF AlterTable
<1>7. Right(AlterTable(s))
  <2> HIDE DEF Right
  <2> QED BY <1>1, <1>2, <1>3, <1>4, <1>5, <1>6
<1> QED
  BY <1>7

LEMMA StatementIsAbout ==
  ASSUME NEW s, NEW unconditional, NEW revision
  PROVE  \E identity : About(ExtractStatement(s, unconditional, revision), identity,
                             StatementCreatesSurely(s, unconditional, revision))
<1> DEFINE creates == StatementCreatesSurely(s, unconditional, revision)
           ops == ExtractStatement(s, unconditional, revision)
           Right(these) == \E identity : About(these, identity, creates)
<1> SUFFICES Right(ops)
  OBVIOUS
<1>1. Right(<<>>) /\ Right(RawSql)
  <2> HIDE DEF creates
  <2> QED BY AboutNothing, AboutRawSql
<1>2. ASSUME NEW table, NEW type, type # "CreateModel", NEW detail PROVE Right(OnTable(type, table, detail))
  <2> HIDE DEF creates
  <2> QED BY <1>2, AboutTable
<1>3. Right(AlterTable(s))
  <2> HIDE DEF creates
  <2> QED BY AlterIsAbout
<1>4. ASSUME NEW type, type # "CreateModel" PROVE Right(<< Operation(type, "", NoIdentity, {}) >>)
  <2> HIDE DEF creates
  <2>1. About(<< Operation(type, "", NoIdentity, {}) >>, NoIdentity, creates)
    BY <1>4, AboutOne
  <2> QED BY <2>1
<1>7. \A adds, concurrently : IndexType(adds, concurrently) # "CreateModel"
  BY DEF IndexType
<1>5. ASSUME StartsWithWords(s, <<"CREATE", "TABLE">>)
      PROVE  Right(CreateTableOf(s, unconditional, revision))
  <2>1. CertainTable(s, unconditional, revision) => creates
    BY <1>5 DEF StatementCreatesSurely
  <2> HIDE DEF creates
  <2>2. About(<< Operation("CreateModel", Table(s).name,
                  IF CertainTable(s, unconditional, revision) THEN Table(s) ELSE NoIdentity, {}) >>, Table(s), creates)
    BY <2>1, AboutOne
  <2>3. About(CreateTableOf(s, unconditional, revision), Table(s), creates)
    BY <2>2, AboutWhen DEF CreateTableOf
  <2> QED
    BY <2>3
<1> DEFINE indexed == OnTable(IndexType(TRUE, Concurrently(s, "CREATE")), IdentifierAfter(s, "ON"), {})
           unindexed == << Operation(IndexType(FALSE, Concurrently(s, "DROP")), "", NoIdentity, {}) >>
           comment == IF revision[1] THEN <<>> ELSE RawSql
<1>6. \/ ops = indexed \/ ops = unindexed
      \/ StartsWithWords(s, <<"CREATE", "TABLE">>) /\ ops = CreateTableOf(s, unconditional, revision)
      \/ ops = OnTable("DeleteModel", Table(s), {})
      \/ ops = AlterTable(s) \/ ops = comment \/ ops = RawSql
  <2>1. ops = CASE IsIndex(s, "CREATE") -> indexed
                [] StartsWithWords(s, <<"DROP", "INDEX">>) -> unindexed
                [] StartsWithWords(s, <<"CREATE", "TABLE">>) -> CreateTableOf(s, unconditional, revision)
                [] StartsWithWords(s, <<"DROP", "TABLE">>) -> OnTable("DeleteModel", Table(s), {})
                [] StartsWithWords(s, <<"ALTER", "TABLE">>) -> AlterTable(s)
                [] \E what \in {"TABLE", "COLUMN"} : StartsWithWords(s, <<"COMMENT", "ON", what>>) -> comment
                [] OTHER -> RawSql
    BY DEF ExtractStatement
  <2> HIDE DEF ops, indexed, unindexed, comment
  <2> QED
    BY <2>1
<1>8. Right(indexed) /\ Right(unindexed) /\ Right(comment)
  <2> HIDE DEF Right
  <2> QED
    BY <1>1, <1>2, <1>4, <1>7
<1> HIDE DEF Right, ops, indexed, unindexed, comment
<1> QED
  BY <1>1, <1>2, <1>3, <1>5, <1>6, <1>8

\* It is one operation, or operations that leave the set alone.
LEMMA StatementIsAlone ==
  ASSUME NEW s, NEW unconditional, NEW revision
  PROVE  Alone(ExtractStatement(s, unconditional, revision))
<1> DEFINE ops == ExtractStatement(s, unconditional, revision)
<1>1. Alone(<<>>) /\ \A op : Alone(<<op>>)
  BY SteadyWhen DEF Alone
<1>2. Alone(RawSql)
  BY <1>1 DEF RawSql
<1>3. \A table, type, detail : Alone(OnTable(type, table, detail))
  BY <1>1, SteadyWhen DEF OnTable
<1>4. \A table, type, detail : type \notin Moving => Steady(OnTable(type, table, detail))
  BY SteadyOne, SteadyWhen DEF OnTable
<1>5. \A table, detail, more, condition :
        Alone(OnTable("AddField", table, detail) \o When(condition, OnTable("AddConstraint", table, more)))
  <2>1. "AddField" \notin Moving /\ "AddConstraint" \notin Moving
    BY DEF Moving
  <2>2. SUFFICES ASSUME NEW table, NEW detail, NEW more, NEW condition
                 PROVE  Steady(OnTable("AddField", table, detail) \o When(condition, OnTable("AddConstraint", table, more)))
    BY DEF Alone
  <2> QED
    BY <1>4, <2>1, SteadyWhen, SteadyBoth
<1>6. Alone(AddConstraintOf(s))
  <2>1. \/ AddConstraintOf(s) = RawSql \/ AddConstraintOf(s) = <<>>
        \/ \E detail : AddConstraintOf(s) = OnTable("AddConstraint", Table(s), detail)
    BY DEF AddConstraintOf
  <2> QED BY <1>1, <1>2, <1>3, <2>1
<1>7. Alone(AlterTable(s))
  <2>1. \/ AlterTable(s) = <<>> \/ AlterTable(s) = RawSql \/ AlterTable(s) = AddConstraintOf(s)
        \/ \E table, type, detail : AlterTable(s) = OnTable(type, table, detail)
        \/ \E name, table : AlterTable(s) = << Operation("RemoveField", name, table, {}) >>
        \/ \E table, detail, condition, more :
              AlterTable(s) = OnTable("AddField", table, detail) \o When(condition, OnTable("AddConstraint", table, more))
    BY DEF AlterTable
  <2> QED BY <1>1, <1>2, <1>3, <1>5, <1>6, <2>1
<1> DEFINE indexed == OnTable(IndexType(TRUE, Concurrently(s, "CREATE")), IdentifierAfter(s, "ON"), {})
           unindexed == << Operation(IndexType(FALSE, Concurrently(s, "DROP")), "", NoIdentity, {}) >>
           comment == IF revision[1] THEN <<>> ELSE RawSql
<1>8. Alone(CreateTableOf(s, unconditional, revision))
  BY <1>1, SteadyWhen DEF CreateTableOf
<1>9. \/ ops = indexed \/ ops = unindexed \/ ops = CreateTableOf(s, unconditional, revision)
      \/ ops = OnTable("DeleteModel", Table(s), {})
      \/ ops = AlterTable(s) \/ ops = comment \/ ops = RawSql
  <2>1. ops = CASE IsIndex(s, "CREATE") -> indexed
                [] StartsWithWords(s, <<"DROP", "INDEX">>) -> unindexed
                [] StartsWithWords(s, <<"CREATE", "TABLE">>) -> CreateTableOf(s, unconditional, revision)
                [] StartsWithWords(s, <<"DROP", "TABLE">>) -> OnTable("DeleteModel", Table(s), {})
                [] StartsWithWords(s, <<"ALTER", "TABLE">>) -> AlterTable(s)
                [] \E what \in {"TABLE", "COLUMN"} : StartsWithWords(s, <<"COMMENT", "ON", what>>) -> comment
                [] OTHER -> RawSql
    BY DEF ExtractStatement
  <2> HIDE DEF ops, indexed, unindexed, comment
  <2> QED
    BY <2>1
<1>10. Alone(indexed) /\ Alone(unindexed) /\ Alone(comment)
  BY <1>1, <1>2, <1>3
<1>11. Alone(ops)
  <2> HIDE DEF ops, indexed, unindexed, comment
  <2> QED
    BY <1>2, <1>3, <1>7, <1>8, <1>9, <1>10
<1> QED
  BY <1>11

LEMMA StatementDescribes ==
  ASSUME NEW s \in Statements, NEW unconditional \in BOOLEAN, generated \in BOOLEAN \X BOOLEAN,
         NEW runs, unconditional => runs /\ ~Conditional, runs => Possible(s)
  PROVE  /\ s.table \in Tables /\ s.to \in Tables
         /\ Describes(ExtractStatement(s.tokens, unconditional, generated), s.kind, s.table, s.to, runs)
<1> DEFINE ops == ExtractStatement(s.tokens, unconditional, generated)
           creates == StatementCreatesSurely(s.tokens, unconditional, generated)
<1>1. /\ s.table \in Tables /\ s.to \in Tables /\ s.table.schema = s.to.schema
      /\ s.kind # "rename" => s.to = s.table
      /\ StartsWithWords(s.tokens, <<"CREATE", "TABLE">>) => s.kind \in {"create", "create if"}
      /\ s.kind = "create if" => ContainsInOrder(s.tokens, <<"IF", "NOT", "EXISTS">>)
  BY StatementsAssumption
<1>2. \A i \in DOMAIN ops :
        /\ ops[i].identity \in {NoIdentity, s.to}
        /\ ops[i].type = "RenameModel" => s.kind = "rename" /\ ops[i].detail = {s.table.name}
        /\ s.kind = "rename" => ops[i].type = "RenameModel"
        /\ s.kind = "sql" => ops[i].type = "ExecuteSql" /\ ops[i].identity = NoIdentity
  <2>1. \A initial, state \in BOOLEAN :
          LET these == ExtractStatement(s.tokens, unconditional, <<initial, state>>)
          IN \A i \in DOMAIN these :
                /\ these[i].identity \in {NoIdentity, s.to}
                /\ these[i].type = "RenameModel" => s.kind = "rename" /\ these[i].detail = {s.table.name}
                /\ s.kind = "rename" => these[i].type = "RenameModel"
                /\ s.kind = "sql" => these[i].type = "ExecuteSql" /\ these[i].identity = NoIdentity
    BY StatementsAssumption
  <2>2. generated = <<generated[1], generated[2]>> /\ generated[1] \in BOOLEAN /\ generated[2] \in BOOLEAN
    OBVIOUS
  <2> QED
    BY <2>1, <2>2
<1>3. PICK identity : About(ops, identity, creates)
  BY StatementIsAbout
<1>4. \A i \in DOMAIN ops : ops[i].type = "CreateModel" /\ ops[i].identity # NoIdentity => creates
  <2> HIDE DEF ops, creates
  <2> QED BY <1>3 DEF About
<1>5. creates => /\ runs /\ ~Conditional
                 /\ s.kind = "create" \/ (s.kind = "create if" /\ database[s.table] # "existing")
  BY <1>1 DEF StatementCreatesSurely, CertainTable, Possible
<1>6. Alone(ops)
  BY StatementIsAlone
<1>7. NoIdentity \notin Tables
  BY TablesAssumption
<1> HIDE DEF ops, creates
<1>8. \A i \in DOMAIN ops : ops[i].type = "CreateModel" /\ ops[i].identity \in Tables => ops[i].identity = s.table
  BY <1>1, <1>2, <1>4, <1>5, <1>7
<1>9. Describes(ops, s.kind, s.table, s.to, runs)
  BY <1>1, <1>2, <1>4, <1>5, <1>6, <1>7, <1>8 DEF Describes
<1> QED
  BY <1>1, <1>9 DEF ops

LEMMA NothingDescribes ==
  ASSUME NEW kind, NEW t, NEW to, NEW runs PROVE Describes(<<>>, kind, t, to, runs)
BY SteadyWhen DEF Describes, Alone

-----------------------------------------------------------------------------
(* The inductive invariant.                                                *)

Block == [kind : {"body", "conditional", "with"}, unconditional : BOOLEAN, autocommit : BOOLEAN, real : BOOLEAN]

\* The open blocks: what counts as autocommit is, and what counts as
\* unconditional is inside no branch, loop or try statement.
BlocksOK ==
    /\ frames \in Seq(Block) /\ Len(frames) >= 1 /\ frames[1] = Body
    /\ \A i \in 1..Len(frames) :
          /\ frames[i].autocommit => frames[i].real
          /\ frames[i].unconditional => frames[i].kind # "conditional"
    /\ \A i, j \in 1..Len(frames) : i <= j /\ frames[j].unconditional => frames[i].unconditional
    /\ \A i \in 1..Len(frames) - 1 : /\ frames[i].autocommit => frames[i + 1].autocommit
                                     /\ frames[i].real => frames[i + 1].real

\* A name that counts as bound to the context holds it, unless the statement
\* that is being read may have assigned it or one the walk overlooks has bound it.
BindingsOK ==
    /\ bindings \in [Variables -> BOOLEAN]
    /\ env \in [Variables -> {"unbound", "context", "other"}]
    /\ \A v \in Variables \ unseen : bindings[v] /\ (AtRoot \/ v \notin ahead) => env[v] = "context"

Safe(t) == database[t] # "existing"

\* A run that is not misled has made every table that is exempt.
TablesOK ==
    /\ database \in [Tables -> Status]
    /\ exempt \subseteq Tables
    /\ misled \in BOOLEAN
    /\ ~misled => \A t \in exempt : database[t] = "fresh"

\* The local function, and how far a call of it has come.
HelperOK ==
    /\ generated \in BOOLEAN \X BOOLEAN
    /\ helper \in Seq([statement : Statements, conditional : BOOLEAN])
    /\ at \in 0..Len(helper)
    /\ calls \in [first : BOOLEAN, unconditional : BOOLEAN, runs : BOOLEAN]
    /\ framework = "alembic" => helper = <<>>
    /\ visited \in BOOLEAN
    /\ at > 0 => visited /\ (calls.unconditional => calls.runs /\ ~Conditional)
    /\ spared \subseteq 1..Len(helper)
    /\ visited \/ spared = {}
    /\ ~misled => \A i \in spared : Safe(helper[i].statement.table)

IInv == BlocksOK /\ BindingsOK /\ TablesOK /\ HelperOK

LEMMA InitInvariant == Init => IInv
<1> SUFFICES ASSUME Init PROVE IInv
  OBVIOUS
<1>1. BlocksOK
  BY DEF Init, BlocksOK, Block, Body, Frame
<1>2. BindingsOK
  BY DEF Init, BindingsOK
<1>3. TablesOK
  BY DEF Init, TablesOK, Status
<1>4. HelperOK
  <2>1. helper \in Seq([statement : Statements, conditional : BOOLEAN])
    <3>1. helper \in Helpers \cup {<<>>}
      BY DEF Init
    <3>2. <<>> \in Seq([statement : Statements, conditional : BOOLEAN])
      OBVIOUS
    <3>3. CASE helper \in Helpers
      BY <3>3, HelpersAssumption
    <3>4. CASE helper = <<>>
      BY <3>2, <3>4
    <3> QED
      BY <3>1, <3>3, <3>4
  <2>3. at \in 0..Len(helper) /\ at = 0 /\ ~visited /\ spared = {}
    BY <2>1 DEF Init
  <2>7. visited \in BOOLEAN
    BY DEF Init
  <2>8. at > 0 => visited /\ (calls.unconditional => calls.runs /\ ~Conditional)
    BY <2>3
  <2>9. \A i \in spared : Safe(helper[i].statement.table)
    BY <2>3
  <2>4. generated \in BOOLEAN \X BOOLEAN
    <3>1. generated \in BOOLEAN \X BOOLEAN \/ generated = <<FALSE, FALSE>>
      BY DEF Init
    <3>2. <<FALSE, FALSE>> \in BOOLEAN \X BOOLEAN
      OBVIOUS
    <3> QED
      BY <3>1, <3>2
  <2>6. framework = "alembic" => helper = <<>>
    BY DEF Init
  <2>5. calls \in [first : BOOLEAN, unconditional : BOOLEAN, runs : BOOLEAN]
    BY DEF Init, Idle
  <2> QED
    BY <2>1, <2>3, <2>4, <2>5, <2>6, <2>7, <2>8, <2>9 DEF HelperOK
<1> QED
  BY <1>1, <1>2, <1>3, <1>4 DEF IInv

\* Inside what counts as unconditional nothing may be skipped.
LEMMA Unconditional ==
  ASSUME BlocksOK
  PROVE  /\ Top \in Block
         /\ Top.autocommit => Top.real
         /\ Top.unconditional => ~Conditional
         /\ Top.unconditional => MayRun = {TRUE}
<1>1. Len(frames) \in 1..Len(frames) /\ DOMAIN frames = 1..Len(frames)
  BY DEF BlocksOK
<1>2. Top \in Block /\ (Top.autocommit => Top.real)
  BY <1>1 DEF BlocksOK, Top
<1>3. ASSUME Top.unconditional PROVE ~Conditional
  <2>1. \A i \in 1..Len(frames) : frames[i].unconditional
    BY <1>1, <1>3 DEF BlocksOK, Top
  <2> QED
    BY <1>1, <2>1 DEF BlocksOK, Conditional
<1> QED
  BY <1>2, <1>3 DEF MayRun

LEMMA Enter ==
  ASSUME BlocksOK, NEW b \in Block, frames' = Append(frames, b),
         b.kind \in {"conditional", "with"}, b.autocommit => b.real,
         b.unconditional => b.kind # "conditional" /\ Top.unconditional,
         Top.autocommit => b.autocommit, Top.real => b.real
  PROVE  BlocksOK'
<1>1. /\ frames' \in Seq(Block) /\ Len(frames') = Len(frames) + 1
      /\ \A i \in 1..Len(frames) : frames'[i] = frames[i]
      /\ frames'[Len(frames) + 1] = b
  BY DEF BlocksOK
<1>2. \A i \in 1..Len(frames) : Top.unconditional => frames[i].unconditional
  BY DEF BlocksOK, Top
<1>3. Len(frames) \in Nat /\ Len(frames) >= 1 /\ Top = frames[Len(frames)]
  BY DEF BlocksOK, Top
<1>4. \A i \in 1..Len(frames') : i = Len(frames) + 1 \/ i \in 1..Len(frames)
  BY <1>1, <1>3
<1>5. \A i \in 1..Len(frames') : /\ frames'[i].autocommit => frames'[i].real
                                 /\ frames'[i].unconditional => frames'[i].kind # "conditional"
  BY <1>1, <1>4 DEF BlocksOK
<1>6. \A i, j \in 1..Len(frames') : i <= j /\ frames'[j].unconditional => frames'[i].unconditional
  <2> SUFFICES ASSUME NEW i \in 1..Len(frames'), NEW j \in 1..Len(frames'), i <= j, frames'[j].unconditional
               PROVE  frames'[i].unconditional
    OBVIOUS
  <2>1. CASE j = Len(frames) + 1
    BY <1>1, <1>2, <1>4, <2>1
  <2>2. CASE j \in 1..Len(frames)
    <3>1. i \in 1..Len(frames)
      BY <1>3, <2>2
    <3> QED
      BY <1>1, <2>2, <3>1 DEF BlocksOK
  <2> QED
    BY <1>4, <2>1, <2>2
<1>7. \A i \in 1..Len(frames') - 1 : /\ frames'[i].autocommit => frames'[i + 1].autocommit
                                     /\ frames'[i].real => frames'[i + 1].real
  <2> SUFFICES ASSUME NEW i \in 1..Len(frames') - 1
               PROVE  /\ frames'[i].autocommit => frames'[i + 1].autocommit
                      /\ frames'[i].real => frames'[i + 1].real
    OBVIOUS
  <2>1. CASE i = Len(frames)
    BY <1>1, <1>3, <2>1
  <2>2. CASE i # Len(frames)
    <3>1. i \in 1..Len(frames) - 1 /\ i + 1 \in 1..Len(frames) /\ i \in 1..Len(frames)
      BY <1>1, <1>3, <2>2
    <3> QED
      BY <1>1, <3>1 DEF BlocksOK
  <2> QED
    BY <2>1, <2>2
<1>8. Len(frames') >= 1 /\ frames'[1] = Body
  BY <1>1, <1>3 DEF BlocksOK
<1> QED
  BY <1>1, <1>5, <1>6, <1>7, <1>8 DEF BlocksOK

LEMMA Leave ==
  ASSUME BlocksOK, ~AtRoot, frames' = SubSeq(frames, 1, Len(frames) - 1)
  PROVE  BlocksOK'
<1>1. Len(frames) \in Nat /\ Len(frames) > 1
  <2>1. Len(frames) \in Nat /\ Len(frames) >= 1 /\ Len(frames) # 1
    BY DEF BlocksOK, AtRoot
  <2>2. \A n \in Nat : n >= 1 /\ n # 1 => n > 1
    OBVIOUS
  <2> QED
    BY <2>1, <2>2
<1>2. /\ frames' \in Seq(Block) /\ Len(frames') = Len(frames) - 1
      /\ \A i \in 1..Len(frames') : frames'[i] = frames[i]
  BY <1>1 DEF BlocksOK
<1>3. \A i \in 1..Len(frames') : i \in 1..Len(frames)
  BY <1>1, <1>2
<1>4. \A i \in 1..Len(frames') - 1 : i \in 1..Len(frames) - 1 /\ i + 1 \in 1..Len(frames') /\ i \in 1..Len(frames')
  BY <1>1, <1>2
<1>5. Len(frames') >= 1 /\ frames'[1] = Body
  BY <1>1, <1>2 DEF BlocksOK
<1> QED
  BY <1>2, <1>3, <1>4, <1>5 DEF BlocksOK

\* What a with-statement opens by the code's reckoning it opens, or the walk
\* has overlooked what bound the name.
LEMMA OpensContext ==
  ASSUME BlocksOK, BindingsOK, NEW item \in {Canonical, "other"} \cup Variables,
         IF AtRoot THEN Opens(bindings, item) ELSE Opens(Bound, item)
  PROVE  (IF item \in Variables THEN env[item] = "context" ELSE item = Canonical) \/ item \in unseen
BY DEF BindingsOK, Opens, Bound

LEMMA BlocksStep == BlocksOK /\ BindingsOK /\ [Next]_vars => BlocksOK'
<1> SUFFICES ASSUME BlocksOK, BindingsOK, [Next]_vars PROVE BlocksOK'
  OBVIOUS
<1>1. ASSUME NEW names \in SUBSET Variables, NEW others \in SUBSET Variables, EnterBlock(names, others) PROVE BlocksOK'
  <2> DEFINE b == Frame("conditional", FALSE, Top.autocommit, Top.real)
  <2>1. /\ b \in Block /\ b.kind = "conditional" /\ ~b.unconditional
        /\ b.autocommit = Top.autocommit /\ b.real = Top.real
    <3>1. Top.autocommit \in BOOLEAN /\ Top.real \in BOOLEAN
      BY Unconditional DEF Block
    <3> HIDE DEF Top
    <3> QED BY <3>1 DEF Frame, Block
  <2>2. frames' = Append(frames, b)
    BY <1>1 DEF EnterBlock
  <2> HIDE DEF b
  <2> QED
    BY <2>1, <2>2, Enter, Unconditional
<1>2. ASSUME NEW item \in {Canonical, "other"} \cup Variables, NEW names \in SUBSET Variables,
             EnterWith(item, names)
      PROVE  BlocksOK'
  <2> DEFINE open == IF AtRoot THEN Opens(bindings, item) ELSE Opens(Bound, item)
             isContext == (IF item \in Variables THEN env[item] = "context" ELSE item = Canonical) \/ item \in unseen
             b == Frame("with", Top.unconditional, Top.autocommit \/ open, Top.real \/ isContext)
  <2>1. open => isContext
    BY OpensContext
  <2>2. open \in BOOLEAN /\ isContext \in BOOLEAN
    BY DEF Opens, Bound, BindingsOK
  <2>3. frames' = Append(frames, b)
    BY <1>2 DEF EnterWith
  <2> HIDE DEF open, isContext
  <2>4. /\ b \in Block /\ b.kind = "with" /\ b.unconditional = Top.unconditional
        /\ b.autocommit = (Top.autocommit \/ open) /\ b.real = (Top.real \/ isContext)
    <3>1. Top.autocommit \in BOOLEAN /\ Top.real \in BOOLEAN /\ Top.unconditional \in BOOLEAN
      BY Unconditional DEF Block
    <3> QED BY <2>2, <3>1 DEF Frame, Block
  <2> HIDE DEF b
  <2> QED
    BY <2>1, <2>2, <2>3, <2>4, Enter, Unconditional
<1>3. CASE LeaveBlock
  BY <1>3, Leave DEF LeaveBlock
<1>4. ASSUME UNCHANGED frames PROVE BlocksOK'
  BY <1>4 DEF BlocksOK
<1> QED
  BY <1>1, <1>2, <1>3, <1>4 DEF Next, vars, walk, Bind, BindOtherwise, CallOp, ReadCall, ExecuteStatement, ReadStatement,
                                CallHelper, FollowHelper

LEMMA Deeper == ASSUME BlocksOK, NEW b, b \in Block, frames' = Append(frames, b) PROVE ~AtRoot'
BY DEF BlocksOK, AtRoot

LEMMA TopBlocks ==
  ASSUME BlocksOK, NEW open \in BOOLEAN, NEW context \in BOOLEAN
  PROVE  /\ Frame("conditional", FALSE, Top.autocommit, Top.real) \in Block
         /\ Frame("with", Top.unconditional, Top.autocommit \/ open, Top.real \/ context) \in Block
<1>1. Top.autocommit \in BOOLEAN /\ Top.real \in BOOLEAN /\ Top.unconditional \in BOOLEAN
  BY Unconditional DEF Block
<1> QED
  BY <1>1 DEF Frame, Block

LEMMA BindingsStep == BlocksOK /\ BindingsOK /\ [Next]_vars => BindingsOK'
<1> SUFFICES ASSUME BlocksOK, BindingsOK, [Next]_vars PROVE BindingsOK'
  OBVIOUS
<1>1. ASSUME NEW names \in SUBSET Variables, NEW others \in SUBSET Variables, EnterBlock(names, others) PROVE BindingsOK'
  <2>1. ~AtRoot'
    BY <1>1, Deeper, TopBlocks DEF EnterBlock
  <2>2. /\ bindings' = bindings /\ unseen' = unseen \cup others
        /\ env' \in [Variables -> {"unbound", "context", "other"}]
        /\ \A v \in Variables \ (names \cup others) : env'[v] = env[v]
    BY <1>1 DEF EnterBlock, BindingsOK
  <2>3. CASE AtRoot
    <3>1. ahead' = names
      BY <1>1, <2>3 DEF EnterBlock, Announce
    <3> QED
      BY <2>1, <2>2, <2>3, <3>1 DEF BindingsOK
  <2>4. CASE ~AtRoot
    <3>1. ahead' = ahead /\ names = {}
      BY <1>1, <2>4 DEF EnterBlock, Announce
    <3> QED
      BY <2>1, <2>2, <2>4, <3>1 DEF BindingsOK
  <2> QED
    BY <2>3, <2>4
<1>2. ASSUME NEW item \in {Canonical, "other"} \cup Variables, NEW names \in SUBSET Variables,
             EnterWith(item, names)
      PROVE  BindingsOK'
  <2> DEFINE open == IF AtRoot THEN Opens(bindings, item) ELSE Opens(Bound, item)
             isContext == (IF item \in Variables THEN env[item] = "context" ELSE item = Canonical) \/ item \in unseen
  <2>1. ~AtRoot'
    <3>1. open \in BOOLEAN /\ isContext \in BOOLEAN
      BY DEF Opens, Bound, BindingsOK
    <3>2. frames' = Append(frames, Frame("with", Top.unconditional, Top.autocommit \/ open, Top.real \/ isContext))
      BY <1>2 DEF EnterWith
    <3> HIDE DEF open, isContext
    <3> QED
      BY <3>1, <3>2, Deeper, TopBlocks
  <2>2. bindings' = bindings /\ env' = env /\ unseen' = unseen
    BY <1>2 DEF EnterWith, run
  <2>3. AtRoot \/ ahead' = ahead
    BY <1>2 DEF EnterWith, Announce
  <2> QED
    BY <2>1, <2>2, <2>3 DEF BindingsOK
<1>3. CASE LeaveBlock
  <2>1. Len(frames') = Len(frames) - 1 /\ Len(frames) \in Nat
    <3>1. frames' = SubSeq(frames, 1, Len(frames) - 1) /\ ~AtRoot
      BY <1>3 DEF LeaveBlock
    <3>2. Len(frames) \in Nat /\ Len(frames) >= 1 /\ frames \in Seq(Block) /\ Len(frames) # 1
      BY <3>1 DEF BlocksOK, AtRoot
    <3>3. \A n \in Nat : n >= 1 /\ n # 1 => n > 1
      OBVIOUS
    <3>4. Len(frames) > 1
      BY <3>2, <3>3
    <3> QED
      BY <3>1, <3>2, <3>4
  <2>2. env' = env /\ unseen' = unseen /\ ~AtRoot
    BY <1>3 DEF LeaveBlock, run
  <2>3. CASE Len(frames) = 2
    <3>1. bindings' = Bound
      BY <1>3, <2>3 DEF LeaveBlock
    <3> QED
      BY <2>2, <3>1 DEF BindingsOK, Bound
  <2>4. CASE Len(frames) # 2
    <3>1. bindings' = bindings /\ ahead' = ahead /\ ~AtRoot'
      BY <1>3, <2>1, <2>4 DEF LeaveBlock, AtRoot
    <3> QED
      BY <2>2, <3>1 DEF BindingsOK
  <2> QED
    BY <2>3, <2>4
<1>4. ASSUME NEW v \in Variables, NEW value \in {"context", "other"}, Bind(v, value) PROVE BindingsOK'
  <2>1. frames' = frames /\ ahead' = ahead
    BY <1>4 DEF Bind
  <2>2. CASE AtRoot
    <3>1. ~Conditional
      BY <2>2 DEF AtRoot, Conditional, BlocksOK, Body, Frame
    <3>2. /\ env' = [env EXCEPT ![v] = value] /\ bindings' = [bindings EXCEPT ![v] = value = "context"]
          /\ unseen' = unseen \ {v}
      BY <1>4, <2>2, <3>1 DEF Bind, MayRun
    <3> QED
      BY <2>1, <2>2, <3>2 DEF BindingsOK, AtRoot
  <2>3. CASE ~AtRoot
    <3>1. v \in ahead /\ bindings' = bindings /\ unseen' = unseen /\ env' \in {env, [env EXCEPT ![v] = value]}
      BY <1>4, <2>3 DEF Bind
    <3> QED
      BY <2>1, <2>3, <3>1 DEF BindingsOK, AtRoot
  <2> QED
    BY <2>2, <2>3
<1>12. ASSUME NEW v \in Variables, NEW value \in {"context", "other"}, BindOtherwise(v, value) PROVE BindingsOK'
  <2>1. /\ frames' = frames /\ ahead' = ahead /\ bindings' = bindings /\ unseen' = unseen \cup {v}
        /\ env' \in {env, [env EXCEPT ![v] = value]}
    BY <1>12 DEF BindOtherwise
  <2> QED
    BY <2>1 DEF BindingsOK, AtRoot
<1>5. ASSUME UNCHANGED <<frames, bindings, unseen, ahead, env>> PROVE BindingsOK'
  <2>1. frames' = frames /\ bindings' = bindings /\ unseen' = unseen /\ ahead' = ahead /\ env' = env
    BY <1>5
  <2>2. AtRoot' <=> AtRoot
    BY <2>1 DEF AtRoot
  <2>3. /\ bindings' \in [Variables -> BOOLEAN]
        /\ env' \in [Variables -> {"unbound", "context", "other"}]
    BY <2>1 DEF BindingsOK
  <2>4. ASSUME NEW v \in Variables \ unseen', bindings'[v], AtRoot' \/ v \notin ahead' PROVE env'[v] = "context"
    BY <2>1, <2>2, <2>4 DEF BindingsOK
  <2> QED
    BY <2>3, <2>4 DEF BindingsOK
<1>6. ASSUME NEW call \in Calls, NEW shape \in {"statement", "part"}, CallOp(call, shape)
      PROVE  UNCHANGED <<frames, bindings, unseen, ahead, env>>
  BY <1>6 DEF CallOp, Perform
<1>7. ASSUME NEW call \in CallReadings, ReadCall(call) PROVE UNCHANGED <<frames, bindings, unseen, ahead, env>>
  BY <1>7 DEF ReadCall, walk, run
<1>8. ASSUME NEW s \in Statements, ExecuteStatement(s) PROVE UNCHANGED <<frames, bindings, unseen, ahead, env>>
  BY <1>8 DEF ExecuteStatement, Runs, Perform
<1>9. ASSUME NEW s \in Readings, ReadStatement(s) PROVE UNCHANGED <<frames, bindings, unseen, ahead, env>>
  BY <1>9 DEF ReadStatement, walk, run
<1>10. ASSUME CallHelper \/ FollowHelper PROVE UNCHANGED <<frames, bindings, unseen, ahead, env>>
  BY <1>10 DEF CallHelper, FollowHelper, Runs, Perform, run
<1>11. ASSUME UNCHANGED vars PROVE UNCHANGED <<frames, bindings, unseen, ahead, env>>
  BY <1>11 DEF vars, walk, run
<1> QED
  BY <1>1, <1>2, <1>3, <1>4, <1>5, <1>6, <1>7, <1>8, <1>9, <1>10, <1>11, <1>12 DEF Next

LEMMA StepAutocommit == BlocksOK /\ AutocommitSound /\ [Next]_vars => AutocommitSound'
<1> SUFFICES ASSUME BlocksOK, AutocommitSound, [Next]_vars PROVE AutocommitSound'
  OBVIOUS
<1>1. ASSUME NEW call \in Calls, NEW shape \in {"statement", "part"}, CallOp(call, shape)
      PROVE  AutocommitSound'
  <2>1. last'.autocommit => last'.real
    <3> DEFINE ops == ExtractOperation(call.f, call.args, Top.unconditional, shape = "statement")
    <3>1. PICK runs, seen, isSpared, fresh :
             last' = [ran |-> runs, seen |-> seen, exact |-> TRUE, spared |-> isSpared, fresh |-> fresh,
                      autocommit |-> Top.autocommit /\ ops # <<>>, real |-> Top.real]
      <4> HIDE DEF Top, ops
      <4> USE DEF ops
      <4> QED BY <1>1 DEF CallOp
    <3> HIDE DEF ops
    <3>2. last'.autocommit = (Top.autocommit /\ ops # <<>>) /\ last'.real = Top.real
      BY <3>1
    <3> QED
      BY <3>2, Unconditional
  <2> QED
    BY <2>1 DEF AutocommitSound
<1>2. ASSUME ~last'.autocommit PROVE AutocommitSound'
  BY <1>2 DEF AutocommitSound
<1>3. ~Quiet.autocommit
  BY DEF Quiet
<1>4. ASSUME NEW call \in CallReadings, ReadCall(call) PROVE ~last'.autocommit
  BY <1>4 DEF ReadCall, Quiet
<1>5. ASSUME NEW s \in Readings, ReadStatement(s) PROVE ~last'.autocommit
  BY <1>5 DEF ReadStatement, Quiet
<1>6. ASSUME NEW s \in Statements, ExecuteStatement(s) PROVE ~last'.autocommit
  BY <1>6 DEF ExecuteStatement, Runs, Quiet
<1>7. ASSUME FollowHelper PROVE ~last'.autocommit
  BY <1>7 DEF FollowHelper, Runs, Quiet
<1>8. CASE UNCHANGED vars
  BY <1>8 DEF vars, AutocommitSound
<1> QED
  BY <1>1, <1>2, <1>3, <1>4, <1>5, <1>6, <1>7, <1>8 DEF Next, EnterBlock, EnterWith, LeaveBlock, Bind, BindOtherwise, CallHelper

(***************************************************************************)
(* AutocommitSound: for every script, whatever `name = value` assigns and  *)
(* however its blocks nest, what the walk takes for an autocommit block is *)
(* one.  A block opened by a name that something else has bound since is   *)
(* not judged: the walk overlooks tuples, for, with ... as, := and import. *)
(***************************************************************************)
THEOREM AutocommitIsSound == Spec => []AutocommitSound
<1>1. Init => BlocksOK /\ BindingsOK /\ AutocommitSound
  <2>1. Init => AutocommitSound
    BY DEF Init, AutocommitSound, Quiet
  <2> QED
    BY <2>1, InitInvariant DEF IInv
<1>2. BlocksOK /\ BindingsOK /\ AutocommitSound /\ [Next]_vars => (BlocksOK /\ BindingsOK /\ AutocommitSound)'
  BY BlocksStep, BindingsStep, StepAutocommit
<1> QED
  BY <1>1, <1>2, PTL DEF Spec
-----------------------------------------------------------------------------
(* What the operations read do to the exempt set.                          *)

\* What a step of the run may do to the database.
Performed(kind, t, to, runs) ==
    /\ database' \in [Tables -> Status]
    /\ runs /\ ~Conditional => Succeeds(kind, t, to)
    /\ ~(runs /\ Succeeds(kind, t, to)) => database' = database
    /\ kind = "rename" /\ runs /\ Succeeds(kind, t, to) =>
          /\ database[t] # "absent" /\ database[to] = "absent"
          /\ database' = [database EXCEPT ![to] = database[t], ![t] = "absent"]
    /\ kind \notin {"rename", "sql"} =>
          /\ \A u \in Tables : u # t => database'[u] = database[u]
          /\ database[t] = "fresh" => database'[t] # "existing"
    /\ kind = "create" /\ runs /\ Succeeds(kind, t, to) => database'[t] = "fresh"
    /\ kind = "create if" /\ runs /\ database[t] # "existing" => database'[t] = "fresh"

LEMMA PerformDatabase ==
  ASSUME database \in [Tables -> Status], NEW kind, NEW t \in Tables, NEW to \in Tables, NEW runs \in BOOLEAN,
         Perform(kind, t, to, runs)
  PROVE  Performed(kind, t, to, runs)
<1>1. database' \in (IF runs /\ Succeeds(kind, t, to) THEN After(kind, t, to) ELSE {database})
  BY DEF Perform
<1>2. runs /\ ~Conditional => Succeeds(kind, t, to)
  BY DEF Perform
<1>3. ~(runs /\ Succeeds(kind, t, to)) => database' = database
  BY <1>1
<1>4. ASSUME kind = "rename", runs, Succeeds(kind, t, to)
      PROVE  /\ database[t] # "absent" /\ database[to] = "absent"
             /\ database' = [database EXCEPT ![to] = database[t], ![t] = "absent"]
  BY <1>1, <1>4 DEF Succeeds, After
<1>5. ASSUME kind \notin {"rename", "sql"}
      PROVE  \/ database' = database
             \/ database' = [database EXCEPT ![t] = "fresh"]
             \/ database' = [database EXCEPT ![t] = "absent"]
  BY <1>1, <1>5 DEF After
<1>6. kind = "sql" /\ runs => database' \in [Tables -> Status]
  BY <1>1 DEF Succeeds, After
<1>7. kind = "create" /\ runs /\ Succeeds(kind, t, to) => database' = [database EXCEPT ![t] = "fresh"]
  BY <1>1 DEF Succeeds, After
<1>8. kind = "create if" /\ runs /\ database[t] # "existing" =>
        database' = [database EXCEPT ![t] = "fresh"] \/ (database[t] = "fresh" /\ database' = database)
  <2>1. database[t] \in Status
    OBVIOUS
  <2> QED
    BY <1>1, <2>1 DEF Succeeds, After, Status
<1>9. "fresh" \in Status /\ "absent" \in Status /\ database[t] \in Status
  BY DEF Status
<1>10. database' \in [Tables -> Status]
  <2>1. CASE kind = "rename"
    BY <1>3, <1>4, <1>9, <2>1
  <2>2. CASE kind = "sql"
    BY <1>3, <1>6, <2>2
  <2>3. CASE kind \notin {"rename", "sql"}
    BY <1>5, <1>9, <2>3
  <2> QED
    BY <2>1, <2>2, <2>3
<1> QED
  BY <1>2, <1>3, <1>4, <1>5, <1>7, <1>8, <1>10 DEF Performed

\* What a rename makes of the set.
LEMMA RenameMoves ==
  ASSUME TablesOK, NEW op, op.type = "RenameModel", NEW t \in Tables, NEW to \in Tables,
         op.identity = to, t.schema = to.schema, op.detail = {t.name}
  PROVE  /\ t \in exempt => CreatedAfter(exempt, op) = (exempt \ {t}) \cup {to}
         /\ t \notin exempt => CreatedAfter(exempt, op) = exempt
<1>1. Renamed(exempt, op) = exempt \cap {t}
  <2>1. \A u \in Tables : u.schema = to.schema /\ u.name \in {t.name} <=> u = t
    BY TablesAssumption
  <2>2. to # NoIdentity
    BY TablesAssumption
  <2>3. Renamed(exempt, op) = {u \in exempt : u.schema = to.schema /\ u.name \in {t.name}}
    BY <2>2 DEF Renamed
  <2> QED
    BY <2>1, <2>3 DEF TablesOK
<1>2. exempt \cap {t} = {t} \/ exempt \cap {t} = {}
  OBVIOUS
<1> QED
  BY <1>1, <1>2 DEF CreatedAfter

\* A statement keeps what the operations read from it leave exempt fresh, if
\* the run is not misled by it.
LEMMA StepTables ==
  ASSUME TablesOK, NEW kind, NEW t \in Tables, NEW to \in Tables, NEW runs \in BOOLEAN, NEW ops,
         Perform(kind, t, to, runs), Describes(ops, kind, t, to, runs),
         exempt' = CreatedBy(exempt, ops),
         misled' = (misled \/ Misleads(ops, runs /\ Succeeds(kind, t, to)))
  PROVE  TablesOK'
<1> DEFINE done == runs /\ Succeeds(kind, t, to)
<1>1. /\ database \in [Tables -> Status] /\ exempt \subseteq Tables /\ misled \in BOOLEAN
      /\ ~misled => \A u \in exempt : database[u] = "fresh"
  BY DEF TablesOK
<1>2. misled' \in BOOLEAN
  BY <1>1
<1>3. NoIdentity \notin Tables
  BY TablesAssumption
<1>a. Performed(kind, t, to, runs)
  BY <1>1, PerformDatabase
<1>4. database' \in [Tables -> Status]
  BY <1>a DEF Performed
<1>5. exempt' \subseteq Tables /\ (~misled' => \A u \in exempt' : database'[u] = "fresh")
  <2>1. CASE Steady(ops)
    <3>1. exempt' = exempt
      BY <2>1, CreatedSteady
    <3>2. \A i \in DOMAIN ops : ~Tells(ops[i])
      BY <2>1 DEF Steady, Moving, Tells
    <3>3. ~misled' => \A u \in exempt : database'[u] = database[u]
      BY <3>2 DEF Misleads
    <3> QED
      BY <1>1, <3>1, <3>3
  <2>2. ASSUME NEW op, ops = <<op>>
        PROVE  exempt' \subseteq Tables /\ (~misled' => \A u \in exempt' : database'[u] = "fresh")
    <3> DEFINE id == op.identity
    <3>1. /\ id = NoIdentity \/ op.type \notin Moving \/ id \in Tables
          /\ id \in Tables =>
                /\ op.type = "CreateModel" =>
                      /\ id = t /\ runs /\ ~Conditional
                      /\ kind = "create" \/ (kind = "create if" /\ database[t] # "existing")
                /\ op.type = "RenameModel" => id = to /\ kind = "rename" /\ t.schema = to.schema /\ op.detail = {t.name}
                /\ op.type \notin {"CreateModel", "RenameModel"} => id = t /\ kind \notin {"rename", "sql"}
      <4>1. 1 \in DOMAIN ops /\ ops[1] = op
        BY <2>2
      <4> QED BY <4>1 DEF Describes
    <3>2. exempt' = CreatedAfter(exempt, op)
      BY <2>2, CreatedAlone
    <3>3. ~misled' => /\ ~misled
                      /\ op.type = "RenameModel" /\ Exempted(op) => done
                      /\ ~Tells(op) => \A u \in exempt : database'[u] = database[u]
      <4>1. DOMAIN ops = {1} /\ ops[1] = op
        BY <2>2
      <4> QED
        BY <4>1 DEF Misleads
    <3>4. CASE op.type = "CreateModel" /\ id # NoIdentity
      <4>1. id \in Tables /\ id = t /\ runs /\ ~Conditional
            /\ (kind = "create" \/ (kind = "create if" /\ database[t] # "existing"))
        BY <3>1, <3>4 DEF Moving
      <4>2. database'[t] = "fresh" /\ \A u \in Tables : u # t => database'[u] = database[u]
        BY <1>1, <4>1, <1>a DEF Performed
      <4>3. exempt' = exempt \cup {t}
        BY <3>2, <3>4, <4>1 DEF CreatedAfter
      <4> QED
        BY <1>1, <3>3, <4>2, <4>3
    <3>5. CASE op.type = "RenameModel" /\ id # NoIdentity
      <4>1. id \in Tables /\ id = to /\ kind = "rename" /\ t.schema = to.schema /\ op.detail = {t.name}
        BY <3>1, <3>5 DEF Moving
      <4>2. /\ t \in exempt => CreatedAfter(exempt, op) = (exempt \ {t}) \cup {to}
            /\ t \notin exempt => CreatedAfter(exempt, op) = exempt
        BY <3>5, <4>1, RenameMoves
      <4>3. Exempted(op) <=> to \in CreatedAfter(exempt, op)
        BY <3>5, <4>1 DEF Exempted
      <4>4. ASSUME ~done, ~misled' PROVE exempt' = exempt /\ database' = database
        <5>1. to \notin CreatedAfter(exempt, op)
          BY <3>3, <3>5, <4>3, <4>4
        <5> QED
          BY <1>1, <3>2, <4>1, <4>2, <4>4, <5>1, <1>a DEF Performed
      <4>5. ASSUME done, ~misled' PROVE \A u \in exempt' : database'[u] = "fresh"
        <5>1. /\ database[t] # "absent" /\ database[to] = "absent"
              /\ database' = [database EXCEPT ![to] = database[t], ![t] = "absent"]
          BY <1>1, <4>1, <4>5, <1>a DEF Performed
        <5>2. to \notin exempt /\ t # to
          BY <1>1, <3>3, <4>5, <5>1
        <5> QED
          BY <1>1, <3>2, <3>3, <4>2, <4>5, <5>1, <5>2
      <4> QED
        BY <1>1, <3>2, <3>3, <4>2, <4>4, <4>5
    <3>6. CASE op.type = "DeleteModel" /\ id # NoIdentity
      <4>1. id \in Tables /\ id = t /\ kind \notin {"rename", "sql"}
        BY <3>1, <3>6 DEF Moving
      <4>2. \A u \in Tables : u # t => database'[u] = database[u]
        BY <1>1, <4>1, <1>a DEF Performed
      <4>3. exempt' = exempt \ {t}
        BY <3>2, <3>6, <4>1 DEF CreatedAfter
      <4> QED
        BY <1>1, <3>3, <4>2, <4>3
    <3>7. CASE op.type = "ExecuteSql"
      BY <3>2, <3>7 DEF CreatedAfter
    <3>8. CASE op.type # "ExecuteSql" /\ (op.type \in {"CreateModel", "RenameModel", "DeleteModel"} => id = NoIdentity)
      <4>1. exempt' \subseteq exempt
        BY <3>2, <3>8 DEF CreatedAfter, Renamed
      <4>2. ~Tells(op)
        BY <3>8 DEF Tells
      <4> QED
        BY <1>1, <3>3, <4>1, <4>2
    <3> QED
      BY <3>4, <3>5, <3>6, <3>7, <3>8
  <2> QED
    BY <2>1, <2>2 DEF Describes, Alone
<1> QED
  BY <1>2, <1>4, <1>5 DEF TablesOK

\* What is exempt is on a table the run made, and leaves none that was there.
LEMMA ExemptedIsFresh ==
  ASSUME TablesOK, NEW kind, NEW t \in Tables, NEW to \in Tables, NEW runs \in BOOLEAN, NEW ops,
         Perform(kind, t, to, runs), Describes(ops, kind, t, to, runs), Spared(ops),
         ~misled, ~Misleads(ops, runs /\ Succeeds(kind, t, to))
  PROVE  Fresh(kind, t, to) /\ database'[t] # "existing"
<1>1. /\ database \in [Tables -> Status] /\ exempt \subseteq Tables
      /\ \A u \in exempt : database[u] = "fresh"
  BY DEF TablesOK
<1>a. Performed(kind, t, to, runs)
  BY <1>1, PerformDatabase
<1>2. PICK i \in DOMAIN ops : Exempted(ops[i])
  BY DEF Spared
<1> DEFINE op == ops[i]
           id == op.identity
<1>3. NoIdentity \notin Tables
  BY TablesAssumption
<1>4. /\ id = NoIdentity \/ op.type \notin Moving \/ id \in Tables
      /\ id \in Tables =>
            /\ op.type = "RenameModel" => id = to /\ kind = "rename" /\ t.schema = to.schema /\ op.detail = {t.name}
            /\ op.type \notin {"CreateModel", "RenameModel"} => id = t /\ kind \notin {"rename", "sql"}
  BY <1>2 DEF Describes
<1>5. CASE op.type = "RenameModel"
  <2>1. runs /\ Succeeds(kind, t, to)
    BY <1>2, <1>5 DEF Misleads
  <2>2. id \in Tables
    <3>1. id # NoIdentity
      BY <1>1, <1>2, <1>3, <1>5 DEF Exempted, CreatedAfter, Renamed
    <3> QED
      BY <1>4, <1>5, <3>1 DEF Moving
  <2>3. id = to /\ kind = "rename" /\ t.schema = to.schema /\ op.detail = {t.name}
    BY <1>4, <1>5, <2>2
  <2>4. /\ database[t] # "absent" /\ database[to] = "absent"
        /\ database' = [database EXCEPT ![to] = database[t], ![t] = "absent"]
    BY <1>1, <2>1, <2>3, <1>a DEF Performed
  <2>5. to \notin exempt
    BY <1>1, <2>4
  <2>6. t \in exempt
    <3>1. to \in CreatedAfter(exempt, op)
      BY <1>2, <1>5, <2>3 DEF Exempted
    <3>2. t \notin exempt => CreatedAfter(exempt, op) = exempt
      <4> HIDE DEF op
      <4> QED BY <1>5, <2>3, RenameMoves
    <3> QED
      BY <2>5, <3>1, <3>2
  <2> QED
    BY <1>1, <2>4, <2>5, <2>6 DEF Fresh
<1>6. CASE op.type # "RenameModel"
  <2>1. id \in exempt /\ op.type # "CreateModel"
    BY <1>2, <1>6 DEF Exempted
  <2>2. id = t /\ kind \notin {"rename", "sql"}
    BY <1>1, <1>4, <1>6, <2>1
  <2>3. database[t] = "fresh" /\ database'[t] # "existing"
    BY <1>1, <2>1, <2>2, <1>a DEF Performed
  <2> QED
    BY <2>3 DEF Fresh
<1> QED
  BY <1>5, <1>6

\* What the current item of the local function is extracted from.
LEMMA HelperItem ==
  ASSUME HelperOK, NEW i \in 1..Len(helper)
  PROVE  helper[i].statement \in Statements /\ helper[i].conditional \in BOOLEAN
<1> DEFINE I == [statement : Statements, conditional : BOOLEAN]
<1>1. helper \in Seq(I)
  BY DEF HelperOK
<1>2. helper[i] \in I
  <2> HIDE DEF I
  <2> QED BY <1>1
<1> QED
  BY <1>2

\* A statement that is read and run, or only run again.
LEMMA RunsStep ==
  ASSUME TablesOK, generated \in BOOLEAN \X BOOLEAN, NEW s \in Statements, NEW unconditional \in BOOLEAN,
         NEW runs \in BOOLEAN, unconditional => runs /\ ~Conditional,
         NEW ops, ops = ExtractStatement(s.tokens, unconditional, generated) \/ ops = <<>>,
         NEW wasSpared, Runs(s, ops, runs, wasSpared)
  PROVE  TablesOK' /\ (~misled' /\ Spared(ops) => Fresh(s.kind, s.table, s.to) /\ database'[s.table] # "existing")
<1>1. /\ runs => Possible(s)
      /\ Perform(s.kind, s.table, s.to, runs)
      /\ exempt' = CreatedBy(exempt, ops)
      /\ misled' = (misled \/ Misleads(ops, runs /\ Succeeds(s.kind, s.table, s.to)))
  BY DEF Runs
<1>2. /\ s.table \in Tables /\ s.to \in Tables
      /\ Describes(ops, s.kind, s.table, s.to, runs)
  BY <1>1, StatementDescribes, NothingDescribes
<1>3. TablesOK'
  BY <1>1, <1>2, StepTables
<1>4. ~misled' /\ Spared(ops) => Fresh(s.kind, s.table, s.to) /\ database'[s.table] # "existing"
  BY <1>1, <1>2, ExemptedIsFresh
<1> QED
  BY <1>3, <1>4

\* What the walk and the run make of one call.
LEMMA CallStep ==
  ASSUME BlocksOK, TablesOK, NEW call \in Calls, NEW shape \in {"statement", "part"}, CallOp(call, shape)
  PROVE  TablesOK' /\ (~misled' /\ last'.spared => last'.fresh)
<1> DEFINE direct == shape = "statement"
           ops == ExtractOperation(call.f, call.args, Top.unconditional, direct)
<1>1. PICK runs \in IF shape = "part" THEN BOOLEAN ELSE MayRun, kind \in Kinds(call), p \in Places(call) :
        /\ Perform(kind, p[1], p[2], runs)
        /\ exempt' = CreatedBy(exempt, ops)
        /\ misled' = (misled \/ Misleads(ops, runs /\ Succeeds(kind, p[1], p[2])))
        /\ last' = [ran |-> runs, seen |-> Sees(ops, Meaning(call.f, call.args)), exact |-> TRUE,
                    spared |-> Spared(ops), fresh |-> Fresh(kind, p[1], p[2]),
                    autocommit |-> Top.autocommit /\ ops # <<>>, real |-> Top.real]
  <2> HIDE DEF Top
  <2> QED BY DEF CallOp
<1>2. runs \in BOOLEAN
  BY DEF MayRun
<1>3. Top.unconditional /\ direct => runs /\ ~Conditional
  BY Unconditional
<1>4. /\ p[1] \in Tables /\ p[2] \in Tables
      /\ Describes(ops, kind, p[1], p[2], runs)
  <2> HIDE DEF Top, direct
  <2> QED
    BY <1>3, CallDescribes
<1> HIDE DEF ops, Top
<1>5. TablesOK'
  BY <1>1, <1>2, <1>4, StepTables
<1>6. last'.spared = Spared(ops) /\ last'.fresh = Fresh(kind, p[1], p[2])
  BY <1>1
<1>7. ~misled' /\ Spared(ops) => Fresh(kind, p[1], p[2])
  BY <1>1, <1>2, <1>4, ExemptedIsFresh
<1> QED
  BY <1>5, <1>6, <1>7

\* What one statement executed in place does.
LEMMA ExecuteStep ==
  ASSUME BlocksOK, TablesOK, HelperOK, NEW s \in Statements, ExecuteStatement(s)
  PROVE  TablesOK' /\ (~misled' /\ last'.spared => last'.fresh)
<1> DEFINE ops == ExtractStatement(s.tokens, Top.unconditional, generated)
<1>1. PICK runs \in MayRun : Runs(s, ops, runs, Spared(ops))
  <2> HIDE DEF Top
  <2> QED BY DEF ExecuteStatement
<1>2. runs \in BOOLEAN /\ Top.unconditional \in BOOLEAN /\ (Top.unconditional => runs /\ ~Conditional)
  BY Unconditional DEF MayRun, Block
<1>3. TablesOK' /\ (~misled' /\ Spared(ops) => Fresh(s.kind, s.table, s.to) /\ database'[s.table] # "existing")
  <2>1. generated \in BOOLEAN \X BOOLEAN
    BY DEF HelperOK
  <2> HIDE DEF Top
  <2> QED BY <1>1, <1>2, <2>1, RunsStep
<1>4. last'.spared = Spared(ops) /\ last'.fresh = Fresh(s.kind, s.table, s.to)
  <2> HIDE DEF ops
  <2> QED BY <1>1 DEF Runs, Quiet
<1> QED
  BY <1>3, <1>4

\* What was exempt of the local function stays so, if the run is not misled.
LEMMA SparedKept ==
  ASSUME HelperOK, NEW ops, NEW done, misled' = (misled \/ Misleads(ops, done))
  PROVE  ~misled' => \A i \in spared : database'[helper[i].statement.table] # "existing"
BY DEF HelperOK, Misleads, Safe

\* What one statement of the local function does, at the first call of it or a
\* later one.
LEMMA FollowStep ==
  ASSUME TablesOK, HelperOK, FollowHelper
  PROVE  /\ TablesOK' /\ (~misled' /\ last'.spared => last'.fresh)
         /\ at \in 1..Len(helper) /\ spared' = (IF last'.spared THEN spared \cup {at} ELSE spared)
         /\ ~misled' => \A i \in spared' : database'[helper[i].statement.table] # "existing"
<1> DEFINE item == helper[at]
           s == item.statement
           unconditional == calls.unconditional /\ ~item.conditional
           ops == IF calls.first THEN ExtractStatement(s.tokens, unconditional, generated) ELSE <<>>
           isSpared == IF calls.first THEN Spared(ops) ELSE at \in spared
<1>1. PICK runs \in IF ~calls.runs THEN {FALSE} ELSE IF item.conditional THEN BOOLEAN ELSE {TRUE} :
        Runs(s, ops, runs, isSpared)
  BY DEF FollowHelper
<1>2. at \in 1..Len(helper) /\ spared' = (IF isSpared THEN spared \cup {at} ELSE spared)
  BY DEF FollowHelper, HelperOK
<1>3. s \in Statements /\ item.conditional \in BOOLEAN
  BY <1>2, HelperItem
<1>4. calls.runs \in BOOLEAN /\ calls.unconditional \in BOOLEAN /\ calls.first \in BOOLEAN
      /\ generated \in BOOLEAN \X BOOLEAN
  BY DEF HelperOK
<1>5. runs \in BOOLEAN
  BY <1>1, <1>4
<1>6. unconditional \in BOOLEAN /\ (unconditional => runs /\ ~Conditional)
  <2>1. calls.unconditional => calls.runs /\ ~Conditional
    BY <1>2 DEF HelperOK
  <2> HIDE DEF item
  <2> QED BY <1>1, <1>3, <1>4, <2>1
<1>7. TablesOK' /\ (~misled' /\ Spared(ops) => Fresh(s.kind, s.table, s.to) /\ database'[s.table] # "existing")
  <2>1. ops = ExtractStatement(s.tokens, unconditional, generated) \/ ops = <<>>
    OBVIOUS
  <2>2. generated \in BOOLEAN \X BOOLEAN /\ s \in Statements /\ Runs(s, ops, runs, isSpared)
    BY <1>1, <1>3, <1>4
  <2> HIDE DEF s, unconditional, ops, isSpared, item
  <2> QED BY <1>5, <1>6, <2>1, <2>2, RunsStep
<1> HIDE DEF ops
<1>8. /\ last'.spared = isSpared /\ last'.fresh = Fresh(s.kind, s.table, s.to)
      /\ misled' = (misled \/ Misleads(ops, runs /\ Succeeds(s.kind, s.table, s.to)))
  <2> HIDE DEF isSpared, s
  <2> QED BY <1>1 DEF Runs, Quiet
<1>9. ~misled' => ~misled /\ \A i \in spared : database'[helper[i].statement.table] # "existing"
  BY <1>8, SparedKept
<1>10. ~misled' /\ isSpared => Fresh(s.kind, s.table, s.to) /\ database'[s.table] # "existing"
  <2>1. CASE calls.first
    BY <1>7, <2>1
  <2>2. CASE ~calls.first
    <3>1. ~misled' /\ isSpared => database'[s.table] # "existing" /\ Safe(s.table)
      BY <1>9, <2>2 DEF HelperOK
    <3> QED
      BY <3>1 DEF Fresh, Safe
  <2> QED
    BY <2>1, <2>2
<1> HIDE DEF isSpared
<1> QED
  BY <1>2, <1>7, <1>8, <1>9, <1>10

LEMMA TablesStep == BlocksOK /\ TablesOK /\ HelperOK /\ [Next]_vars => TablesOK'
<1> SUFFICES ASSUME BlocksOK, TablesOK, HelperOK, [Next]_vars PROVE TablesOK'
  OBVIOUS
<1>1. ASSUME NEW call \in Calls, NEW shape \in {"statement", "part"}, CallOp(call, shape) PROVE TablesOK'
  BY <1>1, CallStep
<1>2. ASSUME NEW s \in Statements, ExecuteStatement(s) PROVE TablesOK'
  BY <1>2, ExecuteStep
<1>3. CASE FollowHelper
  BY <1>3, FollowStep
<1>4. ASSUME UNCHANGED <<exempt, database, misled>> PROVE TablesOK'
  BY <1>4 DEF TablesOK
<1>5. ASSUME \/ \E names, others \in SUBSET Variables : EnterBlock(names, others)
             \/ \E item \in {Canonical, "other"} \cup Variables, names \in SUBSET Variables : EnterWith(item, names)
             \/ LeaveBlock
             \/ \E v \in Variables, value \in {"context", "other"} : Bind(v, value) \/ BindOtherwise(v, value)
             \/ \E call \in CallReadings : ReadCall(call)
             \/ \E s \in Readings : ReadStatement(s)
             \/ CallHelper
             \/ UNCHANGED vars
      PROVE  UNCHANGED <<exempt, database, misled>>
  BY <1>5 DEF EnterBlock, EnterWith, LeaveBlock, Bind, BindOtherwise, ReadCall, ReadStatement, CallHelper, vars, walk, run
<1> QED
  BY <1>1, <1>2, <1>3, <1>4, <1>5 DEF Next

LEMMA HelperKept ==
  ASSUME HelperOK, UNCHANGED <<framework, generated, helper, at, calls, visited, spared>>,
         at = 0 \/ frames' = frames,
         UNCHANGED <<database, misled>> \/ \E ops, done : misled' = (misled \/ Misleads(ops, done))
  PROVE  HelperOK'
<1>1. at > 0 => (Conditional' <=> Conditional)
  BY DEF HelperOK, Conditional
<1>2. ~misled' => \A i \in spared : Safe(helper[i].statement.table)'
  BY SparedKept DEF HelperOK, Safe
<1> QED
  BY <1>1, <1>2 DEF HelperOK

LEMMA HelperStep == BlocksOK /\ TablesOK /\ HelperOK /\ [Next]_vars => HelperOK'
<1> SUFFICES ASSUME BlocksOK, TablesOK, HelperOK, [Next]_vars PROVE HelperOK'
  OBVIOUS
<1>1. framework = "alembic" => at = 0
  BY DEF HelperOK
<1>2. CASE CallHelper
  <2>1. PICK runs \in MayRun : calls' = [first |-> ~visited, unconditional |-> Top.unconditional, runs |-> runs]
    BY <1>2 DEF CallHelper
  <2>2. /\ UNCHANGED <<frames, framework, generated, helper, spared, database, misled>>
        /\ at' = 1 /\ visited' = TRUE /\ framework = "aerich" /\ helper # <<>>
    BY <1>2 DEF CallHelper, run, fixed
  <2>3. calls' \in [first : BOOLEAN, unconditional : BOOLEAN, runs : BOOLEAN]
    <3>1. runs \in BOOLEAN /\ Top.unconditional \in BOOLEAN
      BY Unconditional DEF MayRun, Block
    <3>2. (~visited) \in BOOLEAN
      BY DEF HelperOK
    <3> HIDE DEF Top
    <3> QED BY <2>1, <3>1, <3>2
  <2>4. calls'.unconditional => calls'.runs /\ ~Conditional'
    <3>1. calls'.unconditional => Top.unconditional /\ calls'.runs = runs
      BY <2>1
    <3>2. Conditional' <=> Conditional
      BY <2>2 DEF Conditional
    <3> QED
      BY <3>1, <3>2, Unconditional
  <2>5. 1 \in 0..Len(helper)
    <3>1. helper \in Seq([statement : Statements, conditional : BOOLEAN])
      BY DEF HelperOK
    <3> QED BY <2>2, <3>1
  <2> QED
    BY <2>2, <2>3, <2>4, <2>5 DEF HelperOK, Safe
<1>3. CASE FollowHelper
  <2>1. /\ at' = IF at = Len(helper) THEN 0 ELSE at + 1
        /\ calls' = IF at = Len(helper) THEN Idle ELSE calls
        /\ UNCHANGED <<frames, visited, framework, generated, helper>>
    BY <1>3 DEF FollowHelper, fixed
  <2>2. helper \in Seq([statement : Statements, conditional : BOOLEAN]) /\ Len(helper) \in Nat
    BY DEF HelperOK
  <2>3. /\ at \in 1..Len(helper) /\ spared' = (IF last'.spared THEN spared \cup {at} ELSE spared)
        /\ ~misled' => \A i \in spared' : database'[helper[i].statement.table] # "existing"
    BY <1>3, FollowStep
  <2>4. spared' \subseteq 1..Len(helper)
    BY <2>3 DEF HelperOK
  <2>5. ~misled' => \A i \in spared' : Safe(helper[i].statement.table)'
    BY <2>1, <2>3 DEF Safe
  <2>6. at' \in 0..Len(helper')
    BY <2>1, <2>2, <2>3
  <2>7. /\ calls' \in [first : BOOLEAN, unconditional : BOOLEAN, runs : BOOLEAN]
        /\ calls'.unconditional => calls'.runs /\ ~Conditional'
    BY <2>1, <2>3 DEF HelperOK, Idle, Conditional
  <2>8. visited'
    BY <2>1, <2>3 DEF HelperOK
  <2> QED
    BY <2>1, <2>4, <2>5, <2>6, <2>7, <2>8 DEF HelperOK
<1>4. ASSUME UNCHANGED <<framework, generated, helper, at, calls, visited, spared>>, at = 0 \/ frames' = frames,
             UNCHANGED <<database, misled>> \/ \E ops, done : misled' = (misled \/ Misleads(ops, done))
      PROVE  HelperOK'
  BY <1>4, HelperKept
<1>5. ASSUME NEW names \in SUBSET Variables, NEW others \in SUBSET Variables, EnterBlock(names, others) PROVE HelperOK'
  BY <1>4, <1>5 DEF EnterBlock, fixed
<1>6. ASSUME NEW item \in {Canonical, "other"} \cup Variables, NEW names \in SUBSET Variables, EnterWith(item, names)
      PROVE  HelperOK'
  BY <1>1, <1>4, <1>6 DEF EnterWith, fixed, run
<1>7. CASE LeaveBlock
  BY <1>4, <1>7 DEF LeaveBlock, fixed, run
<1>8. ASSUME NEW v \in Variables, NEW value \in {"context", "other"}, Bind(v, value) \/ BindOtherwise(v, value)
      PROVE  HelperOK'
  BY <1>4, <1>8 DEF Bind, BindOtherwise, fixed
<1>9. ASSUME NEW call \in Calls, NEW shape \in {"statement", "part"}, CallOp(call, shape) PROVE HelperOK'
  <2>1. \E ops, done : misled' = (misled \/ Misleads(ops, done))
    BY <1>9 DEF CallOp
  <2> QED
    BY <1>4, <1>9, <2>1 DEF CallOp, fixed
<1>10. ASSUME NEW call \in CallReadings, ReadCall(call) PROVE HelperOK'
  BY <1>4, <1>10 DEF ReadCall, walk, fixed, run
<1>11. ASSUME NEW s \in Statements, ExecuteStatement(s) PROVE HelperOK'
  <2>1. \E ops, done : misled' = (misled \/ Misleads(ops, done))
    BY <1>11 DEF ExecuteStatement, Runs
  <2> QED
    BY <1>4, <1>11, <2>1 DEF ExecuteStatement, fixed
<1>12. ASSUME NEW s \in Readings, ReadStatement(s) PROVE HelperOK'
  BY <1>4, <1>12 DEF ReadStatement, walk, fixed, run
<1>13. CASE UNCHANGED vars
  BY <1>4, <1>13 DEF vars, walk, fixed, run
<1> QED
  BY <1>2, <1>3, <1>5, <1>6, <1>7, <1>8, <1>9, <1>10, <1>11, <1>12, <1>13 DEF Next

LEMMA InvariantStep == IInv /\ [Next]_vars => IInv'
BY BlocksStep, BindingsStep, TablesStep, HelperStep DEF IInv

LEMMA InvariantHolds == Spec => []IInv
BY InitInvariant, InvariantStep, PTL DEF Spec

(***************************************************************************)
(* TypeOK: the exempt set holds certain identities only, blocks inherit    *)
(* what encloses them, and the local function is followed within its body. *)
(***************************************************************************)
THEOREM TypeCorrect == Spec => []TypeOK
<1>1. IInv => TypeOK
  <2> SUFFICES ASSUME IInv PROVE TypeOK
    OBVIOUS
  <2>1. exempt \subseteq Tables /\ NoIdentity \notin exempt
    BY TablesAssumption DEF IInv, TablesOK
  <2>2. \A i \in 1..Len(frames) - 1 : /\ frames[i + 1].unconditional => frames[i].unconditional
                                      /\ frames[i].autocommit => frames[i + 1].autocommit
                                      /\ frames[i].real => frames[i + 1].real
    <3>1. Len(frames) \in Nat
      BY DEF IInv, BlocksOK
    <3>2. \A i \in 1..Len(frames) - 1 : i \in 1..Len(frames) /\ i + 1 \in 1..Len(frames) /\ i <= i + 1
      BY <3>1
    <3> QED
      BY <3>2 DEF IInv, BlocksOK
  <2> QED
    BY <2>1, <2>2 DEF TypeOK, IInv, TablesOK, HelperOK
<1> QED
  BY <1>1, InvariantHolds, PTL

LEMMA StepFresh == IInv /\ ExemptOnlyFresh /\ [Next]_vars => ExemptOnlyFresh'
<1> SUFFICES ASSUME IInv, ExemptOnlyFresh, [Next]_vars PROVE ExemptOnlyFresh'
  OBVIOUS
<1> USE DEF IInv
<1>1. ASSUME NEW call \in Calls, NEW shape \in {"statement", "part"}, CallOp(call, shape) PROVE ExemptOnlyFresh'
  BY <1>1, CallStep DEF ExemptOnlyFresh
<1>2. ASSUME NEW s \in Statements, ExecuteStatement(s) PROVE ExemptOnlyFresh'
  BY <1>2, ExecuteStep DEF ExemptOnlyFresh
<1>3. CASE FollowHelper
  BY <1>3, FollowStep DEF ExemptOnlyFresh
<1>4. ASSUME ~last'.spared PROVE ExemptOnlyFresh'
  BY <1>4 DEF ExemptOnlyFresh
<1>5. ASSUME \/ \E names, others \in SUBSET Variables : EnterBlock(names, others)
             \/ \E item \in {Canonical, "other"} \cup Variables, names \in SUBSET Variables : EnterWith(item, names)
             \/ LeaveBlock
             \/ \E v \in Variables, value \in {"context", "other"} : Bind(v, value) \/ BindOtherwise(v, value)
             \/ CallHelper
      PROVE  ~last'.spared
  <2>1. last' = Quiet
    BY <1>5 DEF EnterBlock, EnterWith, LeaveBlock, Bind, BindOtherwise, CallHelper
  <2> QED
    BY <2>1 DEF Quiet
<1>6. ASSUME NEW call \in CallReadings, ReadCall(call) PROVE ~last'.spared
  BY <1>6 DEF ReadCall, Quiet
<1>7. ASSUME NEW s \in Readings, ReadStatement(s) PROVE ~last'.spared
  BY <1>7 DEF ReadStatement, Quiet
<1>8. CASE UNCHANGED vars
  BY <1>8 DEF vars, run, ExemptOnlyFresh
<1> QED
  BY <1>1, <1>2, <1>3, <1>4, <1>5, <1>6, <1>7, <1>8 DEF Next

(***************************************************************************)
(* ExemptOnlyFresh: for every script and database, an exempt operation     *)
(* that runs finds no table that was there before, as long as the run has  *)
(* carried out every rename that was exempted and has changed no exempt    *)
(* table by a statement the walk does not read (Misleads).                 *)
(***************************************************************************)
THEOREM ExemptIsFresh == Spec => []ExemptOnlyFresh
<1>1. Init => ExemptOnlyFresh
  BY DEF Init, ExemptOnlyFresh, Quiet
<1> QED
  BY <1>1, StepFresh, InvariantHolds, PTL DEF Spec
-----------------------------------------------------------------------------
(* Identities: what is read alone.                                         *)

\* Of these operations only those that drop a column for `identity` do so.
DropsFor(ops, identity) ==
    /\ \E S : ops \in Seq(S)
    /\ \A i \in DOMAIN ops : ops[i].type = "RemoveField" => ops[i].identity = identity

LEMMA DropsOne ==
  ASSUME NEW identity, NEW op, op.type # "RemoveField" \/ op.identity = identity
  PROVE  DropsFor(<<op>>, identity)
<1>1. <<op>> \in Seq({op}) /\ \A i \in DOMAIN <<op>> : <<op>>[i] = op
  OBVIOUS
<1> QED
  BY <1>1 DEF DropsFor

LEMMA DropsNothing ==
  ASSUME NEW identity PROVE DropsFor(<<>>, identity) /\ DropsFor(RawSql, identity)
<1>1. Operation("ExecuteSql", "", NoIdentity, {}).type # "RemoveField"
  BY DEF Operation
<1>2. DropsFor(RawSql, identity)
  BY <1>1, DropsOne DEF RawSql
<1> QED
  BY <1>2 DEF DropsFor

LEMMA DropsNone ==
  ASSUME NEW identity, NEW type, type # "RemoveField", NEW table, NEW of, NEW detail
  PROVE  /\ DropsFor(OnTable(type, of, detail), identity)
         /\ DropsFor(<<Operation(type, table, of, detail)>>, identity)
<1>1. \A n : Operation(type, n, of, detail).type # "RemoveField"
  BY DEF Operation
<1>2. \A n : DropsFor(<<Operation(type, n, of, detail)>>, identity)
  BY <1>1, DropsOne
<1> QED
  BY <1>2, DropsNothing DEF OnTable, When

LEMMA DropsBoth ==
  ASSUME NEW identity, NEW a, NEW b, DropsFor(a, identity), DropsFor(b, identity)
  PROVE  DropsFor(a \o b, identity)
<1>1. PICK S : a \in Seq(S)
  BY DEF DropsFor
<1>2. PICK T : b \in Seq(T)
  BY DEF DropsFor
<1>3. a \in Seq(S \cup T) /\ b \in Seq(S \cup T)
  BY <1>1, <1>2
<1>4. a \o b \in Seq(S \cup T)
  BY <1>3
<1>5. \A i \in DOMAIN (a \o b) :
        \/ i \in DOMAIN a /\ (a \o b)[i] = a[i]
        \/ i - Len(a) \in DOMAIN b /\ (a \o b)[i] = b[i - Len(a)]
  BY <1>3
<1> QED
  BY <1>4, <1>5 DEF DropsFor

\* Only an ALTER TABLE drops a column, and for the identity model_drop_target
\* gives it.
LEMMA DropOfAlter ==
  ASSUME NEW t PROVE DropsFor(AlterTable(t), DropTarget(t))
<1> DEFINE Right(ops) == DropsFor(ops, DropTarget(t))
<1>1. Right(<<>>) /\ Right(RawSql)
  BY DropsNothing
<1>2. \A type, of, detail : type # "RemoveField" => Right(OnTable(type, of, detail))
  BY DropsNone
<1>3. ASSUME NEW name PROVE Right(<< Operation("RemoveField", name, DropTarget(t), {}) >>)
  <2>1. Operation("RemoveField", name, DropTarget(t), {}).identity = DropTarget(t)
    BY DEF Operation
  <2> QED
    BY <2>1, DropsOne
<1>4. ASSUME NEW of, NEW detail, NEW condition, NEW more
      PROVE  Right(OnTable("AddField", of, detail) \o When(condition, OnTable("AddConstraint", of, more)))
  <2>1. Right(OnTable("AddField", of, detail)) /\ Right(OnTable("AddConstraint", of, more))
    BY <1>2
  <2>2. Right(When(condition, OnTable("AddConstraint", of, more)))
    BY <1>1, <2>1 DEF When
  <2> QED
    BY <2>1, <2>2, DropsBoth
<1>5. Right(AddConstraintOf(t))
  <2>1. \/ AddConstraintOf(t) = RawSql \/ AddConstraintOf(t) = <<>>
        \/ \E detail : AddConstraintOf(t) = OnTable("AddConstraint", Table(t), detail)
    BY DEF AddConstraintOf
  <2> HIDE DEF Right
  <2> QED BY <1>1, <1>2, <2>1
<1>6. \/ AlterTable(t) = <<>> \/ AlterTable(t) = RawSql \/ AlterTable(t) = AddConstraintOf(t)
      \/ \E type, of, detail : type # "RemoveField" /\ AlterTable(t) = OnTable(type, of, detail)
      \/ \E name : AlterTable(t) = << Operation("RemoveField", name, DropTarget(t), {}) >>
      \/ \E of, detail, condition, more :
            AlterTable(t) = OnTable("AddField", of, detail) \o When(condition, OnTable("AddConstraint", of, more))
  BY DEF AlterTable
<1> HIDE DEF Right
<1>7. Right(AlterTable(t))
  BY <1>1, <1>2, <1>3, <1>4, <1>5, <1>6
<1> QED
  BY <1>7 DEF Right

LEMMA DropOfStatement ==
  ASSUME NEW t, NEW unconditional, NEW revision
  PROVE  DropsFor(ExtractStatement(t, unconditional, revision),
                  IF StartsWithWords(t, <<"ALTER", "TABLE">>) THEN DropTarget(t) ELSE NoIdentity)
<1> DEFINE identity == IF StartsWithWords(t, <<"ALTER", "TABLE">>) THEN DropTarget(t) ELSE NoIdentity
           Right(ops) == DropsFor(ops, identity)
           ops == ExtractStatement(t, unconditional, revision)
           indexed == OnTable(IndexType(TRUE, Concurrently(t, "CREATE")), IdentifierAfter(t, "ON"), {})
           unindexed == << Operation(IndexType(FALSE, Concurrently(t, "DROP")), "", NoIdentity, {}) >>
           comment == IF revision[1] THEN <<>> ELSE RawSql
<1> SUFFICES Right(ops)
  OBVIOUS
<1>1. /\ Right(<<>>) /\ Right(RawSql)
      /\ \A type, of, detail : type # "RemoveField" => Right(OnTable(type, of, detail))
      /\ \A type, name, of, detail : type # "RemoveField" => Right(<<Operation(type, name, of, detail)>>)
  <2> HIDE DEF identity
  <2>1. Right(<<>>) /\ Right(RawSql)
    BY DropsNothing
  <2>2. \A type, of, detail : type # "RemoveField" => Right(OnTable(type, of, detail))
    BY DropsNone
  <2>3. \A type, name, of, detail : type # "RemoveField" => Right(<<Operation(type, name, of, detail)>>)
    BY DropsNone
  <2> QED
    BY <2>1, <2>2, <2>3
<1>2. \A adds, concurrently : IndexType(adds, concurrently) # "RemoveField"
  BY DEF IndexType
<1>3. Right(CreateTableOf(t, unconditional, revision))
  <2> HIDE DEF Right
  <2> QED BY <1>1 DEF CreateTableOf, When
<1>4. StartsWithWords(t, <<"ALTER", "TABLE">>) => Right(AlterTable(t))
  BY DropOfAlter
<1>5. Right(indexed) /\ Right(unindexed) /\ Right(comment)
  <2> HIDE DEF Right
  <2> QED BY <1>1, <1>2
<1>6. Right(OnTable("DeleteModel", Table(t), {}))
  <2> HIDE DEF Right
  <2> QED BY <1>1
<1>7. ops = CASE IsIndex(t, "CREATE") -> indexed
              [] StartsWithWords(t, <<"DROP", "INDEX">>) -> unindexed
              [] StartsWithWords(t, <<"CREATE", "TABLE">>) -> CreateTableOf(t, unconditional, revision)
              [] StartsWithWords(t, <<"DROP", "TABLE">>) -> OnTable("DeleteModel", Table(t), {})
              [] StartsWithWords(t, <<"ALTER", "TABLE">>) -> AlterTable(t)
              [] \E what \in {"TABLE", "COLUMN"} : StartsWithWords(t, <<"COMMENT", "ON", what>>) -> comment
              [] OTHER -> RawSql
  BY DEF ExtractStatement
<1> HIDE DEF Right, ops, indexed, unindexed, comment
<1> QED
  BY <1>1, <1>3, <1>4, <1>5, <1>6, <1>7
LEMMA FlattenOne == ASSUME NEW x PROVE FlattenSeq(<<x>>) = x
<1> DEFINE Unfolds(f) == f = [i \in 1..Len(<<x>>) |-> IF i = 1 THEN <<x>>[i] ELSE f[i - 1] \o <<x>>[i]]
           g == [i \in 1..1 |-> x]
<1>1. Len(<<x>>) = 1 /\ <<x>>[1] = x
  OBVIOUS
<1>2. Unfolds(g)
  BY <1>1
<1>3. \A f : Unfolds(f) => f[1] = x
  BY <1>1
<1>4. FlattenSeq(<<x>>) = (CHOOSE f : Unfolds(f))[1]
  BY <1>1 DEF FlattenSeq
<1>5. Unfolds(CHOOSE f : Unfolds(f))
  BY <1>2
<1> HIDE DEF Unfolds
<1> QED
  BY <1>3, <1>4, <1>5

LEMMA ScriptOfOne ==
  ASSUME NEW s, NEW unconditional, NEW revision
  PROVE  ExtractSql(<<s>>, unconditional, revision) = ExtractStatement(InDoBlock(s), unconditional, revision)
<1> DEFINE ops(t) == ExtractStatement(InDoBlock(t), unconditional, revision)
<1>1. [i \in DOMAIN <<s>> |-> ops(<<s>>[i])] = <<ops(s)>>
  <2> HIDE DEF ops
  <2>1. DOMAIN <<s>> = 1..1 /\ DOMAIN <<ops(s)>> = 1..1 /\ <<s>>[1] = s /\ <<ops(s)>>[1] = ops(s)
    OBVIOUS
  <2> QED
    BY <2>1
<1>2. ExtractSql(<<s>>, unconditional, revision) = FlattenSeq([i \in DOMAIN <<s>> |-> ops(<<s>>[i])])
  BY DEF ExtractSql
<1> QED
  BY <1>1, <1>2, FlattenOne

LEMMA InDoBlockIs ==
  ASSUME NEW S, NEW s \in Seq(S) PROVE InDoBlock(s) \in Seq(S)
<1> DEFINE alters == {i \in DOMAIN s : Leads(s, i, "ALTER") /\ Leads(s, i + 1, "TABLE")}
           first == CHOOSE i \in alters : \A j \in alters : i <= j
<1>1. CASE alters # {}
  <2>1. alters \subseteq Nat /\ alters \subseteq 1..Len(s)
    OBVIOUS
  <2>2. PICK i \in alters : \A j \in alters : i <= j
    <3> HIDE DEF alters
    <3> QED BY <1>1, <2>1, Least
  <2>3. first \in alters
    <3> HIDE DEF alters
    <3> QED BY <2>2
  <2>4. first \in 1..Len(s)
    <3> HIDE DEF alters, first
    <3> QED BY <2>1, <2>3
  <2> HIDE DEF first
  <2>5. From(s, first) \in Seq(S)
    BY <2>4 DEF From
  <2> QED
    BY <2>5 DEF first, InDoBlock
<1>2. CASE alters = {}
  BY <1>2 DEF InDoBlock
<1> QED
  BY <1>1, <1>2

\* model_drop_target finds a table only where the grammar has one, and only if
\* nothing follows the one column.
LEMMA DropTargetIs ==
  ASSUME NEW S, NEW t \in Seq(S), NEW before \in BeforeName, NEW size \in {1, 3},
         NEW start, start = Len(before) + 3,
         start + size <= Len(t), t[start + size].text \in Verbs,
         \A i \in DOMAIN before : t[i + 2].text = before[i],
         IsTableName(SubSeq(t, start, start + size - 1)),
         DropTarget(t) # NoIdentity
  PROVE  /\ DropTarget(t) = Denotes(SubSeq(t, start, start + size - 1))
         /\ before = <<>> /\ \A i \in start + size..Len(t) : t[i].text # ","
<1> DEFINE name == SubSeq(t, start, start + size - 1)
           named == IF Leads(t, 4, ".") THEN 5 ELSE 3
           column == named + 3
           table == IF named = 5 THEN Identity(ModelIdentifier(t[3]), ModelIdentifier(t[5]))
                    ELSE Identity(NoSchema, ModelIdentifier(t[3]))
           rest == IF Leads(t, column + 1, "CASCADE") \/ Leads(t, column + 1, "RESTRICT") THEN column + 2 ELSE column + 1
<1>1. /\ IsIdentifier(t, 3) /\ Leads(t, named + 1, "DROP") /\ Leads(t, named + 2, "COLUMN") /\ IsIdentifier(t, column)
      /\ rest > Len(t) /\ DropTarget(t) = table
  <2>1. DropTarget(t) =
          IF /\ StartsWithWords(t, <<"ALTER", "TABLE">>) /\ IsIdentifier(t, 3) /\ IsIdentifier(t, named)
             /\ Leads(t, named + 1, "DROP") /\ Leads(t, named + 2, "COLUMN") /\ IsIdentifier(t, column)
             /\ rest > Len(t)
          THEN table ELSE NoIdentity
    BY DEF DropTarget
  <2> HIDE DEF table, rest, named, column
  <2> QED
    BY <2>1
<1>2. /\ Len(before) \in Nat /\ start \in Nat /\ start >= 3
      /\ name \in Seq(S) /\ Len(name) = size /\ \A i \in 1..size : name[i] = t[start + i - 1]
  <2>1. Len(before) \in Nat
    BY DEF BeforeName
  <2> QED
    BY <2>1
<1>3. "." \notin Verbs /\ "COLUMN" \notin Verbs /\ "." # "EXISTS" /\ "DROP" # "EXISTS" /\ "," # "DROP" /\ "," # "COLUMN"
      /\ "," # "CASCADE" /\ "," # "RESTRICT" /\ "," \in Punctuation /\ "." \in Punctuation
  BY DEF Verbs, Punctuation
<1>4. before = <<>>
  <2>1. CASE before = <<"ONLY">>
    <3>1. start = 4 /\ name[1] = t[4] /\ IsWord(t[4])
      BY <1>2, <2>1 DEF IsTableName
    <3>2. ~Leads(t, 4, ".")
      BY <1>3, <3>1 DEF Leads, IsWord
    <3>3. t[5].text = "COLUMN"
      BY <1>1, <3>2 DEF Leads
    <3>4. t[5].text \in Verbs \cup {"."}
      BY <1>2, <3>1 DEF IsTableName
    <3> QED
      BY <1>3, <3>3, <3>4
  <2>2. CASE before \in {<<"IF", "EXISTS">>, <<"IF", "EXISTS", "ONLY">>}
    <3>1. t[4].text = "EXISTS"
      <4>1. 2 \in DOMAIN before /\ before[2] = "EXISTS"
        BY <2>2
      <4> QED BY <4>1
    <3>2. ~Leads(t, 4, ".") /\ ~Leads(t, 4, "DROP")
      BY <3>1 DEF Leads
    <3>3. named = 3
      BY <3>2
    <3> HIDE DEF named, column, rest, table
    <3> QED
      BY <1>1, <3>2, <3>3
  <2> QED
    BY <2>1, <2>2 DEF BeforeName
<1>5. start = 3
  BY <1>4
<1>6. size = 3 <=> named = 5
  <2>1. size = 3 => t[4].text = "." /\ 4 \in DOMAIN t
    BY <1>2, <1>5 DEF IsTableName
  <2>2. size = 1 => t[4].text \in Verbs
    BY <1>5
  <2>3. Leads(t, 4, ".") <=> size = 3
    BY <1>3, <2>1, <2>2 DEF Leads
  <2> QED
    BY <2>3
<1>7. DropTarget(t) = Denotes(name)
  <2>1. CASE size = 1
    BY <1>1, <1>2, <1>5, <1>6, <2>1 DEF Denotes
  <2>2. CASE size = 3
    BY <1>1, <1>2, <1>5, <1>6, <2>2 DEF Denotes
  <2> QED
    BY <2>1, <2>2
<1>8. start + size = named + 1
  BY <1>5, <1>6
<1>9. ASSUME NEW i \in start + size..Len(t) PROVE t[i].text # ","
  <2>1. i \in {named + 1, named + 2, named + 3} \/ (i = named + 4 /\ rest = column + 2)
    BY <1>1, <1>8
  <2>2. rest = column + 2 => t[named + 4].text \in {"CASCADE", "RESTRICT"}
    BY DEF Leads
  <2>3. t[named + 1].text = "DROP" /\ t[named + 2].text = "COLUMN" /\ t[named + 3].text \notin Punctuation
    BY <1>1 DEF Leads, IsIdentifier, IsWord
  <2> HIDE DEF named
  <2> QED
    BY <1>3, <2>1, <2>2, <2>3
<1> QED
  BY <1>4, <1>7, <1>9

LEMMA DropIsExact ==
  ASSUME NEW s \in Readings, NEW revision,
         NEW i \in DOMAIN ExtractSql(<<s.tokens>>, TRUE, revision),
         ExtractSql(<<s.tokens>>, TRUE, revision)[i].type = "RemoveField",
         ExtractSql(<<s.tokens>>, TRUE, revision)[i].identity # NoIdentity
  PROVE  s.single /\ ExtractSql(<<s.tokens>>, TRUE, revision)[i].identity = s.table
<1> DEFINE t == InDoBlock(s.tokens)
           ops == ExtractStatement(t, TRUE, revision)
<1>1. ExtractSql(<<s.tokens>>, TRUE, revision) = ops
  BY ScriptOfOne
<1>2. StartsWithWords(t, <<"ALTER", "TABLE">>) /\ ops[i].identity = DropTarget(t) /\ DropTarget(t) # NoIdentity
  <2>1. DropsFor(ops, IF StartsWithWords(t, <<"ALTER", "TABLE">>) THEN DropTarget(t) ELSE NoIdentity)
    BY DropOfStatement
  <2> HIDE DEF t, ops
  <2> QED
    BY <1>1, <2>1 DEF DropsFor
<1>3. t \in Seq([text : STRING, quoted : BOOLEAN])
  BY ReadingsAssumption, InDoBlockIs
<1>4. PICK before \in BeforeName, size \in {1, 3} :
        LET start == Len(before) + 3
            name == SubSeq(t, start, start + size - 1)
        IN /\ start + size <= Len(t) /\ t[start + size].text \in Verbs
           /\ \A j \in DOMAIN before : t[j + 2].text = before[j]
           /\ IsTableName(name) /\ s.table = Denotes(name)
           /\ before = <<>> /\ (\A j \in start + size..Len(t) : t[j].text # ",") => s.single
  BY <1>2, ReadingsAssumption
<1> HIDE DEF t, ops
<1>5. /\ DropTarget(t) = Denotes(SubSeq(t, Len(before) + 3, Len(before) + 3 + size - 1))
      /\ before = <<>> /\ \A j \in Len(before) + 3 + size..Len(t) : t[j].text # ","
  BY <1>2, <1>3, <1>4, DropTargetIs
<1> QED
  BY <1>1, <1>2, <1>4, <1>5
\* Nothing but a reading alone can be inexact.
LEMMA StepExact ==
  ASSUME \A call \in CallReadings : WellFormed(call.f, call.args), IdentityExact, [Next]_vars
  PROVE  IdentityExact'
<1>1. Quiet.exact
  BY DEF Quiet
<1>2. ASSUME last' = Quiet PROVE IdentityExact'
  BY <1>1, <1>2 DEF IdentityExact
<1>3. ASSUME NEW s, NEW ops, NEW runs, NEW wasSpared, Runs(s, ops, runs, wasSpared) PROVE IdentityExact'
  BY <1>3 DEF IdentityExact, Runs, Quiet
<1>4. CASE \E names, others \in SUBSET Variables : EnterBlock(names, others)
  BY <1>2, <1>4 DEF EnterBlock
<1>5. CASE \E item \in {Canonical, "other"} \cup Variables, names \in SUBSET Variables : EnterWith(item, names)
  BY <1>2, <1>5 DEF EnterWith
<1>6. CASE LeaveBlock
  BY <1>2, <1>6 DEF LeaveBlock
<1>7. CASE \E v \in Variables, value \in {"context", "other"} : Bind(v, value) \/ BindOtherwise(v, value)
  BY <1>2, <1>7 DEF Bind, BindOtherwise
<1>8. CASE \E call \in Calls, shape \in {"statement", "part"} : CallOp(call, shape)
  BY <1>8 DEF CallOp, IdentityExact
<1>9. ASSUME NEW call \in CallReadings, ReadCall(call) PROVE IdentityExact'
  <2> DEFINE ops == ExtractOperation(call.f, call.args, TRUE, TRUE)
             touched == Touched(call)
  <2>1. WellFormed(call.f, call.args)
    OBVIOUS
  <2> DEFINE certain == TRUE
             right(these, schemas) == \A i \in DOMAIN these : these[i].identity # NoIdentity =>
                                                            Touches(call.f, call.args, schemas) = {these[i].identity}
  <2>2. \A schemas : right(ExtractOperation(call.f, call.args, certain, certain), schemas)
    <3> HIDE DEF certain
    <3> QED BY <2>1, CallIdentityIsExact
  <2>3. right(ops, {u.schema : u \in Tables})
    <3> HIDE DEF right
    <3> QED BY <2>2
  <2>4. last'.exact = \A i \in DOMAIN ops : ops[i].identity # NoIdentity => touched = {ops[i].identity}
    <3> HIDE DEF ops, touched
    <3> QED BY <1>9 DEF ReadCall, Quiet, ops, touched
  <2> QED
    BY <2>3, <2>4 DEF IdentityExact, Touched
<1>10. CASE \E s \in Statements : ExecuteStatement(s)
  BY <1>3, <1>10 DEF ExecuteStatement
<1>11. ASSUME NEW s \in Readings, ReadStatement(s) PROVE IdentityExact'
  <2> DEFINE ops == ExtractSql(<<s.tokens>>, TRUE, generated)
             drops == {i \in DOMAIN ops : ops[i].type = "RemoveField" /\ ops[i].identity # NoIdentity}
  <2>1. \A i \in drops : s.single /\ ops[i].identity = s.table
    BY DropIsExact
  <2>2. last'.exact = \A i \in drops : s.single /\ ops[i].identity = s.table
    BY <1>11 DEF ReadStatement, Quiet
  <2> QED
    BY <2>1, <2>2 DEF IdentityExact
<1>12. CASE CallHelper
  BY <1>2, <1>12 DEF CallHelper
<1>13. CASE FollowHelper
  <2>1. \E s, ops, runs, isSpared : Runs(s, ops, runs, isSpared)
    BY <1>13 DEF FollowHelper
  <2> QED
    BY <1>3, <2>1
<1>14. CASE UNCHANGED vars
  BY <1>14 DEF vars, IdentityExact
<1> QED
  BY <1>4, <1>5, <1>6, <1>7, <1>8, <1>9, <1>10, <1>11, <1>12, <1>13, <1>14 DEF Next

(***************************************************************************)
(* IdentityExact: of any script, a column that is dropped has an identity  *)
(* only if the statement is a single ALTER TABLE, and then it is the table *)
(* PostgreSQL drops it from; an operation of a call has one only if Python *)
(* could pass no other table.  The calls have no comment among their       *)
(* arguments.                                                              *)
(***************************************************************************)
THEOREM IdentityIsExact ==
  ASSUME \A call \in CallReadings : WellFormed(call.f, call.args)
  PROVE  Spec => []IdentityExact
<1>1. Init => IdentityExact
  BY DEF Init, IdentityExact, Quiet
<1>2. IdentityExact /\ [Next]_vars => IdentityExact'
  BY StepExact
<1> QED
  BY <1>1, <1>2, PTL DEF Spec
-----------------------------------------------------------------------------
(* Meanings: what the calls stand for is seen.                             *)

\* An operation of this type is among them, with at least these details.
Shows(ops, type, detail) == \E i \in DOMAIN ops : ops[i].type = type /\ detail \subseteq ops[i].detail
IsList(ops) == \E S : ops \in Seq(S)

LEMMA ShowsOne ==
  ASSUME NEW type, NEW table, NEW identity, NEW detail, NEW part \in SUBSET detail
  PROVE  /\ IsList(<<Operation(type, table, identity, detail)>>)
         /\ Shows(<<Operation(type, table, identity, detail)>>, type, part)
<1> DEFINE op == Operation(type, table, identity, detail)
<1>1. op.type = type /\ op.detail = detail
  BY DEF Operation
<1> HIDE DEF op
<1>2. <<op>> \in Seq({op}) /\ 1 \in DOMAIN <<op>> /\ <<op>>[1] = op
  OBVIOUS
<1>3. IsList(<<op>>) /\ Shows(<<op>>, type, part)
  BY <1>1, <1>2 DEF IsList, Shows
<1> QED
  BY <1>3 DEF op

LEMMA ShowsAmong ==
  ASSUME NEW a, NEW b, IsList(a), IsList(b), NEW type, NEW detail, Shows(a, type, detail) \/ Shows(b, type, detail)
  PROVE  Shows(a \o b, type, detail)
<1>1. PICK S : a \in Seq(S)
  BY DEF IsList
<1>2. PICK T : b \in Seq(T)
  BY DEF IsList
<1>3. a \in Seq(S \cup T) /\ b \in Seq(S \cup T)
  BY <1>1, <1>2
<1>4. \A i \in DOMAIN a : i \in DOMAIN (a \o b) /\ (a \o b)[i] = a[i]
  BY <1>3
<1>5. \A i \in DOMAIN b : Len(a) + i \in DOMAIN (a \o b) /\ (a \o b)[Len(a) + i] = b[i]
  BY <1>3
<1> QED
  BY <1>4, <1>5 DEF Shows

LEMMA ListOf ==
  ASSUME NEW a, NEW b, IsList(a), IsList(b), NEW condition
  PROVE  IsList(a \o b) /\ IsList(When(condition, a)) /\ IsList(<<>>)
<1>1. PICK S : a \in Seq(S)
  BY DEF IsList
<1>2. PICK T : b \in Seq(T)
  BY DEF IsList
<1>3. a \in Seq(S \cup T) /\ b \in Seq(S \cup T) /\ a \o b \in Seq(S \cup T) /\ <<>> \in Seq(S)
  BY <1>1, <1>2
<1> QED
  BY <1>3 DEF IsList, When
LEMMA SeesNothing == ASSUME NEW ops PROVE Sees(ops, {})
BY DEF Sees

LEMMA SeesShown ==
  ASSUME NEW ops, NEW type, NEW detail, Shows(ops, type, detail)
  PROVE  Sees(ops, {[type |-> type, detail |-> detail]})
BY DEF Sees, Shows

LEMMA SeesOne ==
  ASSUME NEW type, NEW table, NEW identity, NEW detail
  PROVE  Sees(<<Operation(type, table, identity, detail)>>, {[type |-> type, detail |-> detail]})
BY ShowsOne, SeesShown

LEMMA SeesBoth ==
  ASSUME NEW ops, NEW a, NEW b, Sees(ops, a), Sees(ops, b) PROVE Sees(ops, a \cup b)
BY DEF Sees

LEMMA StringsGiven ==
  ASSUME NEW f, NEW args, WellFormed(f, args)
  PROVE  LET Same(n, p) == StringAt(args, n, p) = StaticString(Given(f, args, p))
         IN /\ f \in OfFirst => Same(1, "table_name")
            /\ f \in OfSecond => Same(2, "table_name")
            /\ f \in {"drop_column", "alter_column"} => Same(2, "column_name")
            /\ f = "create_foreign_key" => Same(2, "source_table")
            /\ f = "rename_table" => Same(1, "old_table_name") /\ Same(2, "new_table_name")
            /\ f = "execute" => Same(1, "sqltext")
<1> DEFINE Has(n, p) == f \in DOMAIN Parameters /\ n \in DOMAIN Parameters[f] /\ Parameters[f][n] = p
           Same(n, p) == StringAt(args, n, p) = StaticString(Given(f, args, p))
<1>1. ASSUME NEW n, NEW p, Has(n, p) PROVE Same(n, p)
  BY <1>1, StringGiven
<1>2. f \in OfFirst => Has(1, "table_name")
  BY DEF OfFirst, Parameters
<1>3. f \in OfSecond => Has(2, "table_name")
  BY DEF OfSecond, Parameters
<1>4. f \in {"drop_column", "alter_column"} => Has(2, "column_name")
  BY DEF Parameters
<1>5. f = "create_foreign_key" => Has(2, "source_table")
  BY DEF Parameters
<1>6. f = "rename_table" => Has(1, "old_table_name") /\ Has(2, "new_table_name")
  BY DEF Parameters
<1>7. f = "execute" => Has(1, "sqltext")
  BY DEF Parameters
<1> HIDE DEF Has, Same
<1>8. /\ f \in OfFirst => Same(1, "table_name")
      /\ f \in OfSecond => Same(2, "table_name")
      /\ f \in {"drop_column", "alter_column"} => Same(2, "column_name")
      /\ f = "create_foreign_key" => Same(2, "source_table")
      /\ f = "rename_table" => Same(1, "old_table_name") /\ Same(2, "new_table_name")
      /\ f = "execute" => Same(1, "sqltext")
  BY <1>1, <1>2, <1>3, <1>4, <1>5, <1>6, <1>7
<1> QED
  BY <1>8 DEF Same

LEMMA SimpleCallSeen ==
  ASSUME NEW f, NEW args, WellFormed(f, args), NEW unconditional, NEW direct,
         f \notin {"add_column", "alter_column"}
  PROVE  Sees(ExtractOperation(f, args, unconditional, direct), Meaning(f, args))
<1> DEFINE Static(p) == StaticString(Given(f, args, p)) # ""
           ops == ExtractOperation(f, args, unconditional, direct)
           means == Meaning(f, args)
           id(name) == TableIdentity(args, name, "schema", 0)
<1> SUFFICES Sees(ops, means)
  OBVIOUS
<1>1. CASE f = "create_table"
  <2> DEFINE promised == Static("table_name")
             type == "CreateModel"
             table == StringAt(args, 1, "table_name")
             identity == IF CertainCreate(args, unconditional, direct) THEN id(StringAt(args, 1, "table_name")) ELSE NoIdentity
             detail == {}
  <2>1. promised => ops = <<Operation(type, table, identity, detail)>>
    BY <1>1, StringsGiven DEF ExtractOperation, When, Constraints, CreateTable, OfFirst
  <2>2. means = IF promised THEN {[type |-> type, detail |-> detail]} ELSE {}
    BY <1>1 DEF Meaning, Constraints
  <2> HIDE DEF promised, type, table, identity, detail, ops, means
  <2> QED
    BY <2>1, <2>2, SeesOne, SeesNothing
<1>2. CASE f \in {"create_index", "drop_index"}
  <2> DEFINE promised == f = "drop_index" \/ Static("table_name")
             type == IndexType(f = "create_index", IsTrue(args, "postgresql_concurrently"))
             table == StringAt(args, 2, "table_name")
             identity == id(StringAt(args, 2, "table_name"))
             detail == {}
  <2>1. promised => ops = <<Operation(type, table, identity, detail)>>
    BY <1>2, StringsGiven DEF ExtractOperation, When, Constraints, ChangeIndex, On, OfSecond
  <2>2. means = IF promised THEN {[type |-> type, detail |-> detail]} ELSE {}
    BY <1>2 DEF Meaning, Constraints
  <2> HIDE DEF promised, type, table, identity, detail, ops, means
  <2> QED
    BY <2>1, <2>2, SeesOne, SeesNothing
<1>3. CASE f = "drop_column"
  <2> DEFINE promised == Static("table_name") /\ Static("column_name")
             type == "RemoveField"
             table == StringAt(args, 1, "table_name")
             identity == id(StringAt(args, 1, "table_name"))
             detail == {}
  <2>1. promised => ops = <<Operation(type, table, identity, detail)>>
    BY <1>3, StringsGiven DEF ExtractOperation, When, Constraints, DropColumn, On, OfFirst
  <2>2. means = IF promised THEN {[type |-> type, detail |-> detail]} ELSE {}
    BY <1>3 DEF Meaning, Constraints
  <2> HIDE DEF promised, type, table, identity, detail, ops, means
  <2> QED
    BY <2>1, <2>2, SeesOne, SeesNothing
<1>4. CASE f = "create_unique_constraint"
  <2> DEFINE promised == Static("table_name")
             type == "AddConstraint"
             table == StringAt(args, 2, "table_name")
             identity == id(StringAt(args, 2, "table_name"))
             detail == {"unique"}
  <2>1. promised => ops = <<Operation(type, table, identity, detail)>>
    BY <1>4, StringsGiven DEF ExtractOperation, When, Constraints, AddUnique, On, OfSecond
  <2>2. means = IF promised THEN {[type |-> type, detail |-> detail]} ELSE {}
    BY <1>4 DEF Meaning, Constraints
  <2> HIDE DEF promised, type, table, identity, detail, ops, means
  <2> QED
    BY <2>1, <2>2, SeesOne, SeesNothing
<1>5. CASE f = "rename_table"
  <2> DEFINE promised == Static("old_table_name") /\ Static("new_table_name")
             type == "RenameModel"
             table == StringAt(args, 2, "new_table_name")
             identity == id(StringAt(args, 2, "new_table_name"))
             detail == {StringAt(args, 1, "old_table_name")}
             part == {}
  <2>1. promised => ops = <<Operation(type, table, identity, detail)>>
    BY <1>5, StringsGiven DEF ExtractOperation, When, Constraints, RenameTable, On
  <2>2. means = IF promised THEN {[type |-> type, detail |-> part]} ELSE {}
    BY <1>5 DEF Meaning, Constraints
  <2>3. part \in SUBSET detail
    OBVIOUS
  <2> HIDE DEF promised, type, table, identity, detail, part, ops, means
  <2> QED
    BY <2>1, <2>2, <2>3, ShowsOne, SeesShown, SeesNothing
<1>6. CASE f = "drop_table"
  <2> DEFINE promised == Static("table_name")
             type == "DeleteModel"
             table == StringAt(args, 1, "table_name")
             identity == id(StringAt(args, 1, "table_name"))
             detail == {}
  <2>1. promised => ops = <<Operation(type, table, identity, detail)>>
    BY <1>6, StringsGiven DEF ExtractOperation, When, Constraints, DropTable, On, OfFirst
  <2>2. means = IF promised THEN {[type |-> type, detail |-> detail]} ELSE {}
    BY <1>6 DEF Meaning, Constraints
  <2> HIDE DEF promised, type, table, identity, detail, ops, means
  <2> QED
    BY <2>1, <2>2, SeesOne, SeesNothing
<1>7. CASE f \in Constraints
  <2> DEFINE promised == Static(IF f = "create_foreign_key" THEN "source_table" ELSE "table_name")
             type == "AddConstraint"
             table == StringAt(args, 2, IF f = "create_foreign_key" THEN "source_table" ELSE "table_name")
             identity == TableIdentity(args, StringAt(args, 2, IF f = "create_foreign_key" THEN "source_table" ELSE "table_name"),
                                 IF f = "create_foreign_key" THEN "source_schema" ELSE "schema", 0)
             detail == {f} \cup Flags(IsTrue(args, "postgresql_not_valid"), "not valid")
  <2>1. promised => ops = <<Operation(type, table, identity, detail)>>
    BY <1>7, StringsGiven DEF ExtractOperation, When, Constraints, AddConstraint, OfSecond
  <2>2. means = IF promised THEN {[type |-> type, detail |-> detail]} ELSE {}
    BY <1>7 DEF Meaning, Constraints
  <2> HIDE DEF promised, type, table, identity, detail, ops, means
  <2> QED
    BY <2>1, <2>2, SeesOne, SeesNothing
<1>8. CASE f = "execute"
  <2> DEFINE promised == Static("sqltext")
             type == "ExecuteSql"
             table == ""
             identity == NoIdentity
             detail == {}
  <2>1. promised => ops = <<Operation(type, table, identity, detail)>>
    BY <1>8, StringsGiven DEF ExtractOperation, When, Constraints, Execute
  <2>2. means = IF promised THEN {[type |-> type, detail |-> detail]} ELSE {}
    BY <1>8 DEF Meaning, Constraints
  <2> HIDE DEF promised, type, table, identity, detail, ops, means
  <2> QED
    BY <2>1, <2>2, SeesOne, SeesNothing
<1>9. CASE f \notin DOMAIN Parameters
  <2>1. means = {}
    BY <1>9 DEF Meaning, Parameters, Constraints
  <2> QED
    BY <2>1, SeesNothing
<1> QED
  BY <1>1, <1>2, <1>3, <1>4, <1>5, <1>6, <1>7, <1>8, <1>9 DEF Parameters, Constraints
LEMMA AlterColumnSeen ==
  ASSUME NEW args, WellFormed("alter_column", args)
  PROVE  Sees(AlterColumn(args), Meaning("alter_column", args))
<1> DEFINE f == "alter_column"
           G(p) == Given(f, args, p)
           named == StaticString(G("table_name")) # "" /\ StaticString(G("column_name")) # ""
           null == IF G("nullable").text = "False" THEN {[type |-> "AlterField", detail |-> {"not null"}]} ELSE {}
           typed == IF G("type_") # Missing /\ G("type_").text # "None"
                    THEN {[type |-> "AlterField", detail |-> {"type"}]} ELSE {}
           renamed == IF StaticString(G("new_column_name")) # "" THEN {[type |-> "RenameField", detail |-> {}]} ELSE {}
           table == StringAt(args, 1, "table_name")
           identity == TableIdentity(args, table, "schema", 12)
           type == IF KeywordValue(args, "type_") # Missing THEN KeywordValue(args, "type_") ELSE NthValue(args, 7)
           changes == Flags(IsFalse(args, "nullable") \/ NthValue(args, 3).text = "False", "not null")
                      \cup Flags(type # Missing /\ type.text # "None", "type")
           newName == OrElse(StaticString(KeywordValue(args, "new_column_name")), StaticString(NthValue(args, 6)))
           altered == When(changes # {}, << Operation("AlterField", table, identity, changes) >>)
           moved == When(newName # "", << Operation("RenameField", table, identity, {}) >>)
           ops == AlterColumn(args)
           means == Meaning(f, args)
<1> SUFFICES Sees(ops, means)
  OBVIOUS
<1>1. means = IF ~named THEN {} ELSE null \cup typed \cup renamed
  BY DEF Meaning, Constraints
<1>2. named <=> table # "" /\ StringAt(args, 2, "column_name") # ""
  BY StringsGiven DEF OfFirst
<1>3. named => ops = altered \o moved
  <2> HIDE DEF named, altered, moved
  <2>1. ops = IF table = "" \/ StringAt(args, 2, "column_name") = "" THEN <<>> ELSE altered \o moved
    BY DEF AlterColumn, altered, moved
  <2> QED
    BY <1>2, <2>1
<1>4. /\ f \in DOMAIN Parameters /\ {3, 6, 7} \subseteq DOMAIN Parameters[f]
      /\ Parameters[f][3] = "nullable" /\ Parameters[f][6] = "new_column_name" /\ Parameters[f][7] = "type_"
  BY DEF Parameters
<1>5. ASSUME NEW n \in DOMAIN Parameters[f], NEW p, p = Parameters[f][n]
      PROVE  /\ StringAt(args, n, p) = StaticString(G(p))
             /\ \/ NthValue(args, n) = G(p) /\ KeywordValue(args, p) = Missing
                \/ NthValue(args, n) \in {Missing, Options} /\ G(p) = KeywordValue(args, p)
  <2> HIDE DEF f
  <2> QED BY <1>4, <1>5, ParametersDiffer, ValueGiven DEF f
<1>6. Missing.text = "" /\ StaticString(Missing) = "" /\ StaticString(Options) = ""
  BY DEF Missing, Options, Value, StaticString
<1>7. G("nullable").text = "False" => "not null" \in changes
  <2>1. NthValue(args, 3) = G("nullable") \/ KeywordValue(args, "nullable") = G("nullable")
    BY <1>4, <1>5
  <2> HIDE DEF type
  <2> QED
    BY <2>1 DEF IsFalse, Flags
<1>8. G("type_") # Missing /\ G("type_").text # "None" => "type" \in changes
  <2>1. G("type_") # Missing => type = G("type_")
    BY <1>4, <1>5
  <2> HIDE DEF type
  <2> QED
    BY <2>1 DEF Flags
<1>9. StaticString(G("new_column_name")) # "" => newName # ""
  <2>1. \/ NthValue(args, 6) = G("new_column_name") /\ KeywordValue(args, "new_column_name") = Missing
        \/ KeywordValue(args, "new_column_name") = G("new_column_name")
    BY <1>4, <1>5
  <2> QED
    BY <1>6, <2>1 DEF OrElse
<1> DEFINE change == << Operation("AlterField", table, identity, changes) >>
           move == << Operation("RenameField", table, identity, {}) >>
<1>10. /\ IsList(altered) /\ IsList(moved)
       /\ IsList(change) /\ \A part \in SUBSET changes : Shows(change, "AlterField", part)
       /\ IsList(move) /\ Shows(move, "RenameField", {})
  <2> HIDE DEF changes, table, identity, newName
  <2>1. /\ IsList(change) /\ \A part \in SUBSET changes : Shows(change, "AlterField", part)
        /\ IsList(move) /\ Shows(move, "RenameField", {})
    BY ShowsOne
  <2> HIDE DEF change, move
  <2> QED
    BY <2>1, ListOf DEF change, move
<1>11. ASSUME NEW part \in SUBSET changes, part # {} PROVE Shows(altered \o moved, "AlterField", part)
  <2>1. altered = change
    <3> HIDE DEF changes, table, identity
    <3> QED BY <1>11 DEF When
  <2> HIDE DEF altered, moved, change, changes
  <2> QED
    BY <1>10, <1>11, <2>1, ShowsAmong
<1>12. ASSUME newName # "" PROVE Shows(altered \o moved, "RenameField", {})
  <2>1. moved = move
    <3> HIDE DEF newName, table, identity
    <3> QED BY <1>12 DEF When
  <2> HIDE DEF altered, moved, move
  <2> QED
    BY <1>10, <2>1, ShowsAmong
<1> HIDE DEF altered, moved, changes, newName, named, means, ops
<1>13. Sees(altered \o moved, null)
  <2>1. G("nullable").text = "False" => Shows(altered \o moved, "AlterField", {"not null"})
    BY <1>7, <1>11
  <2> QED
    BY <2>1, SeesShown, SeesNothing
<1>14. Sees(altered \o moved, typed)
  <2>1. G("type_") # Missing /\ G("type_").text # "None" => Shows(altered \o moved, "AlterField", {"type"})
    BY <1>8, <1>11
  <2> QED
    BY <2>1, SeesShown, SeesNothing
<1>15. Sees(altered \o moved, renamed)
  <2>1. StaticString(G("new_column_name")) # "" => Shows(altered \o moved, "RenameField", {})
    BY <1>9, <1>12
  <2> QED
    BY <2>1, SeesShown, SeesNothing
<1>16. Sees(altered \o moved, null \cup typed \cup renamed)
  <2> HIDE DEF null, typed, renamed
  <2> QED BY <1>13, <1>14, <1>15, SeesBoth
<1> HIDE DEF null, typed, renamed
<1> QED
  BY <1>1, <1>3, <1>16, SeesNothing
\* The first value that is no comment is the first value of a list without one.
LEMMA FirstIsNamed ==
  ASSUME NEW a, NEW none, Uncommented(a),
         \E i \in DOMAIN a.positional : /\ StaticString(a.positional[i]) # none
                                       /\ \A j \in 1..i - 1 : a.positional[j] = Comment
  PROVE  StaticString(NthValue(a, 1)) # none
<1> DEFINE n == Len(a.positional)
<1>1. PICK i \in DOMAIN a.positional :
         /\ StaticString(a.positional[i]) # none
         /\ \A j \in 1..i - 1 : a.positional[j] = Comment
  OBVIOUS
<1>2. n \in Nat /\ DOMAIN a.positional = 1..n
  BY DEF Uncommented
<1>3. \A j \in DOMAIN a.positional : a.positional[j] # Comment
  <2>1. Comment.node = "comment"
    BY DEF Comment, Value
  <2>2. \A j \in DOMAIN a.positional : a.positional[j].node # "comment"
    BY DEF Uncommented
  <2> QED
    BY <2>1, <2>2
<1> HIDE DEF n
<1>4. i \in 1..n
  BY <1>2
<1>5. i = 1
  <2>1. SUFFICES ASSUME i # 1 PROVE FALSE
    OBVIOUS
  <2>2. 1 \in 1..i - 1 /\ 1 \in 1..n
    BY <1>2, <1>4, <2>1
  <2> QED
    BY <1>1, <1>2, <1>3, <2>2
<1>6. NthValue(a, 1) = a.positional[1]
  <2>1. 1 <= n
    BY <1>2, <1>4
  <2> QED
    BY <2>1 DEF NthValue, n
<1> QED
  BY <1>1, <1>5, <1>6

LEMMA AddColumnSeen ==
  ASSUME NEW args, WellFormed("add_column", args), ~OptionsInPlace("add_column", args)
  PROVE  Sees(AddColumn(args), Meaning("add_column", args))
<1> DEFINE f == "add_column"
           G(p) == Given(f, args, p)
           column == G("column")
           table == StringAt(args, 1, "table_name")
           found == IF NthValue(args, 2) # Missing THEN NthValue(args, 2) ELSE KeywordValue(args, "column")
           flags == ColumnFlags(column.args)
           shown == flags \cap {"relation", "not null", "default"}
           unique == IF IsTrue(column.args, "unique") THEN {[type |-> "AddConstraint", detail |-> {"unique"}]} ELSE {}
           index == IF IsTrue(column.args, "index") THEN {[type |-> "AddIndex", detail |-> {}]} ELSE {}
           field == {[type |-> "AddField", detail |-> shown]}
           identity == TableIdentity(args, table, "schema", 0)
           added == << Operation("AddField", table, identity, flags) >>
           constraint == << Operation("AddConstraint", table, identity, {"unique"}) >>
           indexed == << Operation("AddIndex", table, identity, {}) >>
           second == When("unique" \in flags, constraint)
           third == When("index" \in flags, indexed)
           ops == AddColumn(args)
           means == Meaning(f, args)
           promised == StaticString(G("table_name")) # "" /\ NamesColumn(column)
<1> SUFFICES Sees(ops, means)
  OBVIOUS
<1>1. means = IF promised THEN field \cup unique \cup index ELSE {}
  BY DEF Meaning, Constraints
<1>2. StaticString(G("table_name")) = table
  BY StringsGiven DEF OfFirst
<1>3. /\ f \in DOMAIN Parameters /\ 2 \in DOMAIN Parameters[f] /\ Parameters[f][2] = "column"
  BY DEF Parameters
<1>4. /\ \/ NthValue(args, 2) = column /\ KeywordValue(args, "column") = Missing
         \/ NthValue(args, 2) = Missing /\ column = KeywordValue(args, "column")
      /\ column \in ArgumentValues(args) \cup {Missing}
  <2>1. NthValue(args, 2) # Options
    BY DEF OptionsInPlace
  <2> HIDE DEF f
  <2> QED BY <1>3, <2>1, ParametersDiffer, ValueGiven DEF f
<1>5. ASSUME promised PROVE found = column /\ IsColumn(column)
  <2>1. Missing.node = "missing" /\ StaticString(Missing) = ""
    BY DEF Missing, Value, StaticString
  <2>2. column # Missing /\ column.node = "call" /\ column.text \in Constructors
    BY <1>5, <2>1 DEF NamesColumn
  <2>3. found = column
    BY <1>4, <2>2
  <2>4. Uncommented(column.args)
    <3>1. column \in ArgumentValues(args)
      BY <1>4, <2>2
    <3> HIDE DEF column
    <3> QED BY <2>2, <3>1 DEF WellFormed
  <2>5. \E i \in DOMAIN column.args.positional :
          /\ StaticString(column.args.positional[i]) # ""
          /\ \A j \in 1..i - 1 : column.args.positional[j] = Comment
    BY <1>5 DEF NamesColumn
  <2>7. StaticString(NthValue(column.args, 1)) # ""
    <3> HIDE DEF column
    <3> QED BY <2>4, <2>5, FirstIsNamed
  <2> HIDE DEF column, found
  <2> QED
    BY <2>2, <2>3, <2>7 DEF IsColumn
<1>6. ASSUME promised PROVE ops = added \o second \o third
  <2>1. ops = IF table = "" \/ ~IsColumn(found) THEN <<>>
              ELSE LET fs == ColumnFlags(found.args) IN
                   << Operation("AddField", table, identity, fs) >>
                   \o When("unique" \in fs, constraint) \o When("index" \in fs, indexed)
    BY DEF AddColumn, On
  <2>2. table # ""
    BY <1>2, <1>6
  <2> HIDE DEF found, column, table, identity, constraint, indexed, promised
  <2> QED
    BY <1>5, <1>6, <2>1, <2>2
<1>7. shown \subseteq flags
  OBVIOUS
<1>8. /\ IsTrue(column.args, "unique") => "unique" \in flags
      /\ IsTrue(column.args, "index") => "index" \in flags
  <2> HIDE DEF column
  <2> QED BY DEF ColumnFlags, Flags
<1> HIDE DEF flags, column, table, identity, promised
<1>9. /\ IsList(added) /\ Shows(added, "AddField", shown)
      /\ IsList(constraint) /\ Shows(constraint, "AddConstraint", {"unique"})
      /\ IsList(indexed) /\ Shows(indexed, "AddIndex", {})
  <2> HIDE DEF shown
  <2> QED BY <1>7, ShowsOne
<1> HIDE DEF added, constraint, indexed, shown
<1>10. IsList(second) /\ IsList(third) /\ IsList(added \o second)
  <2>1. IsList(second) /\ IsList(third)
    BY <1>9, ListOf
  <2> HIDE DEF second, third
  <2> QED
    BY <1>9, <2>1, ListOf
<1>11. Shows(added \o second \o third, "AddField", shown)
  <2> HIDE DEF second, third
  <2> QED BY <1>9, <1>10, ShowsAmong
<1>12. "unique" \in flags => Shows(added \o second \o third, "AddConstraint", {"unique"})
  <2>1. "unique" \in flags => second = constraint
    BY DEF When
  <2> HIDE DEF second, third
  <2>2. "unique" \in flags => Shows(added \o second, "AddConstraint", {"unique"})
    BY <1>9, <1>10, <2>1, ShowsAmong
  <2> QED
    BY <1>10, <2>2, ShowsAmong
<1>13. "index" \in flags => Shows(added \o second \o third, "AddIndex", {})
  <2>1. "index" \in flags => third = indexed
    BY DEF When
  <2> HIDE DEF second, third
  <2> QED
    BY <1>9, <1>10, <2>1, ShowsAmong
<1> DEFINE all == added \o second \o third
<1> HIDE DEF all, second, third, means, ops
<1>14. Sees(all, field)
  BY <1>11, SeesShown DEF all
<1>15. Sees(all, unique)
  BY <1>8, <1>12, SeesShown, SeesNothing DEF all
<1>16. Sees(all, index)
  BY <1>8, <1>13, SeesShown, SeesNothing DEF all
<1>17. Sees(all, field \cup unique \cup index)
  <2> HIDE DEF field, unique, index
  <2> QED BY <1>14, <1>15, <1>16, SeesBoth
<1> HIDE DEF field, unique, index
<1> QED
  BY <1>1, <1>6, <1>17, SeesNothing DEF all

LEMMA CallSeen ==
  ASSUME NEW f, NEW args, WellFormed(f, args), ~OptionsInPlace(f, args), NEW unconditional, NEW direct
  PROVE  Sees(ExtractOperation(f, args, unconditional, direct), Meaning(f, args))
<1>1. CASE f = "alter_column"
  <2>1. ExtractOperation(f, args, unconditional, direct) = AlterColumn(args)
    BY <1>1 DEF ExtractOperation, Constraints
  <2> QED
    BY <1>1, <2>1, AlterColumnSeen
<1>2. CASE f = "add_column"
  <2>1. ExtractOperation(f, args, unconditional, direct) = AddColumn(args)
    BY <1>2 DEF ExtractOperation, Constraints
  <2> QED
    BY <1>2, <2>1, AddColumnSeen
<1>3. CASE f \notin {"add_column", "alter_column"}
  BY <1>3, SimpleCallSeen
<1> QED
  BY <1>1, <1>2, <1>3

LEMMA StepSeen ==
  ASSUME \A call \in CallReadings : WellFormed(call.f, call.args),
         \A call \in Calls \cup CallReadings : ~OptionsInPlace(call.f, call.args),
         framework = "alembic" => SupportedSeen, [Next]_vars
  PROVE  (framework = "alembic" => SupportedSeen)'
<1>1. framework' = framework
  BY DEF Next, vars, fixed, EnterBlock, EnterWith, LeaveBlock, Bind, CallOp, ReadCall, ExecuteStatement, ReadStatement,
         BindOtherwise, CallHelper, FollowHelper
<1>2. SUFFICES ASSUME framework = "alembic" PROVE SupportedSeen'
  BY <1>1
<1>3. Quiet.seen
  BY DEF Quiet
<1>4. ASSUME last' = Quiet PROVE SupportedSeen'
  BY <1>3, <1>4 DEF SupportedSeen
<1>5. ASSUME NEW call, WellFormed(call.f, call.args), ~OptionsInPlace(call.f, call.args), NEW unconditional, NEW direct,
             last'.seen = Sees(ExtractOperation(call.f, call.args, unconditional, direct), Meaning(call.f, call.args))
      PROVE  SupportedSeen'
  BY <1>5, CallSeen DEF SupportedSeen
<1>6. CASE \E names, others \in SUBSET Variables : EnterBlock(names, others)
  BY <1>4, <1>6 DEF EnterBlock
<1>7. CASE \E item \in {Canonical, "other"} \cup Variables, names \in SUBSET Variables : EnterWith(item, names)
  BY <1>4, <1>7 DEF EnterWith
<1>8. CASE LeaveBlock
  BY <1>4, <1>8 DEF LeaveBlock
<1>9. CASE \E v \in Variables, value \in {"context", "other"} : Bind(v, value) \/ BindOtherwise(v, value)
  BY <1>4, <1>9 DEF Bind, BindOtherwise
<1>10. ASSUME NEW call \in Calls, NEW shape \in {"statement", "part"}, CallOp(call, shape) PROVE SupportedSeen'
  <2> DEFINE direct == shape = "statement"
             certain == Top.unconditional
  <2>1. WellFormed(call.f, call.args) /\ ~OptionsInPlace(call.f, call.args)
    BY CallsAssumption
  <2>2. last'.seen = Sees(ExtractOperation(call.f, call.args, certain, direct), Meaning(call.f, call.args))
    BY <1>10 DEF CallOp
  <2> HIDE DEF direct, certain
  <2> QED
    BY <1>5, <2>1, <2>2
<1>11. ASSUME NEW call \in CallReadings, ReadCall(call) PROVE SupportedSeen'
  <2> DEFINE certain == TRUE
  <2>1. WellFormed(call.f, call.args) /\ ~OptionsInPlace(call.f, call.args)
    OBVIOUS
  <2>2. last'.seen = Sees(ExtractOperation(call.f, call.args, certain, certain), Meaning(call.f, call.args))
    BY <1>11 DEF ReadCall, Quiet
  <2> HIDE DEF certain
  <2> QED
    BY <1>5, <2>1, <2>2
<1>12. framework # "aerich"
  BY <1>2
<1>13. CASE \E s \in Statements : ExecuteStatement(s)
  BY <1>12, <1>13 DEF ExecuteStatement
<1>14. CASE \E s \in Readings : ReadStatement(s)
  BY <1>12, <1>14 DEF ReadStatement
<1>15. CASE CallHelper
  BY <1>4, <1>15 DEF CallHelper
<1>16. CASE FollowHelper
  <2>1. \E s, ops, runs, isSpared : Runs(s, ops, runs, isSpared)
    BY <1>16 DEF FollowHelper
  <2> QED
    BY <2>1 DEF Runs, Quiet, SupportedSeen
<1>17. CASE UNCHANGED vars
  BY <1>2, <1>17 DEF vars, SupportedSeen
<1> QED
  BY <1>6, <1>7, <1>8, <1>9, <1>10, <1>11, <1>13, <1>14, <1>15, <1>16, <1>17 DEF Next

(***************************************************************************)
(* SupportedSeen, of Alembic revisions: whatever arguments a call of op    *)
(* has, in place or by keyword, with `**options` after them or without,    *)
(* the operations it becomes show everything the call means to Alembic.    *)
(* Left out are calls with a comment among their arguments and             *)
(* `add_column(table, column=c, **options)`, which PlacesAside is about.   *)
(***************************************************************************)
THEOREM SupportedCallsSeen ==
  ASSUME \A call \in CallReadings : WellFormed(call.f, call.args),
         \A call \in Calls \cup CallReadings : ~OptionsInPlace(call.f, call.args)
  PROVE  Spec => [](framework = "alembic" => SupportedSeen)
<1> DEFINE Seen == framework = "alembic" => SupportedSeen
<1>1. Init => Seen
  BY DEF Init, SupportedSeen, Quiet
<1>2. Seen /\ [Next]_vars => Seen'
  BY StepSeen
<1> QED
  BY <1>1, <1>2, PTL DEF Spec
=============================================================================
