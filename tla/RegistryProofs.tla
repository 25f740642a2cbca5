--------------------------- MODULE RegistryProofs ---------------------------
(***************************************************************************)
(* For all migrations and configurations, of every length and nesting:     *)
(* what harms a table in use is reported or silenced where it stands, and  *)
(* what is reported does harm.                                             *)
(***************************************************************************)
EXTENDS Registry, WellFoundedInduction, TLAPS, SequenceTheorems

Rules == {RuleIds[i] : i \in 1..16}

\* A list of operations of one of the migrations, of either pass.
Lists == {m.operations : m \in Migrations} \cup {m.downgrade : m \in Migrations}

LEMMA ListsNest ==
  ASSUME NEW ops \in Lists
  PROVE  /\ Len(ops) \in Nat /\ DOMAIN ops = 1..Len(ops)
         /\ \A i \in DOMAIN ops :
               /\ ops[i].inner \in Nat /\ i + ops[i].inner <= Len(ops)
               /\ ops[i].type # "SeparateDatabaseAndState" => ops[i].inner = 0
               /\ \A j \in i + 1..i + ops[i].inner : j + ops[j].inner <= i + ops[i].inner
               /\ ops[i].span[1] \in Nat \ {0} /\ ops[i].span[2] \in Nat
BY ListsAssumption DEF ListsAssumption, Lists

-----------------------------------------------------------------------------
(* Induction, said of sets of numbers.                                     *)

\* A set that holds 0 and with every number the next holds all of them.
LEMMA Induction ==
  ASSUME NEW S \in SUBSET Nat, 0 \in S, \A n \in S : n + 1 \in S
  PROVE  S = Nat
<1> DEFINE less == {ss \in Nat \X Nat : ss[1] < ss[2]}
<1>1. SUFFICES ASSUME Nat \ S # {} PROVE FALSE
  OBVIOUS
<1>2. IsWellFoundedOn(less, Nat)
  BY NatLessThanWellFounded DEF OpToRel
<1>3. PICK x \in Nat \ S : \A y \in Nat \ S : ~(<<y, x>> \in less)
  <2> HIDE DEF less
  <2>1. Nat \ S \subseteq Nat
    OBVIOUS
  <2> QED
    BY <1>1, <1>2, <2>1, WFMin
<1>4. x - 1 \in Nat \ S
  <2>1. x - 1 \in Nat /\ (x - 1) + 1 = x
    BY <1>3
  <2> QED
    BY <1>3, <2>1
<1>5. <<x - 1, x>> \in Nat \X Nat /\ <<x - 1, x>>[1] < <<x - 1, x>>[2]
  BY <1>3, <1>4
<1> QED
  BY <1>3, <1>4, <1>5

-----------------------------------------------------------------------------
(* The tables that are empty.                                              *)

\* The recursive function of EmptyAt is one.
LEMMA EmptyStepwise ==
  ASSUME NEW ops, Len(ops) \in Nat
  PROVE  /\ EmptyAt(ops)[1] = {}
         /\ \A i \in 1..Len(ops) : EmptyAt(ops)[i + 1] = Emptied(ops[i], EmptyAt(ops)[i])
<1> DEFINE Fits(h, n) == h = [i \in 0..n |-> IF i = 0 THEN {} ELSE Emptied(ops[i], h[i - 1])]
           S == {n \in Nat : \E h : Fits(h, n)}
<1>1. 0 \in S
  <2>1. Fits([i \in 0..0 |-> {}], 0)
    OBVIOUS
  <2> QED
    BY <2>1
<1>2. ASSUME NEW n \in S PROVE n + 1 \in S
  <2>1. PICK h : Fits(h, n)
    OBVIOUS
  <2> DEFINE longer == [i \in 0..(n + 1) |-> IF i = 0 THEN {} ELSE Emptied(ops[i], h[i - 1])]
  <2>2. \A i \in 0..n : h[i] = IF i = 0 THEN {} ELSE Emptied(ops[i], h[i - 1])
    <3> HIDE DEF longer
    <3> QED BY <2>1
  <2>3. \A i \in 0..n : longer[i] = h[i]
    <3>1. \A i \in 0..n : i \in 0..(n + 1)
      OBVIOUS
    <3> QED BY <2>2, <3>1
  <2>4. \A i \in 0..(n + 1) : i # 0 => h[i - 1] = longer[i - 1]
    <3>1. \A i \in 0..(n + 1) : i # 0 => i - 1 \in 0..n
      OBVIOUS
    <3> HIDE DEF longer
    <3> QED BY <2>3, <3>1
  <2>5. Fits(longer, n + 1)
    BY <2>4
  <2> QED
    <3> HIDE DEF Fits, longer
    <3> QED BY <2>5
<1>3. \E h : Fits(h, Len(ops))
  <2> HIDE DEF Fits
  <2>1. S = Nat
    BY <1>1, <1>2, Induction
  <2> QED
    BY <2>1
<1> DEFINE empty == CHOOSE h : Fits(h, Len(ops))
<1>4. Fits(empty, Len(ops))
  <2> HIDE DEF Fits
  <2> QED
    BY <1>3
<1>5. EmptyAt(ops) = [i \in 1..Len(ops) + 1 |-> empty[i - 1]]
  BY DEF EmptyAt
<1>6. \A i \in 0..Len(ops) : empty[i] = IF i = 0 THEN {} ELSE Emptied(ops[i], empty[i - 1])
  <2> HIDE DEF empty
  <2> QED
    BY <1>4
<1>7. 0 \in 0..Len(ops) /\ \A i \in 1..Len(ops) : i \in 0..Len(ops) /\ i # 0
  OBVIOUS
<1> HIDE DEF empty, Fits
<1> QED
  BY <1>5, <1>6, <1>7

LEMMA EmptyHaveNames ==
  ASSUME NEW ops \in Lists, NEW i \in 1..Len(ops) + 1
  PROVE  NoName \notin EmptyAt(ops)[i]
<1> DEFINE S == {n \in Nat : n <= Len(ops) => NoName \notin EmptyAt(ops)[n + 1]}
<1>1. Len(ops) \in Nat /\ DOMAIN ops = 1..Len(ops)
  BY ListsNest
<1>2. 0 \in S
  BY <1>1, EmptyStepwise
<1>3. ASSUME NEW n \in S PROVE n + 1 \in S
  <2> SUFFICES ASSUME n + 1 <= Len(ops) PROVE NoName \notin EmptyAt(ops)[n + 2]
    OBVIOUS
  <2>1. n + 1 \in 1..Len(ops) /\ n <= Len(ops) /\ n + 1 + 1 = n + 2
    BY <1>1
  <2>2. NoName \notin EmptyAt(ops)[n + 1]
    BY <2>1
  <2>3. EmptyAt(ops)[n + 2] = Emptied(ops[n + 1], EmptyAt(ops)[n + 1])
    BY <1>1, <2>1, EmptyStepwise
  <2>4. ops[n + 1].type \in {"CreateModel", "RenameModel", "DeleteModel"} => ops[n + 1].table # NoName
    BY <1>1, <2>1, DatabaseAssumption DEF DatabaseAssumption, Lists
  <2> QED
    BY <2>2, <2>3, <2>4 DEF Emptied
<1>4. S = Nat
  BY <1>2, <1>3, Induction
<1>5. i - 1 \in Nat /\ i - 1 <= Len(ops) /\ i - 1 + 1 = i
  BY <1>1
<1> QED
  BY <1>4, <1>5
-----------------------------------------------------------------------------
(* What a harmful operation is reported by, and what a report is about.    *)

LEMMA RulesAre ==
  Rules = {"R001", "R002", "R003", "R004", "R005", "R006", "R010", "R011", "R012", "R013", "R014",
           "R015", "R016", "R017", "R018", "R019"}
BY DEF Rules, RuleIds

LEMMA FiresIs ==
  ASSUME NEW op, NEW c
  PROVE  /\ Fires("R001", op, c) = R001(op, c) /\ Fires("R002", op, c) = R002(op, c)
         /\ Fires("R003", op, c) = R003(op, c) /\ Fires("R004", op, c) = R004(op, c)
         /\ Fires("R005", op, c) = R005(op, c) /\ Fires("R006", op, c) = R006(op, c)
         /\ Fires("R010", op, c) = R010(op, c) /\ Fires("R011", op, c) = R011(op, c)
         /\ Fires("R012", op, c) = R012(op, c) /\ Fires("R013", op, c) = R013(op, c)
         /\ Fires("R015", op, c) = R015(op, c) /\ Fires("R016", op, c) = R016(op, c)
         /\ Fires("R017", op, c) = R017(op, c) /\ Fires("R018", op, c) = R018(op, c)
         /\ Fires("R019", op, c) = R019(op, c) /\ ~Fires("R014", op, c)
BY DEF Fires

\* A wrapper does no harm of its own, and no rule fires for it.
LEMMA WrapperIsHarmless ==
  ASSUME NEW op, op.type = "SeparateDatabaseAndState", NEW id \in Rules, NEW c
  PROVE  ~Fires(id, op, c)
BY RulesAre, FiresIs DEF R001, R002, R003, R004, R005, R006, R010, R011, R012, R013, R015, R016, R017, R018, R019,
                         IsSql, IsConcurrent, RequiresNonAtomic

\* What the extraction guarantees of an operation of the migration.
Extracted(op) ==
    /\ migration.framework \in {"django", "alembic", "aerich"}
    /\ migration.framework # "django" =>
          /\ ~(op.type \in {"AlterUniqueTogether", "AlterIndexTogether"} /\ op.adds)
          /\ "relation" \in op.field => "constraint" \in op.field
    /\ migration.framework = "django" => ~op.notValid

LEMMA AnyHarmIsReported ==
  ASSUME NEW op, Extracted(op), NEW wrapped, NEW h \in AnyHarm(op, wrapped)
  PROVE  \E id \in About(h) \cap Rules : (id = "R005" => ~wrapped) /\ \A c : Fires(id, op, c)
<1> DEFINE Right(id) == (id = "R005" => ~wrapped) /\ \A c : Fires(id, op, c)
<1>1. CASE h = "raw index"
  <2>1. Right("R003")
    BY <1>1, FiresIs DEF AnyHarm, R003, CreatesIndex
  <2> QED BY <1>1, <2>1, RulesAre DEF About
<1>2. CASE h = "transaction"
  <2>1. Right("R004")
    BY <1>2, FiresIs DEF AnyHarm, R004, InTransaction, Extracted
  <2> QED BY <1>2, <2>1, RulesAre DEF About
<1>3. CASE h = "column goes"
  <2>1. Right("R005")
    BY <1>3, FiresIs DEF AnyHarm, R005
  <2> QED BY <1>3, <2>1, RulesAre DEF About
<1>4. CASE h = "column moves"
  <2>1. Right("R011")
    BY <1>4, FiresIs DEF AnyHarm, R011
  <2> QED BY <1>4, <2>1, RulesAre DEF About
<1>5. CASE h = "irreversible"
  <2>1. Right("R012") \/ Right("R013")
    BY <1>5, FiresIs DEF AnyHarm, R012, R013
  <2> QED BY <1>5, <2>1, RulesAre DEF About
<1>6. h \in {"raw index", "transaction", "column goes", "column moves", "irreversible"}
  BY DEF AnyHarm
<1> QED
  BY <1>1, <1>2, <1>3, <1>4, <1>5, <1>6

LEMMA TableHarmIsReported ==
  ASSUME NEW op, Extracted(op), NEW empty, Acted(op) \notin empty,
         op.type = "RenameModel" => op.table \notin empty,
         NEW h \in TableHarm(op)
  PROVE  \E id \in About(h) \cap Rules : id # "R005" /\ \A c \in SUBSET empty : Fires(id, op, Before(op, c))
<1> DEFINE Right(id) == id # "R005" /\ \A c \in SUBSET empty : Fires(id, op, Before(op, c))
<1>1. ASSUME NEW c \in SUBSET empty, op.type # "CreateModel" PROVE ~CreatedHere(op, Before(op, c))
  BY <1>1 DEF CreatedHere, Before, Acted
<1>2. CASE h = "blocks writes"
  <2>1. op.type # "CreateModel"
    BY <1>2 DEF TableHarm, ColumnIndex
  <2>2. op.type = "AddIndex" => Right("R001")
    BY <1>1, FiresIs DEF R001
  <2>3. op.type = "RemoveIndex" => Right("R016")
    BY <1>1, FiresIs DEF R016
  <2>4. op.type = "AddConstraint" /\ op.constraint = "unique" => Right("R002")
    BY <1>1, FiresIs DEF R002
  <2>5. op.type = "AddConstraint" /\ op.constraint = "exclusion" => Right("R017")
    BY <1>1, FiresIs DEF R017
  <2>6. op.type \in {"AlterUniqueTogether", "AlterIndexTogether"} /\ op.adds => Right("R018")
    BY <1>1, FiresIs DEF R018, Extracted
  <2>7. ColumnIndex(op) => Right("R018") \/ Right("R006")
    <3>1. ColumnIndex(op) /\ {"index", "unique"} \cap op.field # {} => Right("R018")
      BY <1>1, FiresIs DEF R018, ColumnIndex
    <3>2. op.type = "AddField" /\ "relation" \in op.field /\ ~({"foreign key", "no index"} \subseteq op.field)
          => Right("R006")
      BY <1>1, FiresIs DEF R006
    <3> QED
      BY <3>1, <3>2 DEF ColumnIndex
  <2>8. \/ op.type \in {"AddIndex", "RemoveIndex"} \/ ColumnIndex(op)
        \/ op.type = "AddConstraint" /\ op.constraint \in {"unique", "exclusion"}
        \/ op.type \in {"AlterUniqueTogether", "AlterIndexTogether"} /\ op.adds
    BY <1>2 DEF TableHarm
  <2>9. \E id \in {"R001", "R016", "R002", "R017", "R018", "R006"} : Right(id)
    BY <2>2, <2>3, <2>4, <2>5, <2>6, <2>7, <2>8
  <2> HIDE DEF Right
  <2>10. {"R001", "R016", "R002", "R017", "R018", "R006"} \subseteq About(h) \cap Rules
    BY <1>2, RulesAre DEF About
  <2> QED BY <2>9, <2>10 DEF Right
<1>3. CASE h = "scans rows"
  <2>1. op.type = "AddConstraint" /\ op.constraint \in {"check", "foreign key"} /\ ~op.notValid => Right("R017")
    BY <1>1, FiresIs DEF R017
  <2>2. op.type = "AddField" /\ {"relation", "constraint"} \subseteq op.field => Right("R006")
    BY <1>1, FiresIs DEF R006
  <2>3. op.type = "AlterField" /\ "nullable" \notin op.field => Right("R015")
    BY FiresIs DEF R015
  <2>4. \E id \in {"R017", "R006", "R015"} : Right(id)
    BY <1>3, <2>1, <2>2, <2>3 DEF TableHarm
  <2> HIDE DEF Right
  <2>5. {"R017", "R006", "R015"} \subseteq About(h) \cap Rules
    BY <1>3, RulesAre DEF About
  <2> QED BY <2>4, <2>5 DEF Right
<1>4. CASE h = "rewrites"
  <2>1. op.type = "AddField" /\ {"nullable", "default", "db default"} \cap op.field = {} => Right("R010")
    BY <1>1, FiresIs DEF R010
  <2>2. op.type = "AlterField" /\ "type" \in op.field => Right("R015")
    BY FiresIs DEF R015
  <2>3. \E id \in {"R010", "R015"} : Right(id)
    BY <1>4, <2>1, <2>2 DEF TableHarm
  <2> HIDE DEF Right
  <2>4. {"R010", "R015"} \subseteq About(h) \cap Rules
    BY <1>4, RulesAre DEF About
  <2> QED BY <2>3, <2>4 DEF Right
<1>5. CASE h = "table moves"
  <2>1. op.type \in {"RenameModel", "AlterModelTable", "DeleteModel"}
    BY <1>5 DEF TableHarm
  <2>2. Right("R019")
    BY <1>1, <2>1, FiresIs DEF R019
  <2> HIDE DEF Right
  <2>3. "R019" \in About(h) \cap Rules
    BY <1>5, RulesAre DEF About
  <2> QED BY <2>2, <2>3 DEF Right
<1>6. h \in {"blocks writes", "scans rows", "rewrites", "table moves"}
  BY DEF TableHarm
<1> QED
  BY <1>2, <1>3, <1>4, <1>5, <1>6
\* What the rule finds in the operation does harm: to a table in use, or to one
\* that was rebuilt by raw SQL.
LEMMA ReportIsHarm ==
  ASSUME NEW op, Extracted(op), NEW wrapped, NEW id \in Rules \ {"R011", "R014", "R015"},
         id = "R005" => ~wrapped, NEW c, NoName \notin c,
         op.type = "RenameModel" => op.table # NoName, Fires(id, op, Before(op, c))
  PROVE  \/ \E h \in AnyHarm(op, wrapped) : id \in About(h)
         \/ Acted(op) \notin c /\ \E h \in TableHarm(op) : id \in About(h)
<1>1. CASE id = "R003"
  <2>1. "raw index" \in AnyHarm(op, wrapped)
    BY <1>1, FiresIs DEF R003, AnyHarm, CreatesIndex
  <2> QED BY <1>1, <2>1 DEF About
<1>2. CASE id = "R004"
  <2>1. "transaction" \in AnyHarm(op, wrapped)
    BY <1>2, FiresIs DEF R004, AnyHarm, InTransaction, Extracted
  <2> QED BY <1>2, <2>1 DEF About
<1>3. CASE id = "R005"
  <2>1. "column goes" \in AnyHarm(op, wrapped)
    BY <1>3, FiresIs DEF R005, AnyHarm
  <2> QED BY <1>3, <2>1 DEF About
<1>4. CASE id \in {"R012", "R013"}
  <2>1. "irreversible" \in AnyHarm(op, wrapped)
    BY <1>4, FiresIs DEF R012, R013, AnyHarm
  <2> QED BY <1>4, <2>1 DEF About
<1>5. ASSUME ~CreatedHere(op, Before(op, c)), op.type # "CreateModel" PROVE Acted(op) \notin c
  <2>1. CASE op.type = "RenameModel"
    BY <1>5, <2>1 DEF CreatedHere, Before, Acted
  <2>2. CASE op.type # "RenameModel"
    BY <1>5, <2>2 DEF CreatedHere, Before, Acted
  <2> QED BY <2>1, <2>2
<1>6. CASE id \in {"R001", "R002", "R016"}
  <2>1. ~CreatedHere(op, Before(op, c)) /\ op.type # "CreateModel" /\ "blocks writes" \in TableHarm(op)
    BY <1>6, FiresIs DEF R001, R002, R016, TableHarm
  <2> QED BY <1>5, <1>6, <2>1 DEF About
<1>7. CASE id = "R006"
  <2>1. ~CreatedHere(op, Before(op, c)) /\ op.type = "AddField" /\ "relation" \in op.field
    BY <1>7, FiresIs DEF R006
  <2>2. CASE "constraint" \in op.field
    <3>1. "scans rows" \in TableHarm(op)
      BY <2>1, <2>2 DEF TableHarm
    <3> QED BY <1>5, <1>7, <2>1, <3>1 DEF About
  <2>3. CASE "constraint" \notin op.field
    <3>1. ColumnIndex(op)
      BY <1>7, <2>1, <2>3, FiresIs DEF R006, ColumnIndex, Extracted
    <3>2. "blocks writes" \in TableHarm(op)
      BY <3>1 DEF TableHarm
    <3> QED BY <1>5, <1>7, <2>1, <3>2 DEF About
  <2> QED BY <2>2, <2>3
<1>8. CASE id = "R010"
  <2>1. ~CreatedHere(op, Before(op, c)) /\ op.type # "CreateModel" /\ "rewrites" \in TableHarm(op)
    BY <1>8, FiresIs DEF R010, TableHarm
  <2> QED BY <1>5, <1>8, <2>1 DEF About
<1>9. CASE id = "R017"
  <2>1. ~CreatedHere(op, Before(op, c)) /\ op.type = "AddConstraint"
    BY <1>9, FiresIs DEF R017
  <2>2. "blocks writes" \in TableHarm(op) \/ "scans rows" \in TableHarm(op)
    BY <1>9, FiresIs DEF R017, TableHarm, Extracted, SqlFramework
  <2> QED BY <1>5, <1>9, <2>1, <2>2 DEF About
<1>10. CASE id = "R018"
  <2>1. ~CreatedHere(op, Before(op, c)) /\ op.type # "CreateModel"
    BY <1>10, FiresIs DEF R018
  <2>2. "blocks writes" \in TableHarm(op)
    BY <1>10, FiresIs DEF R018, TableHarm, ColumnIndex
  <2> QED BY <1>5, <1>10, <2>1, <2>2 DEF About
<1>11. CASE id = "R019"
  <2>1. ~CreatedHere(op, Before(op, c)) /\ op.type # "CreateModel" /\ "table moves" \in TableHarm(op)
    BY <1>11, FiresIs DEF R019, TableHarm
  <2> QED BY <1>5, <1>11, <2>1 DEF About
<1> QED
  BY <1>1, <1>2, <1>3, <1>4, <1>6, <1>7, <1>8, <1>9, <1>10, <1>11, RulesAre
-----------------------------------------------------------------------------
(* The inductive invariant.                                                *)

List == Operations(pass)

\* Every rule sees the operation, whatever is known to be created, unless it
\* looks at the top level only.
Catches(id, ops, i) ==
    /\ id = "R005" => ~Wrapped(ops, i)
    /\ \A c \in SUBSET EmptyAt(ops)[i] : Fires(id, ops[i], Before(ops[i], c))

\* Where the operation stands, the rule has reported it or is silenced.
Covered(id, p, i) ==
    LET span == SpanOf(id, Operations(p)[i])
    IN  \/ \E d \in diagnostics : d.rule = id /\ d.span = span
        \/ ~Enabled(id)
        \/ \E c \in migration.ignores : c.line \in span[1] - 1..span[2] /\ id \in c.rules
Judged(p, id) == \A i \in DOMAIN Operations(p) : Catches(id, Operations(p), i) => Covered(id, p, i)

\* An operation the rule may report: one that does harm.
Harms(id, p, i) ==
    LET ops == Operations(p)
    IN  \E h \in Harm(ops, i) \cup (IF \E j \in 1..i - 1 : ops[j].type = "ExecuteSql" THEN TableHarm(ops[i]) ELSE {}) :
           id \in About(h)
Justified(id, span) ==
    \/ id \in {"R011", "R014", "R015"}
    \/ \E p \in Passes : \E i \in DOMAIN Operations(p) : span = SpanOf(id, Operations(p)[i]) /\ Harms(id, p, i)

\* The lists being visited follow one another, and each holds what its
\* operations wrap.
Nested(s, ops) ==
    /\ s \in Seq([at : Nat, last : Nat])
    /\ \A k \in 1..Len(s) :
          /\ s[k].at \in 1..s[k].last + 1 /\ s[k].last <= Len(ops)
          /\ \A j \in s[k].at..s[k].last : j + ops[j].inner <= s[k].last
    /\ \A k \in 1..Len(s) - 1 : s[k + 1].last + 1 = s[k].at
    /\ Len(s) > 0 => s[1].last = Len(ops)

\* The first operation the walk has not come to, or gone past.
At(s, ops) == IF Len(s) = 0 THEN Len(ops) + 1 ELSE s[Len(s)].at
Cursor == At(stack, List)

FlatOK == Rule = "R005" => Len(stack) <= 1 /\ \A j \in 1..Cursor - 1 : j + List[j].inner < Cursor

\* What the walk knows to be created is empty; it is all that is, as long as
\* no raw SQL ran.
CreatedOK ==
    /\ NoName \notin created
    /\ Rule # "R005" =>
          /\ created \subseteq EmptyAt(List)[Cursor]
          /\ (\A j \in 1..Cursor - 1 : List[j].type # "ExecuteSql") => created = EmptyAt(List)[Cursor]

FoundOK ==
    /\ \A r \in found : /\ r = [rule |-> Rule, span |-> r.span, severity |-> r.severity]
                        /\ Justified(Rule, r.span)
    /\ \A i \in 1..Cursor - 1 : Catches(Rule, List, i) =>
          \E r \in found : r.rule = Rule /\ r.span = SpanOf(Rule, List[i])

Fresh == stack = <<Whole(pass)>> /\ created = {} /\ found = {}

WalkOK ==
    /\ Nested(stack, List)
    /\ todo # <<>> => FlatOK /\ CreatedOK /\ FoundOK
    /\ todo = <<>> \/ ~Enabled(Rule) => Fresh

DiagnosticsOK ==
    /\ \A d \in diagnostics : /\ Enabled(d.rule) /\ (config.strict => d.severity = "error")
                              /\ Justified(d.rule, d.span)
    /\ pass # "done" => \A id \in Rules : (\A k \in 1..Len(todo) : todo[k] # id) => Judged(pass, id)
    /\ pass # "upgrade" => \A id \in Rules : Judged("upgrade", id)
    /\ pass = "done" => \A id \in Rules : Judged("downgrade", id)

Base ==
    /\ migration \in Migrations /\ config \in Configs
    /\ pass \in Passes \cup {"done"}
    /\ todo \in Seq(Rules)

IInv == Base /\ (pass # "done" => WalkOK) /\ DiagnosticsOK
-----------------------------------------------------------------------------
(* The walk's stack.                                                       *)

LEMMA Element ==
  ASSUME NEW S, NEW s \in Seq(S), NEW i \in 1..Len(s)
  PROVE  Len(s) \in Nat /\ s[i] \in S
OBVIOUS

LEMMA Replacing ==
  ASSUME NEW S, NEW s \in Seq(S), NEW i \in 1..Len(s), NEW r \in S, NEW t, t = [s EXCEPT ![i] = r]
  PROVE  t \in Seq(S) /\ Len(t) = Len(s) /\ t[i] = r /\ \A k \in 1..Len(s) : k # i => t[k] = s[k]
OBVIOUS

LEMMA Starting ==
  ASSUME NEW ops \in Lists
  PROVE  Nested(<<Frame(1, Len(ops))>>, ops) /\ At(<<Frame(1, Len(ops))>>, ops) = 1
<1>1. Len(ops) \in Nat /\ \A i \in 1..Len(ops) : ops[i].inner \in Nat /\ i + ops[i].inner <= Len(ops)
  BY ListsNest
<1> DEFINE s == <<[at |-> 1, last |-> Len(ops)]>>
<1>2. Len(s) = 1 /\ s \in Seq([at : Nat, last : Nat]) /\ s[1].at = 1 /\ s[1].last = Len(ops)
  BY <1>1
<1> HIDE DEF s
<1>3. Nested(s, ops) /\ At(s, ops) = 1
  BY <1>1, <1>2 DEF Nested, At
<1> QED
  BY <1>3 DEF s, Frame

LEMMA Going ==
  ASSUME NEW ops \in Lists, NEW s, Nested(s, ops), s # <<>>, s[Len(s)].at <= s[Len(s)].last
  PROVE  /\ Len(s) \in Nat \ {0} /\ s[Len(s)].at \in DOMAIN ops /\ At(s, ops) = s[Len(s)].at
         /\ At(s, ops) \in Nat
         /\ \A i : i \in 1..s[Len(s)].at - 1 => i \in DOMAIN ops
<1>1. Len(ops) \in Nat /\ DOMAIN ops = 1..Len(ops)
  BY ListsNest
<1>2. s \in Seq([at : Nat, last : Nat]) /\ Len(s) \in Nat \ {0}
  BY DEF Nested
<1>3. Len(s) \in 1..Len(s)
  BY <1>2
<1>4. s[Len(s)] \in [at : Nat, last : Nat]
  BY <1>2, <1>3, Element
<1>5. s[Len(s)].at \in 1..s[Len(s)].last + 1 /\ s[Len(s)].last <= Len(ops)
  BY <1>3 DEF Nested
<1> QED
  BY <1>1, <1>2, <1>4, <1>5 DEF At

LEMMA Advancing ==
  ASSUME NEW ops \in Lists, NEW s, Nested(s, ops), s # <<>>, s[Len(s)].at <= s[Len(s)].last,
         NEW t, t = [s EXCEPT ![Len(s)].at = @ + 1 + ops[s[Len(s)].at].inner]
  PROVE  /\ Nested(t, ops) /\ Len(t) = Len(s) /\ t # <<>>
         /\ At(t, ops) = s[Len(s)].at + 1 + ops[s[Len(s)].at].inner
<1> DEFINE n == Len(s)
           a == s[Len(s)].at
           inner == ops[s[Len(s)].at].inner
<1>1. n \in Nat \ {0} /\ a \in DOMAIN ops
  BY Going
<1>2. s \in Seq([at : Nat, last : Nat]) /\ s[n] \in [at : Nat, last : Nat] /\ n \in 1..n
  <2>1. s \in Seq([at : Nat, last : Nat])
    BY DEF Nested
  <2>2. n \in 1..n
    BY <1>1
  <2> QED BY <2>1, <2>2, Element
<1>3. inner \in Nat /\ a + inner <= s[n].last
  <2>1. inner \in Nat
    BY <1>1, ListsNest
  <2>2. a \in a..s[n].last
    BY <1>2
  <2> QED BY <1>2, <2>1, <2>2 DEF Nested
<1> HIDE DEF inner
<1>4. /\ Len(t) = n /\ t \in Seq([at : Nat, last : Nat])
      /\ t[n].at = a + 1 + inner /\ t[n].last = s[n].last
      /\ \A k \in 1..n : k # n => t[k] = s[k]
  <2>1. t = [s EXCEPT ![n].at = a + 1 + inner]
    BY <1>2 DEF inner
  <2> DEFINE R == [at : Nat, last : Nat]
             r == [s[n] EXCEPT !.at = a + 1 + inner]
  <2>2. r \in R /\ r.at = a + 1 + inner /\ r.last = s[n].last
    <3>1. s[n] \in [at : Nat, last : Nat] /\ a \in Nat /\ a + 1 + inner \in Nat
      BY <1>2, <1>3
    <3> DEFINE z == s[n]
               b == a + 1 + inner
    <3>2. z \in [at : Nat, last : Nat] /\ b \in Nat
      BY <3>1
    <3> HIDE DEF z, b
    <3>3. LET y == [z EXCEPT !.at = b] IN y \in [at : Nat, last : Nat] /\ y.at = b /\ y.last = z.last
      BY <3>2
    <3> QED BY <3>3 DEF z, b
  <2>3. t = [s EXCEPT ![n] = r]
    BY <2>1
  <2> HIDE DEF R, r
  <2>4. s \in Seq(R)
    BY <1>2 DEF R
  <2>5. Len(t) = n /\ t \in Seq(R) /\ t[n] = r /\ \A k \in 1..n : k # n => t[k] = s[k]
    <3>1. n \in 1..Len(s) /\ r \in R
      BY <1>2, <2>2
    <3> HIDE DEF n
    <3>2. Len(t) = Len(s) /\ t \in Seq(R) /\ t[n] = r /\ \A k \in 1..Len(s) : k # n => t[k] = s[k]
      BY ONLY <2>3, <2>4, <3>1, Replacing
    <3> QED BY <3>2 DEF n
  <2> QED
    BY <2>2, <2>5 DEF R
<1>5. Len(ops) \in Nat /\ \A j \in DOMAIN ops : ops[j].inner \in Nat
  BY ListsNest
<1>6. ASSUME NEW k \in 1..n
      PROVE  /\ t[k].at \in 1..t[k].last + 1 /\ t[k].last <= Len(ops)
             /\ \A j \in t[k].at..t[k].last : j + ops[j].inner <= t[k].last
  <2>1. /\ s[k].at \in 1..s[k].last + 1 /\ s[k].last <= Len(ops)
        /\ \A j \in s[k].at..s[k].last : j + ops[j].inner <= s[k].last
    BY DEF Nested
  <2>2. CASE k = n
    <3>1. a \in Nat /\ s[n].last \in Nat
      BY <1>2
    <3>2. t[k].at \in 1..t[k].last + 1
      BY <1>3, <1>4, <2>1, <2>2, <3>1
    <3>3. \A j \in t[k].at..t[k].last : j \in s[k].at..s[k].last
      BY <1>3, <1>4, <2>2, <3>1
    <3> QED BY <1>4, <2>1, <2>2, <3>2, <3>3
  <2>3. CASE k # n
    BY <1>4, <2>1, <2>3
  <2> QED BY <2>2, <2>3
<1>7. ASSUME NEW k \in 1..n - 1 PROVE t[k + 1].last + 1 = t[k].at
  <2>1. k \in 1..n /\ k # n /\ k + 1 \in 1..n
    BY <1>1
  <2>2. s[k + 1].last + 1 = s[k].at
    BY DEF Nested
  <2>3. t[k + 1].last = s[k + 1].last
    BY <1>4, <2>1
  <2> QED BY <1>4, <2>1, <2>2, <2>3
<1>8. t[1].last = Len(ops)
  <2>1. s[1].last = Len(ops) /\ 1 \in 1..n
    BY <1>1 DEF Nested
  <2> QED BY <1>4, <2>1
<1>9. Nested(t, ops)
  BY <1>4, <1>6, <1>7, <1>8 DEF Nested
<1> QED
  BY <1>1, <1>4, <1>9 DEF At, inner
LEMMA Entering ==
  ASSUME NEW ops \in Lists, NEW s, Nested(s, ops), s # <<>>, s[Len(s)].at <= s[Len(s)].last,
         NEW t, t = [s EXCEPT ![Len(s)].at = @ + 1 + ops[s[Len(s)].at].inner],
         NEW u, u = Append(t, Frame(s[Len(s)].at + 1, s[Len(s)].at + ops[s[Len(s)].at].inner))
  PROVE  Nested(u, ops) /\ At(u, ops) = s[Len(s)].at + 1
<1> DEFINE n == Len(s)
           a == s[Len(s)].at
           inner == ops[s[Len(s)].at].inner
           F == [at : Nat, last : Nat]
           f == [at |-> a + 1, last |-> a + inner]
<1>1. /\ n \in Nat \ {0} /\ a \in DOMAIN ops
      /\ Nested(t, ops) /\ Len(t) = n /\ At(t, ops) = a + 1 + inner
  BY Going, Advancing
<1>2. a \in Nat \ {0} /\ inner \in Nat /\ a + inner <= Len(ops) /\ Len(ops) \in Nat
      /\ \A j \in a + 1..a + inner : j + ops[j].inner <= a + inner
  BY <1>1, ListsNest
<1> HIDE DEF n, a, inner
<1>3. f \in F /\ f.at = a + 1 /\ f.last = a + inner
  BY <1>2
<1>4. u = Append(t, f)
  BY DEF Frame, a, inner
<1>5. t \in Seq(F)
  BY <1>1 DEF Nested
<1> HIDE DEF F, f
<1>6. u \in Seq(F) /\ Len(u) = n + 1 /\ u[n + 1] = f /\ \A k \in 1..n : u[k] = t[k]
  BY <1>1, <1>3, <1>4, <1>5
<1>7. t[n].at = a + 1 + inner
  BY <1>1 DEF At
<1>8. ASSUME NEW k \in 1..n + 1
      PROVE  /\ u[k].at \in 1..u[k].last + 1 /\ u[k].last <= Len(ops)
             /\ \A j \in u[k].at..u[k].last : j + ops[j].inner <= u[k].last
  <2>1. CASE k = n + 1
    BY <1>2, <1>3, <1>6, <2>1
  <2>2. CASE k # n + 1
    <3>1. k \in 1..Len(t) /\ u[k] = t[k]
      BY <1>1, <1>6, <2>2
    <3> QED BY <1>1, <3>1 DEF Nested
  <2> QED BY <2>1, <2>2
<1>9. ASSUME NEW k \in 1..n PROVE u[k + 1].last + 1 = u[k].at
  <2>1. CASE k = n
    BY <1>1, <1>2, <1>3, <1>6, <1>7, <2>1
  <2>2. CASE k # n
    <3>1. k \in 1..Len(t) - 1 /\ k + 1 \in 1..n /\ k \in 1..n
      BY <1>1, <2>2
    <3>2. t[k + 1].last + 1 = t[k].at
      BY <1>1, <3>1 DEF Nested
    <3> QED BY <1>6, <3>1, <3>2
  <2> QED BY <2>1, <2>2
<1>10. u[1].last = Len(ops)
  <2>1. 1 \in 1..n /\ t[1].last = Len(ops)
    BY <1>1 DEF Nested
  <2> QED BY <1>6, <2>1
<1>11. u \in Seq([at : Nat, last : Nat]) /\ n + 1 - 1 = n
  BY <1>1, <1>6 DEF F
<1>12. Nested(u, ops)
  <2>1. Len(u) - 1 = n
    BY <1>1, <1>6
  <2>2. \A k \in 1..Len(u) :
          /\ u[k].at \in 1..u[k].last + 1 /\ u[k].last <= Len(ops)
          /\ \A j \in u[k].at..u[k].last : j + ops[j].inner <= u[k].last
    BY <1>6, <1>8
  <2>3. \A k \in 1..Len(u) - 1 : u[k + 1].last + 1 = u[k].at
    BY <1>9, <2>1
  <2> QED
    BY <1>10, <1>11, <2>2, <2>3 DEF Nested
<1>13. At(u, ops) = a + 1
  BY <1>1, <1>3, <1>6 DEF At
<1> QED
  BY <1>12, <1>13 DEF a

LEMMA Leaving ==
  ASSUME NEW ops \in Lists, NEW s, Nested(s, ops), s # <<>>, s[Len(s)].at > s[Len(s)].last
  PROVE  Nested(Front(s), ops) /\ At(Front(s), ops) = At(s, ops) /\ Len(Front(s)) = Len(s) - 1
<1> DEFINE n == Len(s)
           F == [at : Nat, last : Nat]
           u == Front(s)
<1>1. s \in Seq(F)
  BY DEF Nested
<1>2. Len(ops) \in Nat
  BY ListsNest
<1>3. n \in Nat \ {0} /\ n \in 1..n
  BY <1>1
<1>4. s[n].at \in Nat /\ s[n].last \in Nat
  <2>1. s[n] \in F
    BY <1>1, <1>3, Element
  <2> QED BY <2>1
<1> HIDE DEF F
<1>5. u \in Seq(F) /\ Len(u) = n - 1 /\ \A k \in 1..n - 1 : u[k] = s[k]
  <2>1. u = SubSeq(s, 1, n - 1)
    BY DEF Front
  <2> HIDE DEF u
  <2>2. n - 1 \in Nat /\ \A k \in 1..n - 1 : k \in 1..n /\ 1 + k - 1 = k
    <3> HIDE DEF n
    <3> QED BY <1>3
  <2>3. \A k \in 1..n : s[k] \in F
    BY <1>1, Element
  <2>4. n - 1 \in Int /\ 1 \in Int /\ \A k \in 1..n - 1 : s[k] \in F
    BY <2>2, <2>3, <1>3
  <2>5. u \in Seq(F) /\ Len(u) = IF 1 <= n - 1 THEN n - 1 - 1 + 1 ELSE 0
    BY <2>1, <2>4, SubSeqProperties
  <2>6. \A k \in 1..n - 1 - 1 + 1 : u[k] = s[1 + k - 1]
    BY <2>1, <2>4, SubSeqProperties
  <2> HIDE DEF n
  <2>7. Len(u) = n - 1 /\ n - 1 - 1 + 1 = n - 1
    BY <1>3, <2>5
  <2> QED BY <2>2, <2>5, <2>6, <2>7
<1> HIDE DEF u
<1>6. s[n].at = s[n].last + 1
  <2>1. s[n].at \in 1..s[n].last + 1
    BY <1>3 DEF Nested
  <2> QED BY <1>4, <2>1
<1>7. \A k \in 1..n - 1 : k \in 1..n
  BY <1>3
<1>8. \A k \in 1..n - 1 - 1 : k \in 1..n - 1 /\ k + 1 \in 1..n - 1
  BY <1>3
<1>9. n - 1 > 0 => u[1].last = Len(ops)
  <2>1. n - 1 > 0 => 1 \in 1..n - 1 /\ s[1].last = Len(ops)
    BY <1>3 DEF Nested
  <2> QED BY <1>5, <2>1
<1>10. \A k \in 1..n - 1 :
          /\ u[k].at \in 1..u[k].last + 1 /\ u[k].last <= Len(ops)
          /\ \A j \in u[k].at..u[k].last : j + ops[j].inner <= u[k].last
  BY <1>5, <1>7 DEF Nested
<1>11. \A k \in 1..n - 1 - 1 : u[k + 1].last + 1 = u[k].at
  BY <1>5, <1>8 DEF Nested
<1>12. Nested(u, ops)
  <2>1. u \in Seq([at : Nat, last : Nat])
    BY <1>5 DEF F
  <2> QED BY <1>5, <1>9, <1>10, <1>11, <2>1 DEF Nested
<1>13. At(u, ops) = At(s, ops)
  <2>1. CASE n = 1
    <3>1. s[n].last = Len(ops)
      BY <2>1 DEF Nested
    <3> QED BY <1>5, <1>6, <2>1, <3>1 DEF At
  <2>2. CASE n # 1
    <3>1. n - 1 \in 1..n - 1 /\ n - 1 + 1 = n /\ n - 1 # 0 /\ n # 0
      <4> HIDE DEF n
      <4> QED BY <1>3, <2>2
    <3>2. s[n].last + 1 = s[n - 1].at
      BY <3>1 DEF Nested
    <3>3. At(u, ops) = u[n - 1].at /\ At(s, ops) = s[n].at
      BY <1>5, <3>1 DEF At
    <3> QED BY <1>5, <1>6, <3>1, <3>2, <3>3
  <2> QED BY <2>1, <2>2
<1> QED
  BY <1>5, <1>12, <1>13 DEF u

-----------------------------------------------------------------------------
(* What a step that keeps the migration and the configuration keeps.       *)

Kept == UNCHANGED <<migration, config>>

LEMMA KeptOperations ==
  ASSUME Kept
  PROVE  \A p : Operations(p)' = Operations(p)
BY DEF Kept, Operations

LEMMA KeptCatches ==
  ASSUME Kept, NEW id, NEW ops, NEW i
  PROVE  Catches(id, ops, i)' = Catches(id, ops, i)
<1>1. \A c : Fires(id, ops[i], Before(ops[i], c))' = Fires(id, ops[i], Before(ops[i], c))
  BY DEF Kept, Fires, R001, R002, R003, R004, R005, R006, R010, R011, R012, R013, R015, R016, R017, R018, R019,
         SqlFramework, CreatedHere, Before
<1> QED
  BY <1>1 DEF Catches

LEMMA KeptSpan ==
  ASSUME Kept, NEW id, NEW op
  PROVE  SpanOf(id, op)' = SpanOf(id, op)
BY DEF Kept, SpanOf

LEMMA KeptJustified ==
  ASSUME Kept, NEW id, NEW span, Justified(id, span)
  PROVE  Justified(id, span)'
<1>1. \A op : TableHarm(op)' = TableHarm(op)
  BY DEF Kept, TableHarm, ColumnIndex
<1>2. \A op, wrapped : AnyHarm(op, wrapped)' = AnyHarm(op, wrapped)
  BY DEF Kept, AnyHarm, InTransaction, SqlFramework
<1>3. \A ops, i : Harm(ops, i)' = Harm(ops, i)
  BY <1>1, <1>2 DEF Harm
<1>4. \A p, i : Harms(id, p, i)' = Harms(id, p, i)
  BY <1>1, <1>3, KeptOperations DEF Harms
<1> QED
  BY <1>4, KeptOperations, KeptSpan DEF Justified

LEMMA KeptJudged ==
  ASSUME Kept, diagnostics \subseteq diagnostics', NEW p, NEW id, Judged(p, id)
  PROVE  Judged(p, id)'
<1>1. ASSUME NEW i, Covered(id, p, i) PROVE Covered(id, p, i)'
  BY <1>1, KeptOperations, KeptSpan DEF Kept, Covered, Enabled
<1> QED
  BY <1>1, KeptOperations, KeptCatches DEF Judged
-----------------------------------------------------------------------------
(* The walk preserves its invariant.                                       *)

LEMMA OperationFacts ==
  ASSUME migration \in Migrations, NEW p
  PROVE  /\ Operations(p) \in Lists
         /\ \A i \in DOMAIN Operations(p) :
               LET op == Operations(p)[i]
               IN  /\ Extracted(op)
                   /\ op.type \in {"CreateModel", "RenameModel", "DeleteModel"} => op.table # NoName
                   /\ op.type = "RenameModel" => op.table \notin EmptyAt(Operations(p))[i]
<1>1. Operations(p) \in {migration.operations, migration.downgrade}
  BY DEF Operations
<1> QED
  BY <1>1, OperationsAssumption, DatabaseAssumption
     DEF Lists, OperationsAssumption, DatabaseAssumption, Extracted

LEMMA FreshStarts == Base /\ pass # "done" /\ Fresh => WalkOK
<1> SUFFICES ASSUME Base, pass # "done", Fresh PROVE WalkOK
  OBVIOUS
<1>1. List \in Lists
  BY OperationFacts DEF Base, List
<1>2. Len(List) \in Nat /\ DOMAIN List = 1..Len(List)
  BY <1>1, ListsNest
<1>3. stack = <<Frame(1, Len(List))>>
  BY DEF Fresh, Whole, List
<1>4. Nested(stack, List) /\ Cursor = 1
  BY <1>1, <1>3, Starting DEF Cursor
<1>5. EmptyAt(List)[1] = {}
  BY <1>2, EmptyStepwise
<1>6. Len(stack) = 1 /\ \A i \in 1..Cursor - 1 : FALSE
  BY <1>3, <1>4
<1>7. FlatOK
  BY <1>6 DEF FlatOK
<1>8. CreatedOK
  BY <1>4, <1>5 DEF CreatedOK, Fresh
<1>9. FoundOK
  BY <1>6 DEF FoundOK, Fresh
<1> QED
  BY <1>4, <1>7, <1>8, <1>9 DEF WalkOK

\* Where the walk stands.
LEMMA Standing ==
  ASSUME Base, pass # "done", WalkOK, AtOperation
  PROVE  /\ List \in Lists /\ stack # <<>> /\ Nested(stack, List)
         /\ stack[Len(stack)].at <= stack[Len(stack)].last
         /\ Here = stack[Len(stack)] /\ Op = List[Here.at] /\ Cursor = Here.at
         /\ Here.at \in DOMAIN List /\ Here.at \in Nat \ {0} /\ Op.inner \in Nat
         /\ Here.at + Op.inner <= Len(List) /\ Len(List) \in Nat
         /\ todo # <<>> /\ Enabled(Rule) /\ Rule \in Rules
         /\ Advanced = [stack EXCEPT ![Len(stack)].at = @ + 1 + List[stack[Len(stack)].at].inner]
<1>1. List \in Lists
  BY OperationFacts DEF Base, List
<1>2. /\ stack # <<>> /\ Nested(stack, List) /\ todo # <<>> /\ Enabled(Rule)
      /\ Here = stack[Len(stack)] /\ stack[Len(stack)].at <= stack[Len(stack)].last
      /\ Op = List[Here.at]
  BY DEF AtOperation, Running, WalkOK, Here, Level, Op, List
<1>3. Here.at \in DOMAIN List /\ Cursor = Here.at
  BY <1>1, <1>2, Going DEF Cursor
<1>4. Rule \in Rules
  BY <1>2, HeadTailProperties DEF Base, Rule
<1>5. Advanced = [stack EXCEPT ![Len(stack)].at = @ + 1 + List[stack[Len(stack)].at].inner]
  BY <1>2 DEF Advanced, Level
<1>6. Len(List) \in Nat /\ Here.at \in Nat \ {0} /\ Op.inner \in Nat /\ Here.at + Op.inner <= Len(List)
  BY <1>1, <1>2, <1>3, ListsNest
<1> QED
  BY <1>1, <1>2, <1>3, <1>4, <1>5, <1>6

\* R005 finds the operation at the top level.
LEMMA FlatIsTop ==
  ASSUME Base, pass # "done", WalkOK, AtOperation, Rule = "R005"
  PROVE  ~Wrapped(List, Here.at)
<1>1. \A j \in 1..Here.at - 1 : j + List[j].inner < Here.at
  BY Standing DEF WalkOK, FlatOK
<1>2. \A j \in 1..Here.at - 1 : j + List[j].inner \in Nat
  BY Standing, ListsNest
<1> QED
  BY <1>1, <1>2, Standing DEF Wrapped

LEMMA FlatAdvances ==
  ASSUME Base, pass # "done", WalkOK, AtOperation, Rule = "R005",
         NEW j \in 1..Here.at + Op.inner
  PROVE  j + List[j].inner < Here.at + 1 + Op.inner
<1> DEFINE a == Here.at
           b == Here.at + Op.inner
<1>1. a \in Nat \ {0} /\ Op.inner \in Nat /\ b \in Nat /\ a \in DOMAIN List /\ List \in Lists
      /\ b <= Len(List) /\ Len(List) \in Nat
  BY Standing
<1>2. \A i \in 1..b : i \in DOMAIN List /\ List[i].inner \in Nat
  BY <1>1, ListsNest
<1>3. CASE j \in 1..a - 1
  BY <1>1, <1>2, <1>3, Standing DEF WalkOK, FlatOK
<1>4. CASE j = a
  BY <1>1, <1>4, Standing
<1>5. CASE j \in a + 1..b
  BY <1>1, <1>2, <1>5, Standing, ListsNest
<1> QED
  BY <1>1, <1>3, <1>4, <1>5
LEMMA EnterKeepsWalk == Base /\ pass # "done" /\ WalkOK /\ Enter => WalkOK'
<1> SUFFICES ASSUME Base, pass # "done", WalkOK, Enter PROVE WalkOK'
  OBVIOUS
<1> DEFINE a == Here.at
           next == IF Rule = "R005" THEN a + 1 + Op.inner ELSE a + 1
<1>1. AtOperation /\ Op.type = "SeparateDatabaseAndState" /\ Kept /\ UNCHANGED <<pass, todo, created, found>>
  BY DEF Enter, Kept
<1>2. List' = List /\ List \in Lists /\ Rule' = Rule /\ Rule \in Rules /\ Enabled(Rule)'
  BY <1>1, Standing, KeptOperations DEF List, Rule, Kept, Enabled
<1>3. a \in Nat \ {0} /\ a \in DOMAIN List /\ Op.inner \in Nat /\ next \in Nat /\ a + Op.inner <= Len(List)
      /\ Len(List) \in Nat
  BY <1>1, Standing
<1>4. Nested(stack', List) /\ At(stack', List) = next
  <2>1. Nested(Advanced, List) /\ At(Advanced, List) = a + 1 + Op.inner
    BY <1>1, Standing, Advancing
  <2>2. CASE Rule = "R005"
    BY <2>1, <2>2 DEF Enter
  <2>3. CASE Rule # "R005"
    <3>1. stack' = Append(Advanced, Frame(a + 1, a + Op.inner))
      BY <2>3 DEF Enter
    <3>2. Here = stack[Len(stack)] /\ Op = List[stack[Len(stack)].at]
      BY <1>1, Standing
    <3>3. stack' = Append(Advanced, Frame(stack[Len(stack)].at + 1,
                                          stack[Len(stack)].at + List[stack[Len(stack)].at].inner))
      BY <3>1, <3>2
    <3>4. Nested(stack', List) /\ At(stack', List) = stack[Len(stack)].at + 1
      <4>1. Advanced = [stack EXCEPT ![Len(stack)].at = @ + 1 + List[stack[Len(stack)].at].inner]
        BY <1>1, Standing
      <4>2. List \in Lists /\ Nested(stack, List) /\ stack # <<>> /\ stack[Len(stack)].at <= stack[Len(stack)].last
        BY <1>1, Standing
      <4> QED BY ONLY <3>3, <4>1, <4>2, Entering
    <3> QED BY <2>3, <3>2, <3>4
  <2> QED BY <2>2, <2>3
<1>5. Cursor' = next /\ Cursor = a
  BY <1>1, <1>2, <1>4, Standing DEF Cursor
<1>6. FlatOK'
  <2>1. CASE Rule = "R005"
    <3>1. Len(stack') = Len(stack) /\ Len(stack) <= 1
      <4>1. stack' = Advanced
        BY <2>1 DEF Enter
      <4>2. Len(Advanced) = Len(stack)
        BY <1>1, Standing, Advancing
      <4>3. Len(stack) <= 1
        BY <1>1, <2>1, Standing DEF WalkOK, FlatOK
      <4> QED BY <4>1, <4>2, <4>3
    <3>2. \A j \in 1..next - 1 : j \in 1..a + Op.inner
      BY <1>3, <2>1
    <3>3. \A j \in 1..next - 1 : j + List[j].inner < next
      BY <1>1, <2>1, <3>2, FlatAdvances
    <3> QED BY <1>2, <1>5, <3>1, <3>3 DEF FlatOK
  <2>2. CASE Rule # "R005"
    BY <1>2, <2>2 DEF FlatOK
  <2> QED BY <2>1, <2>2
<1>7. CreatedOK'
  <2>1. NoName \notin created'
    BY <1>1, Standing DEF WalkOK, CreatedOK
  <2>2. CASE Rule # "R005"
    <3>1. EmptyAt(List)[a + 1] = EmptyAt(List)[a]
      <4>1. EmptyAt(List)[a + 1] = Emptied(List[a], EmptyAt(List)[a])
        BY <1>2, <1>3, EmptyStepwise, ListsNest
      <4> QED BY <1>1, <4>1, Standing DEF Emptied
    <3>2. /\ created \subseteq EmptyAt(List)[a]
          /\ (\A j \in 1..a - 1 : List[j].type # "ExecuteSql") => created = EmptyAt(List)[a]
      BY <1>1, <1>5, <2>2, Standing DEF WalkOK, CreatedOK
    <3>3. \A j \in 1..a - 1 : j \in 1..next - 1
      BY <1>3, <2>2
    <3> QED BY <1>1, <1>2, <1>5, <2>1, <2>2, <3>1, <3>2, <3>3 DEF CreatedOK
  <2>3. CASE Rule = "R005"
    BY <1>2, <2>1, <2>3 DEF CreatedOK
  <2> QED BY <2>2, <2>3
<1>8. FoundOK'
  <2>1. \A r \in found' : r = [rule |-> Rule', span |-> r.span, severity |-> r.severity] /\ Justified(Rule, r.span)'
    <3>1. \A r \in found : r = [rule |-> Rule, span |-> r.span, severity |-> r.severity] /\ Justified(Rule, r.span)
      BY <1>1, Standing DEF WalkOK, FoundOK
    <3> QED BY <1>1, <1>2, <3>1, KeptJustified
  <2>2. ASSUME NEW i \in 1..next - 1, Catches(Rule, List, i)
        PROVE  \E r \in found : r.rule = Rule /\ r.span = SpanOf(Rule, List[i])
    <3>1. CASE i \in 1..a - 1
      BY <1>1, <1>5, <2>2, <3>1, Standing DEF WalkOK, FoundOK
    <3>2. i # a
      <4>1. \A c \in SUBSET EmptyAt(List)[i] : Fires(Rule, List[i], Before(List[i], c))
        BY <2>2 DEF Catches
      <4>2. Fires(Rule, List[i], Before(List[i], {}))
        BY <4>1
      <4> QED BY <1>1, <1>2, <4>2, Standing, WrapperIsHarmless
    <3>3. CASE i \in a + 1..next - 1
      <4>1. Rule = "R005" /\ i <= a + List[a].inner /\ a \in 1..i - 1
        BY <1>1, <1>3, <3>3, Standing
      <4>2. Wrapped(List, i)
        BY <4>1 DEF Wrapped
      <4> QED BY <2>2, <4>1, <4>2 DEF Catches
    <3> QED BY <1>3, <3>1, <3>2, <3>3
  <2>3. ASSUME NEW i \in 1..Cursor' - 1, Catches(Rule, List, i)'
        PROVE  \E r \in found' : r.rule = Rule' /\ r.span = SpanOf(Rule, List[i])'
    <3>1. Catches(Rule, List, i)
      BY <1>1, <1>2, <2>3, KeptCatches
    <3>2. \E r \in found : r.rule = Rule /\ r.span = SpanOf(Rule, List[i])
      BY <1>5, <2>2, <3>1
    <3> QED BY <1>1, <1>2, <3>2, KeptSpan
  <2> QED
    BY <2>1, <2>3 DEF FoundOK
<1>9. todo' # <<>>
  BY <1>1, Standing
<1> QED
  BY <1>2, <1>4, <1>6, <1>7, <1>8, <1>9 DEF WalkOK

LEMMA LeaveKeepsWalk == Base /\ pass # "done" /\ WalkOK /\ Leave => WalkOK'
<1> SUFFICES ASSUME Base, pass # "done", WalkOK, Leave PROVE WalkOK'
  OBVIOUS
<1>1. /\ todo # <<>> /\ Enabled(Rule) /\ stack # <<>> /\ stack[Len(stack)].at > stack[Len(stack)].last
      /\ stack' = Front(stack) /\ Kept /\ UNCHANGED <<pass, todo, created, found>>
  BY DEF Leave, Running, Kept, Here, Level
<1>2. List' = List /\ List \in Lists /\ Rule' = Rule /\ Enabled(Rule)'
  BY <1>1, OperationFacts, KeptOperations DEF Base, List, Rule, Kept, Enabled
<1>3. Nested(stack', List) /\ Cursor' = Cursor /\ Len(stack') = Len(stack) - 1 /\ Len(stack) \in Nat
  <2>1. Nested(stack, List)
    BY DEF WalkOK
  <2>2. stack \in Seq([at : Nat, last : Nat])
    BY <2>1 DEF Nested
  <2>3. Nested(stack', List) /\ At(stack', List) = At(stack, List) /\ Len(stack') = Len(stack) - 1
    BY <1>1, <1>2, <2>1, Leaving
  <2> QED BY <1>2, <2>2, <2>3 DEF Cursor
<1>4. FlatOK /\ CreatedOK /\ FoundOK
  BY <1>1 DEF WalkOK
<1>5. FlatOK'
  BY <1>2, <1>3, <1>4 DEF FlatOK
<1>6. CreatedOK'
  BY <1>1, <1>2, <1>3, <1>4 DEF CreatedOK
<1>7. FoundOK'
  <2>1. \A i : Catches(Rule, List, i)' => Catches(Rule, List, i)
    BY <1>1, <1>2, KeptCatches
  <2>2. \A i : SpanOf(Rule, List[i])' = SpanOf(Rule, List[i])
    BY <1>1, <1>2, KeptSpan
  <2>3. \A span : Justified(Rule, span) => Justified(Rule, span)'
    BY <1>1, <1>2, KeptJustified
  <2> QED
    BY <1>1, <1>2, <1>3, <1>4, <2>1, <2>2, <2>3 DEF FoundOK
<1> QED
  BY <1>1, <1>2, <1>3, <1>5, <1>6, <1>7 DEF WalkOK
LEMMA VisitKeepsWalk == Base /\ pass # "done" /\ WalkOK /\ Visit => WalkOK'
<1> SUFFICES ASSUME Base, pass # "done", WalkOK, Visit PROVE WalkOK'
  OBVIOUS
<1> DEFINE a == Here.at
<1>1. /\ AtOperation /\ Op.type # "SeparateDatabaseAndState" /\ Kept /\ UNCHANGED <<pass, todo>>
      /\ stack' = Advanced
      /\ created' = After(Op, Before(Op, created))
      /\ found' = found \cup Report(Rule, Op, Before(Op, created))
  BY DEF Visit, Kept
<1>2. List' = List /\ List \in Lists /\ Rule' = Rule /\ Rule \in Rules /\ Enabled(Rule)' /\ todo' # <<>>
  BY <1>1, Standing, KeptOperations DEF List, Rule, Kept, Enabled
<1>3. a \in Nat \ {0} /\ a \in DOMAIN List /\ Op = List[a] /\ Op.inner = 0 /\ Len(List) \in Nat
  <2>1. a \in Nat \ {0} /\ a \in DOMAIN List /\ Op = List[a] /\ Len(List) \in Nat
    BY <1>1, Standing
  <2> QED BY <1>1, <1>2, <2>1, ListsNest
<1>4. Nested(stack', List) /\ At(stack', List) = a + 1 /\ Len(stack') = Len(stack)
  <2>1. Nested(Advanced, List) /\ At(Advanced, List) = a + 1 + Op.inner /\ Len(Advanced) = Len(stack)
    BY <1>1, Standing, Advancing
  <2> QED BY <1>1, <1>3, <2>1
<1>5. Cursor' = a + 1 /\ Cursor = a
  BY <1>1, <1>2, <1>4, Standing DEF Cursor
<1>6. FlatOK /\ CreatedOK /\ FoundOK
  BY <1>1, Standing DEF WalkOK
<1>7. FlatOK'
  <2> SUFFICES ASSUME Rule = "R005" PROVE Len(stack') <= 1 /\ \A j \in 1..a : j + List[j].inner < a + 1
    BY <1>2, <1>3, <1>5 DEF FlatOK
  <2>1. \A j \in 1..a + Op.inner : j + List[j].inner < a + 1 + Op.inner
    BY <1>1, FlatAdvances
  <2> QED BY <1>3, <1>4, <1>6, <2>1 DEF FlatOK
<1>8. /\ Extracted(Op)
      /\ Op.type \in {"CreateModel", "RenameModel", "DeleteModel"} => Op.table # NoName
      /\ Op.type = "RenameModel" => Op.table \notin EmptyAt(List)[a]
  BY <1>3, OperationFacts DEF Base, List
<1>9. CreatedOK'
  <2>1. NoName \notin created'
    BY <1>1, <1>6, <1>8 DEF CreatedOK, After, Before
  <2>2. ASSUME Rule # "R005"
        PROVE  /\ created' \subseteq EmptyAt(List)[a + 1]
               /\ (\A j \in 1..a : List[j].type # "ExecuteSql") => created' = EmptyAt(List)[a + 1]
    <3>1. EmptyAt(List)[a + 1] = Emptied(Op, EmptyAt(List)[a])
      BY <1>2, <1>3, EmptyStepwise, ListsNest
    <3>2. /\ created \subseteq EmptyAt(List)[a]
          /\ (\A j \in 1..a - 1 : List[j].type # "ExecuteSql") => created = EmptyAt(List)[a]
      BY <1>5, <1>6, <2>2 DEF CreatedOK
    <3>3. created' \subseteq Emptied(Op, EmptyAt(List)[a])
      BY <1>1, <1>8, <3>2 DEF Emptied, After, Before
    <3>4. ASSUME \A j \in 1..a : List[j].type # "ExecuteSql" PROVE created' = Emptied(Op, EmptyAt(List)[a])
      <4>1. (\A j \in 1..a - 1 : j \in 1..a) /\ a \in 1..a
        BY <1>3
      <4>2. created = EmptyAt(List)[a] /\ Op.type # "ExecuteSql"
        BY <1>3, <3>2, <3>4, <4>1
      <4> QED BY <1>1, <1>8, <4>2 DEF Emptied, After, Before
    <3> QED BY <3>1, <3>3, <3>4
  <2> QED
    BY <1>2, <1>3, <1>5, <2>1, <2>2 DEF CreatedOK
<1> DEFINE report == [rule |-> Rule, span |-> SpanOf(Rule, Op), severity |-> Severity(Rule, Op)]
<1>10. ASSUME Fires(Rule, Op, Before(Op, created)) PROVE Justified(Rule, SpanOf(Rule, Op))
  <2>1. CASE Rule \in {"R011", "R014", "R015"}
    BY <2>1 DEF Justified
  <2>2. CASE Rule \notin {"R011", "R014", "R015"}
    <3> DEFINE wrapped == Wrapped(List, a)
    <3>1. Rule = "R005" => ~wrapped
      BY <1>1, FlatIsTop
    <3>2. NoName \notin created /\ (Op.type = "RenameModel" => Op.table # NoName) /\ Rule \in Rules \ {"R011", "R014", "R015"}
      BY <1>2, <1>6, <1>8, <2>2 DEF CreatedOK
    <3> HIDE DEF wrapped
    <3>3. \/ \E h \in AnyHarm(Op, wrapped) : Rule \in About(h)
          \/ Acted(Op) \notin created /\ \E h \in TableHarm(Op) : Rule \in About(h)
      BY <1>8, <1>10, <3>1, <3>2, ReportIsHarm
    <3>4. AnyHarm(Op, wrapped) \subseteq Harm(List, a)
      BY <1>3 DEF Harm, wrapped
    <3>5. ASSUME Acted(Op) \notin created, NEW h \in TableHarm(Op), Rule \in About(h)
          PROVE  \/ TableHarm(Op) \subseteq Harm(List, a)
                 \/ \E j \in 1..a - 1 : List[j].type = "ExecuteSql"
      <4>1. Rule # "R005"
        BY <3>5 DEF TableHarm, About
      <4>2. CASE \A j \in 1..a - 1 : List[j].type # "ExecuteSql"
        <5>1. created = EmptyAt(List)[a]
          BY <1>5, <1>6, <4>1, <4>2 DEF CreatedOK
        <5>2. TableHarm(List[a]) \subseteq Harm(List, a)
          BY <1>3, <3>5, <5>1 DEF Harm
        <5> QED BY <1>3, <5>2
      <4> QED BY <4>2
    <3>6. Operations(pass) = List /\ pass \in Passes /\ a \in DOMAIN Operations(pass)
      BY <1>3 DEF List, Base
    <3>7. Harms(Rule, pass, a)
      BY <1>3, <3>3, <3>4, <3>5, <3>6 DEF Harms
    <3>8. SpanOf(Rule, Op) = SpanOf(Rule, Operations(pass)[a])
      BY <1>3, <3>6
    <3> QED BY <3>6, <3>7, <3>8 DEF Justified
  <2> QED BY <2>1, <2>2
<1>11. ASSUME Catches(Rule, List, a) PROVE Fires(Rule, Op, Before(Op, created))
  <2>1. CASE Rule = "R005"
    <3>1. Fires(Rule, Op, Before(Op, {}))
      BY <1>3, <1>11 DEF Catches
    <3> QED BY <2>1, <3>1, FiresIs DEF R005
  <2>2. CASE Rule # "R005"
    <3>1. created \in SUBSET EmptyAt(List)[a]
      BY <1>5, <1>6, <2>2 DEF CreatedOK
    <3> QED BY <1>3, <1>11, <3>1 DEF Catches
  <2> QED BY <2>1, <2>2
<1>12. FoundOK'
  <2>1. ASSUME NEW r \in found'
        PROVE  r = [rule |-> Rule, span |-> r.span, severity |-> r.severity] /\ Justified(Rule, r.span)
    <3>1. CASE r \in found
      BY <1>6, <3>1 DEF FoundOK
    <3>2. CASE r \notin found
      <4>1. Fires(Rule, Op, Before(Op, created)) /\ r = report
        BY <1>1, <2>1, <3>2 DEF Report
      <4> QED BY <1>10, <4>1
    <3> QED BY <3>1, <3>2
  <2>2. ASSUME NEW i \in 1..a, Catches(Rule, List, i)
        PROVE  \E r \in found' : r.rule = Rule /\ r.span = SpanOf(Rule, List[i])
    <3>1. CASE i \in 1..a - 1
      BY <1>1, <1>5, <1>6, <2>2, <3>1 DEF FoundOK
    <3>2. CASE i = a
      <4>1. report \in found'
        BY <1>1, <1>11, <2>2, <3>2 DEF Report
      <4> QED BY <1>3, <3>2, <4>1
    <3> QED BY <1>3, <3>1, <3>2
  <2>3. \A i \in 1..Cursor' - 1 : Catches(Rule, List, i)' =>
           \E r \in found' : r.rule = Rule' /\ r.span = SpanOf(Rule, List[i])'
    <3>1. Cursor' - 1 = a
      BY <1>3, <1>5
    <3> QED BY <1>1, <1>2, <2>2, <3>1, KeptCatches, KeptSpan
  <2>4. \A r \in found' : r = [rule |-> Rule', span |-> r.span, severity |-> r.severity] /\ Justified(Rule, r.span)'
    BY <1>1, <1>2, <2>1, KeptJustified
  <2> QED
    BY <2>3, <2>4 DEF FoundOK
<1> QED
  BY <1>2, <1>4, <1>7, <1>9, <1>12 DEF WalkOK
-----------------------------------------------------------------------------
(* The invariant is inductive.                                             *)

LEMMA KeptDiagnostics == Base /\ DiagnosticsOK /\ Kept /\ UNCHANGED <<pass, todo, diagnostics>> => Base' /\ DiagnosticsOK'
<1> SUFFICES ASSUME Base, DiagnosticsOK, Kept, UNCHANGED <<pass, todo, diagnostics>> PROVE Base' /\ DiagnosticsOK'
  OBVIOUS
<1>1. Base'
  BY DEF Base, Kept
<1>2. \A d \in diagnostics' : /\ Enabled(d.rule)' /\ (config'.strict => d.severity = "error")
                              /\ Justified(d.rule, d.span)'
  BY KeptJustified DEF DiagnosticsOK, Kept, Enabled
<1>3. \A p, id : Judged(p, id) => Judged(p, id)'
  BY KeptJudged
<1>4. pass' # "done" => \A id \in Rules : (\A k \in 1..Len(todo') : todo'[k] # id) => Judged(pass, id)'
  BY <1>3 DEF DiagnosticsOK
<1> QED
  BY <1>1, <1>2, <1>3, <1>4 DEF DiagnosticsOK

\* The rules without the first are all the rules but that one.
LEMMA TailRules ==
  ASSUME Base, todo # <<>>, todo' = Tail(todo)
  PROVE  /\ Rule \in Rules /\ todo' \in Seq(Rules)
         /\ \A id : (\A k \in 1..Len(todo') : todo'[k] # id) => id = Rule \/ \A k \in 1..Len(todo) : todo[k] # id
<1>1. todo \in Seq(Rules)
  BY DEF Base
<1>2. /\ Head(todo) \in Rules /\ todo' \in Seq(Rules) /\ Len(todo') = Len(todo) - 1 /\ Len(todo) \in Nat
      /\ \A i \in 1..Len(todo') : todo'[i] = todo[i + 1]
      /\ Head(todo) = todo[1]
  BY <1>1, HeadTailProperties
<1>3. ASSUME NEW id, \A k \in 1..Len(todo') : todo'[k] # id, NEW k \in 1..Len(todo), todo[k] = id PROVE id = Rule
  <2>1. CASE k = 1
    BY <1>2, <1>3, <2>1 DEF Rule
  <2>2. CASE k # 1
    <3>1. k - 1 \in 1..Len(todo') /\ k - 1 + 1 = k
      BY <1>2, <2>2
    <3> QED BY <1>2, <1>3, <3>1
  <2> QED BY <2>1, <2>2
<1> QED
  BY <1>2, <1>3 DEF Rule

LEMMA LeaveOutKeeps == IInv /\ LeaveOut => IInv'
<1> SUFFICES ASSUME IInv, LeaveOut PROVE IInv'
  OBVIOUS
<1>1. Base /\ WalkOK /\ DiagnosticsOK /\ pass # "done" /\ todo # <<>> /\ ~Enabled(Rule)
      /\ todo' = Tail(todo) /\ Kept /\ UNCHANGED <<pass, stack, created, found, diagnostics>>
  BY DEF LeaveOut, IInv, Kept
<1>2. Base'
  BY <1>1, TailRules DEF Base, Kept
<1>3. WalkOK'
  <2>1. Fresh
    BY <1>1 DEF WalkOK
  <2>2. Fresh'
    BY <1>1, <2>1, KeptOperations DEF Fresh, Whole, Frame
  <2>3. (Base /\ pass # "done" /\ Fresh => WalkOK)'
    BY FreshStarts, PTL
  <2> QED BY <1>1, <1>2, <2>2, <2>3
<1>4. DiagnosticsOK'
  <2>1. \A d \in diagnostics' : /\ Enabled(d.rule)' /\ (config'.strict => d.severity = "error")
                                /\ Justified(d.rule, d.span)'
    BY <1>1, KeptJustified DEF DiagnosticsOK, Kept, Enabled
  <2>2. \A p, id : Judged(p, id) => Judged(p, id)'
    BY <1>1, KeptJudged
  <2>3. ASSUME NEW id \in Rules, \A k \in 1..Len(todo') : todo'[k] # id PROVE Judged(pass, id)
    <3>1. CASE id = Rule
      BY <1>1, <3>1 DEF Judged, Covered
    <3>2. CASE \A k \in 1..Len(todo) : todo[k] # id
      BY <1>1, <3>2 DEF DiagnosticsOK
    <3> QED BY <1>1, <2>3, <3>1, <3>2, TailRules
  <2>4. \A id \in Rules : (\A k \in 1..Len(todo') : todo'[k] # id) => Judged(pass, id)'
    BY <1>1, <2>2, <2>3
  <2> QED
    BY <1>1, <2>1, <2>2, <2>4 DEF DiagnosticsOK
<1> QED
  BY <1>2, <1>3, <1>4 DEF IInv

LEMMA EndPassKeeps == IInv /\ EndPass => IInv'
<1> SUFFICES ASSUME IInv, EndPass PROVE IInv'
  OBVIOUS
<1>1. /\ Base /\ WalkOK /\ DiagnosticsOK /\ pass # "done" /\ todo = <<>>
      /\ Kept /\ UNCHANGED <<found, diagnostics>>
  BY DEF EndPass, IInv, Kept
<1>2. \A id \in Rules : Judged(pass, id)
  BY <1>1 DEF DiagnosticsOK
<1>3. \A p, id : Judged(p, id) => Judged(p, id)'
  BY <1>1, KeptJudged
<1>4. \A d \in diagnostics' : /\ Enabled(d.rule)' /\ (config'.strict => d.severity = "error")
                              /\ Justified(d.rule, d.span)'
  BY <1>1, KeptJustified DEF DiagnosticsOK, Kept, Enabled
<1>5. CASE pass = "upgrade" /\ migration.downgrade # <<>>
  <2>1. pass' = "downgrade" /\ todo' = RuleIds /\ stack' = <<Whole("downgrade")>> /\ created' = {}
    BY <1>5 DEF EndPass, StartRule
  <2>2. RuleIds \in Seq(Rules) /\ \A id \in Rules : \E k \in 1..Len(RuleIds) : RuleIds[k] = id
    <3>1. Len(RuleIds) = 16
      BY DEF RuleIds
    <3>2. \A k \in 1..16 : RuleIds[k] \in Rules
      BY DEF Rules
    <3>3. RuleIds \in Seq(Rules)
      BY RulesAre DEF RuleIds
    <3> QED BY <3>1, <3>3 DEF Rules
  <2>3. Base'
    BY <1>1, <2>1, <2>2 DEF Base, Kept, Passes
  <2>4. Fresh'
    <3>1. found = {}
      BY <1>1 DEF WalkOK, Fresh
    <3>2. Whole("downgrade")' = Whole("downgrade")
      BY <1>1, KeptOperations DEF Whole, Frame
    <3> QED BY <1>1, <2>1, <3>1, <3>2 DEF Fresh
  <2>5. (Base /\ pass # "done" /\ Fresh => WalkOK)'
    BY FreshStarts, PTL
  <2>6. DiagnosticsOK'
    BY <1>2, <1>3, <1>4, <1>5, <2>1, <2>2 DEF DiagnosticsOK
  <2> QED
    BY <2>1, <2>3, <2>4, <2>5, <2>6 DEF IInv
<1>6. CASE ~(pass = "upgrade" /\ migration.downgrade # <<>>)
  <2>1. pass' = "done" /\ UNCHANGED <<todo, stack, created>>
    BY <1>6 DEF EndPass
  <2>2. Base'
    BY <1>1, <2>1 DEF Base, Kept
  <2>3. \A id \in Rules : Judged("upgrade", id) /\ Judged("downgrade", id)
    <3>1. CASE pass = "upgrade"
      <4>1. Operations("downgrade") = <<>>
        BY <1>6, <3>1 DEF Operations
      <4>2. \A id \in Rules : Judged("downgrade", id)
        BY <4>1 DEF Judged
      <4> QED BY <1>2, <3>1, <4>2
    <3>2. CASE pass = "downgrade"
      BY <1>1, <1>2, <3>2 DEF DiagnosticsOK
    <3> QED BY <1>1, <3>1, <3>2 DEF Base, Passes
  <2>4. DiagnosticsOK'
    BY <1>3, <1>4, <2>1, <2>3 DEF DiagnosticsOK
  <2> QED
    BY <2>1, <2>2, <2>4 DEF IInv
<1> QED
  BY <1>5, <1>6

LEMMA EndRuleKeeps == IInv /\ EndRule => IInv'
<1> SUFFICES ASSUME IInv, EndRule PROVE IInv'
  OBVIOUS
<1>1. /\ Base /\ WalkOK /\ DiagnosticsOK /\ pass # "done" /\ todo # <<>> /\ Enabled(Rule) /\ stack = <<>>
      /\ todo' = Tail(todo) /\ Kept /\ found' = {} /\ UNCHANGED pass
      /\ stack' = <<Whole(pass)>> /\ created' = {}
      /\ diagnostics' = diagnostics \cup {Promoted(r) : r \in {x \in found \cup ImportReports : ~Silenced(x)}}
  BY DEF EndRule, Running, StartRule, IInv, Kept
<1>2. Base' /\ Rule \in Rules
  BY <1>1, TailRules DEF Base, Kept
<1>3. WalkOK'
  <2>1. Fresh'
    BY <1>1, KeptOperations DEF Fresh, Whole, Frame
  <2>2. (Base /\ pass # "done" /\ Fresh => WalkOK)'
    BY FreshStarts, PTL
  <2> QED BY <1>1, <1>2, <2>1, <2>2
<1>4. List \in Lists /\ Len(List) \in Nat /\ DOMAIN List = 1..Len(List) /\ Cursor = Len(List) + 1
  BY <1>1, OperationFacts, ListsNest DEF Base, List, Cursor, At
<1>5. ASSUME NEW r \in found \cup ImportReports
      PROVE  /\ Promoted(r).rule = Rule /\ Promoted(r).span = r.span
             /\ config.strict => Promoted(r).severity = "error"
             /\ Justified(Rule, r.span)
  <2>1. r = [rule |-> Rule, span |-> r.span, severity |-> r.severity] /\ Justified(Rule, r.span)
    <3>1. CASE r \in found
      BY <1>1, <3>1 DEF WalkOK, FoundOK
    <3>2. CASE r \in ImportReports
      BY <3>2 DEF ImportReports, Justified
    <3> QED BY <3>1, <3>2
  <2>2. \A x, y, z : LET w == [rule |-> x, span |-> y, severity |-> z]
                     IN  /\ [w EXCEPT !.severity = "error"].rule = x /\ [w EXCEPT !.severity = "error"].span = y
                         /\ [w EXCEPT !.severity = "error"].severity = "error" /\ w.rule = x /\ w.span = y
    OBVIOUS
  <2> QED
    BY <2>1, <2>2 DEF Promoted
<1>6. ASSUME NEW d \in diagnostics'
      PROVE  Enabled(d.rule) /\ (config.strict => d.severity = "error") /\ Justified(d.rule, d.span)
  <2>1. CASE d \in diagnostics
    BY <1>1, <2>1 DEF DiagnosticsOK
  <2>2. CASE d \notin diagnostics
    <3>1. PICK r \in found \cup ImportReports : d = Promoted(r)
      BY <1>1, <2>2
    <3> QED BY <1>1, <1>5, <3>1
  <2> QED BY <2>1, <2>2
<1>7. \A d \in diagnostics' : /\ Enabled(d.rule)' /\ (config'.strict => d.severity = "error")
                              /\ Justified(d.rule, d.span)'
  BY <1>1, <1>6, KeptJustified DEF Kept, Enabled
<1>8. \A p, id : Judged(p, id) => Judged(p, id)'
  BY <1>1, KeptJudged
\* What the rule reported is in the diagnostics, or a comment silences it.
<1>9. ASSUME NEW i \in DOMAIN List, Catches(Rule, List, i)
      PROVE  \/ \E d \in diagnostics' : d.rule = Rule /\ d.span = SpanOf(Rule, List[i])
             \/ \E c \in migration.ignores :
                   c.line \in SpanOf(Rule, List[i])[1] - 1..SpanOf(Rule, List[i])[2] /\ Rule \in c.rules
  <2> DEFINE span == SpanOf(Rule, List[i])
  <2>1. PICK r \in found : r.rule = Rule /\ r.span = span
    BY <1>1, <1>4, <1>9 DEF WalkOK, FoundOK
  <2>2. CASE ~Silenced(r)
    BY <1>1, <1>5, <2>1, <2>2
  <2>3. CASE Silenced(r)
    <3>1. span[1] \in Nat \ {0} /\ span[2] \in Nat
      <4>1. List[i].span[1] \in Nat \ {0} /\ List[i].span[2] \in Nat
        BY <1>4, ListsNest
      <4>2. migration.class[1] \in Nat \ {0} /\ migration.class[2] \in Nat
        BY <1>1, OperationsAssumption DEF OperationsAssumption, Base
      <4> QED BY <4>1, <4>2 DEF SpanOf
    <3>2. PICK c \in migration.ignores : c.line \in CommentLines(span) /\ Rule \in c.rules
      BY <2>1, <2>3 DEF Silenced
    <3> HIDE DEF span
    <3>3. CommentLines(span) \subseteq span[1] - 1..span[2]
      BY <3>1 DEF CommentLines
    <3> QED BY <3>2, <3>3 DEF span
  <2> QED BY <2>2, <2>3
<1>10. ASSUME NEW id, id = Rule PROVE Judged(pass, id)'
  <2>1. Operations(pass)' = List
    BY <1>1, KeptOperations DEF List
  <2>2. ASSUME NEW i \in DOMAIN List, Catches(id, List, i) PROVE Covered(id, pass, i)'
    <3>1. \/ \E d \in diagnostics' : d.rule = id /\ d.span = SpanOf(id, List[i])
          \/ \E c \in migration.ignores :
                c.line \in SpanOf(id, List[i])[1] - 1..SpanOf(id, List[i])[2] /\ id \in c.rules
      BY <1>9, <1>10, <2>2
    <3> QED BY <1>1, <2>1, <3>1, KeptSpan DEF Covered, Kept
  <2> QED BY <1>1, <2>1, <2>2, KeptCatches DEF Judged
<1>11. \A id \in Rules : (\A k \in 1..Len(todo') : todo'[k] # id) => Judged(pass, id)'
  <2> SUFFICES ASSUME NEW id \in Rules, \A k \in 1..Len(todo') : todo'[k] # id PROVE Judged(pass, id)'
    OBVIOUS
  <2>1. id = Rule \/ \A k \in 1..Len(todo) : todo[k] # id
    BY <1>1, TailRules
  <2>2. (\A k \in 1..Len(todo) : todo[k] # id) => Judged(pass, id)
    BY <1>1 DEF DiagnosticsOK
  <2> QED BY <1>1, <1>8, <1>10, <2>1, <2>2
<1>12. DiagnosticsOK'
  <2>1. pass' # "upgrade" => \A id \in Rules : Judged("upgrade", id)'
    BY <1>1, <1>8 DEF DiagnosticsOK
  <2> QED
    BY <1>1, <1>7, <1>11, <2>1 DEF DiagnosticsOK
<1> QED
  BY <1>2, <1>3, <1>12 DEF IInv
\* The walk's own steps touch neither the diagnostics nor the rules to run.
LEMMA WalkKeeps == IInv /\ (Enter \/ Leave \/ Visit) => IInv'
<1> SUFFICES ASSUME IInv, Enter \/ Leave \/ Visit PROVE IInv'
  OBVIOUS
<1>1. Base /\ WalkOK /\ DiagnosticsOK /\ pass # "done" /\ Kept /\ UNCHANGED <<pass, todo, diagnostics>>
  BY DEF IInv, Enter, Leave, Visit, AtOperation, Running, Kept
<1>2. WalkOK'
  BY <1>1, EnterKeepsWalk, LeaveKeepsWalk, VisitKeepsWalk
<1> QED
  BY <1>1, <1>2, KeptDiagnostics DEF IInv

LEMMA Starts == Init => IInv
<1> SUFFICES ASSUME Init PROVE IInv
  OBVIOUS
<1>1. RuleIds \in Seq(Rules) /\ \A id \in Rules : \E k \in 1..Len(RuleIds) : RuleIds[k] = id
  <2>1. Len(RuleIds) = 16
    BY DEF RuleIds
  <2>2. RuleIds \in Seq(Rules)
    BY RulesAre DEF RuleIds
  <2> QED BY <2>1, <2>2 DEF Rules
<1>2. Base /\ pass = "upgrade"
  BY <1>1 DEF Init, Base, Passes
<1>3. Fresh
  BY DEF Init, Fresh
<1>4. WalkOK
  BY <1>2, <1>3, FreshStarts
<1>5. DiagnosticsOK
  BY <1>1, <1>2 DEF Init, DiagnosticsOK
<1> QED
  BY <1>2, <1>4, <1>5 DEF IInv

LEMMA Steps == IInv /\ [Next]_vars => IInv'
<1> SUFFICES ASSUME IInv, [Next]_vars PROVE IInv'
  OBVIOUS
<1>1. CASE Enter \/ Leave \/ Visit
  BY <1>1, WalkKeeps
<1>2. CASE LeaveOut
  BY <1>2, LeaveOutKeeps
<1>3. CASE EndRule
  BY <1>3, EndRuleKeeps
<1>4. CASE EndPass
  BY <1>4, EndPassKeeps
<1>5. CASE UNCHANGED vars
  <2>1. Kept /\ UNCHANGED <<pass, todo, diagnostics>> /\ UNCHANGED <<stack, created, found>>
    BY <1>5 DEF vars, Kept
  <2>2. Base' /\ DiagnosticsOK'
    BY <2>1, KeptDiagnostics DEF IInv
  <2>3. ASSUME pass # "done" PROVE WalkOK'
    <3>1. WalkOK /\ List' = List /\ Rule' = Rule /\ Enabled(Rule)' = Enabled(Rule)
      BY <2>1, <2>3, KeptOperations DEF IInv, List, Rule, Kept, Enabled
    <3>2. Cursor' = Cursor
      BY <2>1, <3>1 DEF Cursor
    <3>3. FlatOK => FlatOK'
      BY <2>1, <3>1, <3>2 DEF FlatOK
    <3>4. CreatedOK => CreatedOK'
      BY <2>1, <3>1, <3>2 DEF CreatedOK
    <3>5. FoundOK => FoundOK'
      <4>1. \A i : Catches(Rule, List, i)' => Catches(Rule, List, i)
        BY <2>1, <3>1, KeptCatches
      <4>2. \A i : SpanOf(Rule, List[i])' = SpanOf(Rule, List[i])
        BY <2>1, <3>1, KeptSpan
      <4>3. \A span : Justified(Rule, span) => Justified(Rule, span)'
        BY <2>1, <3>1, KeptJustified
      <4> QED BY <2>1, <3>1, <3>2, <4>1, <4>2, <4>3 DEF FoundOK
    <3>6. Fresh => Fresh'
      BY <2>1, KeptOperations DEF Fresh, Whole, Frame
    <3> QED BY <2>1, <3>1, <3>3, <3>4, <3>5, <3>6 DEF WalkOK
  <2> QED BY <2>1, <2>2, <2>3 DEF IInv
<1> QED
  BY <1>1, <1>2, <1>3, <1>4, <1>5 DEF Next, Done

LEMMA Invariant == Spec => []IInv
BY Starts, Steps, PTL DEF Spec

-----------------------------------------------------------------------------
(* What follows of it.                                                     *)

\* The walk stays within the lists of the migration, only rules that are
\* switched on have reports, and strict leaves no warning.
THEOREM TypeCorrect == Spec => []TypeOK
<1>1. IInv => TypeOK
  <2> SUFFICES ASSUME IInv PROVE TypeOK
    OBVIOUS
  <2>1. ASSUME pass # "done"
        PROVE  \A i \in DOMAIN stack :
                  stack[i].at \in 1..stack[i].last + 1 /\ stack[i].last <= Len(Operations(pass))
    <3>1. Nested(stack, List)
      BY <2>1 DEF IInv, WalkOK
    <3>2. DOMAIN stack = 1..Len(stack)
      BY <3>1 DEF Nested
    <3> QED BY <3>1, <3>2 DEF Nested, List
  <2> QED
    BY <2>1 DEF TypeOK, IInv, Base, DiagnosticsOK, Enabled
<1> QED
  BY <1>1, Invariant, PTL

\* Whatever the migration, nesting and configuration: what a migration does to a
\* table in use, in either direction, is reported by a rule about it, unless that
\* rule is switched off or silenced by a comment where the operation stands.
THEOREM NothingSlips == Spec => []HazardsReported
<1>1. IInv => HazardsReported
  <2> SUFFICES ASSUME IInv, pass = "done", NEW p \in Passes, NEW i \in DOMAIN Operations(p),
                      NEW h \in Harm(Operations(p), i)
               PROVE  \E id \in About(h) : Covered(id, p, i)
    BY DEF HazardsReported, Covered
  <2> DEFINE ops == Operations(p)
             op == Operations(p)[i]
             empty == EmptyAt(Operations(p))[i]
             wrapped == Wrapped(Operations(p), i)
  <2>1. Extracted(op) /\ (op.type = "RenameModel" => op.table \notin empty)
    BY OperationFacts DEF IInv, Base
  <2>2. \A id \in Rules : Judged(p, id)
    BY DEF IInv, DiagnosticsOK, Passes
  <2>3. \E id \in About(h) \cap Rules : Catches(id, ops, i)
    <3> HIDE DEF wrapped, empty
    <3>1. CASE h \in AnyHarm(op, wrapped)
      <4>1. PICK id \in About(h) \cap Rules : (id = "R005" => ~wrapped) /\ \A c : Fires(id, op, c)
        BY <2>1, <3>1, AnyHarmIsReported
      <4>2. Catches(id, ops, i)
        BY <4>1 DEF Catches, wrapped
      <4> QED BY <4>1, <4>2
    <3>2. CASE h \notin AnyHarm(op, wrapped)
      <4>1. Acted(op) \notin empty /\ h \in TableHarm(op)
        BY <3>2 DEF Harm, wrapped, empty
      <4>2. PICK id \in About(h) \cap Rules : id # "R005" /\ \A c \in SUBSET empty : Fires(id, op, Before(op, c))
        BY <2>1, <4>1, TableHarmIsReported
      <4>3. Catches(id, ops, i)
        BY <4>2 DEF Catches, empty
      <4> QED BY <4>2, <4>3
    <3> QED BY <3>1, <3>2
  <2> QED
    BY <2>2, <2>3 DEF Judged
<1> QED
  BY <1>1, Invariant, PTL

\* Every report but those of R011, R014 and R015 is about an operation that harms
\* a table in use, or one that raw SQL may have replaced.
THEOREM NothingUnjustified == Spec => []ReportsJustified
<1>1. IInv => ReportsJustified
  BY DEF IInv, DiagnosticsOK, Justified, Harms, ReportsJustified
<1> QED
  BY <1>1, Invariant, PTL
=============================================================================
