------------------------- MODULE CreatedModelsProofs -------------------------
(***************************************************************************)
(* The exemption and the refinement for every set of names and schemas.    *)
(***************************************************************************)
EXTENDS CreatedModelsRefinement, TLAPS

USE DEF Status

-----------------------------------------------------------------------------
(* The tables statements mean.                                             *)

LEMMA ResolveTable == \A t \in TableIdentity : Resolve(t) \in Tables
  BY SchemaAssumption DEF TableIdentity, Tables, Resolve

LEMMA ModelTableTable == \A n \in Names : ModelTable(n) \in Tables
  BY SchemaAssumption, LowerAssumption DEF Tables, ModelTable

\* Two identities that do not spell the default schema out mean one table
\* only if they are the same.
LEMMA ResolveInjective ==
  ASSUME NEW t \in TableIdentity, NEW u \in TableIdentity,
         ~Alias(t), ~Alias(u), Resolve(t) = Resolve(u)
  PROVE  t = u
  BY SchemaAssumption DEF TableIdentity, Resolve, Alias

LEMMA ModelTableInjective ==
  ASSUME NEW m \in Names, NEW n \in Names, ModelTable(m) = ModelTable(n)
  PROVE  Lower[m] = Lower[n]
  BY DEF ModelTable

LEMMA MeetsBlindness ==
  ASSUME TypeOK, NEW construct \in Blindness, NEW condition \in BOOLEAN,
         Meets(construct, condition)
  PROVE  /\ blind' \subseteq Blindness
         /\ blind \subseteq blind'
         /\ condition => blind' # {}
         /\ ~condition => blind' = blind
  BY DEF Meets, TypeOK

-----------------------------------------------------------------------------
(* Types.                                                                  *)

LEMMA StepType == TypeOK /\ [Next]_vars => TypeOK'
<1> SUFFICES ASSUME TypeOK, [Next]_vars PROVE TypeOK'
  OBVIOUS
<1> USE ResolveTable, ModelTableTable, LowerAssumption, SchemaAssumption,
        FeaturesAssumption DEF TypeOK, Handle, walker
<1>1. ASSUME NEW t \in TableIdentity, CreateTable(t) PROVE TypeOK'
  BY <1>1 DEF CreateTable, Meets, Blindness
<1>2. ASSUME NEW t \in TableIdentity, CreateTableUncertain(t) PROVE TypeOK'
  <2>1. database' \in [Tables -> Status]
    BY <1>2 DEF CreateTableUncertain
  <2> QED
    BY <1>2, <2>1 DEF CreateTableUncertain
<1>3. ASSUME NEW t \in TableIdentity, AlterTable(t) PROVE TypeOK'
  BY <1>3 DEF AlterTable, Meets, Blindness, ContainsTable
<1>4. ASSUME NEW t \in TableIdentity, ExecuteAlter(t) PROVE TypeOK'
  BY <1>4 DEF ExecuteAlter, Meets, Blindness, ContainsSqlTable
<1>5. ASSUME NEW t \in TableIdentity, NEW runs \in BOOLEAN, DropTable(t, runs) PROVE TypeOK'
  BY <1>5 DEF DropTable, Meets, Blindness, ContainsTable
<1>6. ASSUME NEW old \in TableIdentity, NEW new \in TableIdentity, NEW runs \in BOOLEAN,
             RenameTable(old, new, runs)
      PROVE TypeOK'
  BY <1>6 DEF RenameTable, Meets, Blindness, ContainsTable, RenameSqlTable, Moved
<1>7. ASSUME NEW t \in Tables, AlterUnknownTable(t) PROVE TypeOK'
  <2>1. database' \in [Tables -> Status]
    BY <1>7 DEF AlterUnknownTable, Moved
  <2> QED
    BY <1>7, <2>1 DEF AlterUnknownTable, ContainsTable, Meets, Blindness
<1>8. CASE ExecuteSql
  BY <1>8 DEF ExecuteSql
<1>16. CASE RunUnread
  BY <1>16 DEF RunUnread, Meets, Blindness
<1>17. CASE RunSql
  BY <1>17 DEF RunSql, Meets, Blindness
<1>9. ASSUME NEW n \in Names, CreateModel(n) PROVE TypeOK'
  BY <1>9 DEF CreateModel
<1>10. ASSUME NEW n \in Names, DeleteModel(n) PROVE TypeOK'
  BY <1>10 DEF DeleteModel, ContainsModel
<1>11. ASSUME NEW n \in Names, AlterModel(n) PROVE TypeOK'
  BY <1>11 DEF AlterModel, ContainsModel
<1>12. ASSUME NEW n \in Names, StateCreateModel(n) PROVE TypeOK'
  BY <1>12 DEF StateCreateModel
<1>13. ASSUME NEW n \in Names, StateDeleteModel(n) PROVE TypeOK'
  BY <1>13 DEF StateDeleteModel, Meets, Blindness
<1>14. ASSUME NEW old \in Names, NEW new \in Names, RenameModel(old, new) PROVE TypeOK'
  BY <1>14 DEF RenameModel, RenameModelName, Moved, ContainsModel
<1>15. CASE UNCHANGED vars
  BY <1>15 DEF vars
<1> QED
  BY <1>1, <1>2, <1>3, <1>4, <1>5, <1>6, <1>7, <1>8, <1>9, <1>10, <1>11, <1>12,
     <1>13, <1>14, <1>15, <1>16, <1>17 DEF Next

(***************************************************************************)
(* TypeOK: the two sets hold lower-cased names and TableIdentity values    *)
(* only; in particular an operation without identity enters neither.       *)
(***************************************************************************)
THEOREM TypeCorrect == Spec => []TypeOK
<1>1. Init => TypeOK
  BY DEF Init, TypeOK
<1> QED
  BY <1>1, StepType, PTL DEF Spec

-----------------------------------------------------------------------------
(* The exemption.                                                          *)

\* A step that adds no blindness and starts without any keeps the sets to
\* tables this migration created.
LEMMA StepCreated == TypeOK /\ CreatedAreNew /\ [Next]_vars => CreatedAreNew'
<1> SUFFICES ASSUME TypeOK, CreatedAreNew, [Next]_vars PROVE CreatedAreNew'
  OBVIOUS
<1> USE ResolveTable, ModelTableTable, LowerAssumption, SchemaAssumption
        DEF TypeOK, Handle, walker, CreatedAreNew, UsesSqlTableIdentity
<1>1. ASSUME NEW t \in TableIdentity, CreateTable(t) PROVE CreatedAreNew'
  BY <1>1 DEF CreateTable, Meets, Alias
<1>2. ASSUME NEW t \in TableIdentity, CreateTableUncertain(t) PROVE CreatedAreNew'
  BY <1>2 DEF CreateTableUncertain
<1>3. ASSUME NEW t \in TableIdentity, AlterTable(t) PROVE CreatedAreNew'
  BY <1>3 DEF AlterTable, Meets
<1>4. ASSUME NEW t \in TableIdentity, ExecuteAlter(t) PROVE CreatedAreNew'
  BY <1>4 DEF ExecuteAlter, Meets
<1>5. ASSUME NEW t \in TableIdentity, NEW runs \in BOOLEAN, DropTable(t, runs)
      PROVE CreatedAreNew'
  <2>1. ASSUME blind' = {}, NEW u \in sqlTables'
        PROVE  ~Alias(u) /\ database'[Resolve(u)] = "new"
    <3>1. blind = {} /\ ~Alias(t)
      BY <1>5, <2>1 DEF DropTable, Meets
    <3>2. u # t /\ u \in sqlTables /\ u \in TableIdentity
      BY <1>5, <2>1 DEF DropTable
    <3>3. ~Alias(u) /\ database[Resolve(u)] = "new"
      BY <3>1, <3>2
    <3>4. Resolve(u) # Resolve(t)
      BY <3>1, <3>2, <3>3, ResolveInjective
    <3> QED
      BY <1>5, <3>2, <3>3, <3>4 DEF DropTable
  <2> QED
    BY <1>5, <2>1 DEF DropTable
<1>6. ASSUME NEW old \in TableIdentity, NEW new \in TableIdentity, NEW runs \in BOOLEAN,
             RenameTable(old, new, runs)
      PROVE CreatedAreNew'
  <2>1. ASSUME blind' = {}, NEW u \in sqlTables'
        PROVE  ~Alias(u) /\ database'[Resolve(u)] = "new"
    <3>1. blind = {} /\ runs /\ ~Alias(old) /\ ~Alias(new)
      BY <1>6, <2>1 DEF RenameTable, Meets, Alias
    <3>2. Resolve(old) # Resolve(new)
      BY <1>6, <3>1, ResolveInjective DEF RenameTable
    <3>3. database' = Moved(Resolve(old), Resolve(new)) /\ database[Resolve(new)] = "absent"
      BY <1>6, <3>1 DEF RenameTable
    <3>4. CASE u = new /\ old \in sqlTables
      <4>1. database[Resolve(old)] = "new"
        BY <3>1, <3>4
      <4> QED
        BY <3>1, <3>2, <3>3, <3>4, <4>1 DEF Moved
    <3>5. CASE u \in sqlTables /\ u # old
      <4>1. ~Alias(u) /\ database[Resolve(u)] = "new" /\ u \in TableIdentity
        BY <3>1, <3>5
      <4>2. Resolve(u) # Resolve(old) /\ Resolve(u) # Resolve(new)
        BY <3>1, <3>3, <3>5, <4>1, ResolveInjective
      <4> QED
        BY <3>3, <4>1, <4>2 DEF Moved
    <3>6. \/ u = new /\ old \in sqlTables
          \/ u \in sqlTables /\ u # old
      BY <1>6, <2>1 DEF RenameTable, RenameSqlTable
    <3> QED
      BY <3>4, <3>5, <3>6
  <2> QED
    BY <1>6, <2>1 DEF RenameTable, RenameSqlTable
<1>7. ASSUME NEW t \in Tables, AlterUnknownTable(t) PROVE CreatedAreNew'
  <2>1. ASSUME blind' = {}, NEW u \in sqlTables'
        PROVE  ~Alias(u) /\ database'[Resolve(u)] = "new"
    <3>1. blind = {} /\ u \in sqlTables /\ u \in TableIdentity
      BY <1>7, <2>1 DEF AlterUnknownTable, Meets
    <3>2. ~Alias(u) /\ database[Resolve(u)] = "new" /\ Resolve(u) \in Tables
      BY <3>1
    <3>3. CASE database' = database
      BY <3>2, <3>3
    <3>4. CASE database' # database
      <4>1. Resolve(u) # t
        BY <1>7, <2>1, <3>1, <3>4 DEF AlterUnknownTable, Meets
      <4> QED
        BY <1>7, <3>2, <4>1 DEF AlterUnknownTable, Moved
    <3> QED
      BY <3>3, <3>4
  <2> QED
    BY <1>7, <2>1 DEF AlterUnknownTable
<1>8. CASE ExecuteSql
  BY <1>8 DEF ExecuteSql
<1>16. CASE RunUnread
  BY <1>16 DEF RunUnread, Meets
<1>17. CASE RunSql
  BY <1>17 DEF RunSql, Meets
<1>9. ASSUME NEW n \in Names, CreateModel(n) PROVE CreatedAreNew'
  BY <1>9 DEF CreateModel, ModelTable
<1>10. ASSUME NEW n \in Names, DeleteModel(n) PROVE CreatedAreNew'
  BY <1>10, ModelTableInjective DEF DeleteModel
<1>11. ASSUME NEW n \in Names, AlterModel(n) PROVE CreatedAreNew'
  BY <1>11 DEF AlterModel
<1>12. ASSUME NEW n \in Names, StateCreateModel(n) PROVE CreatedAreNew'
  BY <1>12 DEF StateCreateModel
<1>13. ASSUME NEW n \in Names, StateDeleteModel(n) PROVE CreatedAreNew'
  BY <1>13, ModelTableInjective DEF StateDeleteModel, Meets
<1>14. ASSUME NEW old \in Names, NEW new \in Names, RenameModel(old, new)
       PROVE CreatedAreNew'
  <2>1. ASSUME blind' = {}, NEW u \in names'
        PROVE  Lower[u] = u /\ database'[ModelTable(u)] = "new"
    <3>1. ModelTable(old) # ModelTable(new)
      BY <1>14, ModelTableInjective DEF RenameModel
    <3>2. CASE u = Lower[new] /\ Lower[old] \in names
      <4>1. ModelTable(u) = ModelTable(new) /\ ModelTable(Lower[old]) = ModelTable(old)
        BY <3>2 DEF ModelTable
      <4>2. database[ModelTable(old)] = "new"
        BY <1>14, <2>1, <3>2, <4>1 DEF RenameModel
      <4> QED
        BY <1>14, <3>1, <3>2, <4>1, <4>2 DEF RenameModel, Moved
    <3>3. CASE u \in names /\ u # Lower[old]
      <4>1. Lower[u] = u /\ database[ModelTable(u)] = "new"
        BY <1>14, <2>1, <3>3 DEF RenameModel
      <4>2. ModelTable(u) # ModelTable(old)
        BY <3>3, <4>1, ModelTableInjective
      <4>3. ModelTable(u) # ModelTable(new)
        BY <1>14, <4>1 DEF RenameModel
      <4> QED
        BY <1>14, <3>3, <4>1, <4>2, <4>3 DEF RenameModel, Moved
    <3> QED
      BY <1>14, <2>1, <3>2, <3>3 DEF RenameModel, RenameModelName
  <2> QED
    BY <1>14, <2>1 DEF RenameModel, RenameModelName
<1>15. CASE UNCHANGED vars
  BY <1>15 DEF vars, ModelTable
<1> QED
  BY <1>1, <1>2, <1>3, <1>4, <1>5, <1>6, <1>7, <1>8, <1>9, <1>10, <1>11, <1>12,
     <1>13, <1>14, <1>15, <1>16, <1>17 DEF Next

LEMMA StepExempt ==
  TypeOK /\ CreatedAreNew /\ ExemptionSound /\ [Next]_vars => ExemptionSound'
<1> SUFFICES ASSUME TypeOK, CreatedAreNew, ExemptionSound, [Next]_vars,
                    blind' = {}, exempt'
             PROVE  target' = "new"
  BY DEF ExemptionSound
<1> USE DEF TypeOK, Handle, walker, CreatedAreNew, UsesSqlTableIdentity, ExemptionSound
<1>1. ASSUME NEW t \in TableIdentity, CreateTable(t) PROVE target' = "new"
  BY <1>1 DEF CreateTable
<1>2. ASSUME NEW t \in TableIdentity, CreateTableUncertain(t) PROVE FALSE
  BY <1>2 DEF CreateTableUncertain
<1>3. ASSUME NEW t \in TableIdentity, AlterTable(t) PROVE target' = "new"
  BY <1>3 DEF AlterTable, ContainsTable, Meets
<1>4. ASSUME NEW t \in TableIdentity, ExecuteAlter(t) PROVE target' = "new"
  <2>1. PICK u \in sqlTables : u.schema = t.schema /\ Lower[u.name] = Lower[t.name]
    BY <1>4 DEF ExecuteAlter, ContainsSqlTable
  <2>2. blind = {} /\ ~\E n \in Names : n # t.name /\ Lower[n] = Lower[t.name]
    BY <1>4 DEF ExecuteAlter, Meets
  <2>3. u = t
    BY <2>1, <2>2 DEF TableIdentity
  <2> QED
    BY <1>4, <2>2, <2>3 DEF ExecuteAlter
<1>5. ASSUME NEW t \in TableIdentity, NEW runs \in BOOLEAN, DropTable(t, runs)
      PROVE target' = "new"
  BY <1>5 DEF DropTable, ContainsTable, Meets
<1>6. ASSUME NEW old \in TableIdentity, NEW new \in TableIdentity, NEW runs \in BOOLEAN,
             RenameTable(old, new, runs)
      PROVE target' = "new"
  <2>1. blind = {} /\ runs /\ ~Alias(old) /\ ~Alias(new)
    BY <1>6 DEF RenameTable, Meets, Alias
  <2>2. CASE old \in sqlTables
    BY <1>6, <2>1, <2>2 DEF RenameTable
  <2>3. CASE new \in sqlTables
    \* It would be there, and the rename refused.
    BY <1>6, <2>1, <2>3 DEF RenameTable
  <2> QED
    BY <1>6, <2>2, <2>3 DEF RenameTable, RenameSqlTable, ContainsTable
<1>7. ASSUME NEW t \in Tables, AlterUnknownTable(t) PROVE FALSE
  BY <1>7 DEF AlterUnknownTable, ContainsTable
<1>8. ASSUME ExecuteSql PROVE FALSE
  BY <1>8 DEF ExecuteSql
<1>16. CASE RunUnread
  BY <1>16 DEF RunUnread, Meets
<1>17. ASSUME RunSql PROVE FALSE
  BY <1>17 DEF RunSql
<1>9. ASSUME NEW n \in Names, CreateModel(n) PROVE target' = "new"
  BY <1>9 DEF CreateModel
<1>10. ASSUME NEW n \in Names, DeleteModel(n) PROVE target' = "new"
  BY <1>10, LowerAssumption DEF DeleteModel, ContainsModel, ModelTable
<1>11. ASSUME NEW n \in Names, AlterModel(n) PROVE target' = "new"
  BY <1>11, LowerAssumption DEF AlterModel, ContainsModel, ModelTable
<1>12. ASSUME NEW n \in Names, StateCreateModel(n) PROVE target' = "new"
  BY <1>12 DEF StateCreateModel
<1>13. ASSUME NEW n \in Names, StateDeleteModel(n) PROVE target' = "new"
  BY <1>13 DEF StateDeleteModel, Meets
<1>14. ASSUME NEW old \in Names, NEW new \in Names, RenameModel(old, new)
       PROVE target' = "new"
  <2>1. Lower[new] \in names' /\ blind = {}
    BY <1>14 DEF RenameModel, ContainsModel
  <2>2. CASE Lower[old] \in names
    BY <1>14, <2>1, <2>2, LowerAssumption DEF RenameModel, ModelTable
  <2>3. CASE Lower[new] \in names
    BY <1>14, <2>1, <2>3, LowerAssumption DEF RenameModel, ModelTable
  <2> QED
    BY <1>14, <2>1, <2>2, <2>3 DEF RenameModel, RenameModelName
<1>15. CASE UNCHANGED vars
  BY <1>15 DEF vars
<1> QED
  BY <1>1, <1>2, <1>3, <1>4, <1>5, <1>6, <1>7, <1>8, <1>9, <1>10, <1>11, <1>12,
     <1>13, <1>14, <1>15, <1>16, <1>17 DEF Next

(***************************************************************************)
(* ExemptionSound: whatever the names, schemas and constructs, no rule is  *)
(* told that a table was created here when it was not, unless the          *)
(* migration met a construct of Blindness before.                          *)
(***************************************************************************)
THEOREM ExemptionIsSound == Spec => [](CreatedAreNew /\ ExemptionSound)
<1>1. Init => CreatedAreNew /\ ExemptionSound
  BY DEF Init, CreatedAreNew, ExemptionSound
<1>2. /\ TypeOK /\ CreatedAreNew /\ ExemptionSound
      /\ [Next]_vars
      => (CreatedAreNew /\ ExemptionSound)'
  BY StepCreated, StepExempt
<1> QED
  BY <1>1, <1>2, TypeCorrect, PTL DEF Spec

(***************************************************************************)
(* CreatedAreNew: the sets of the walk hold nothing that was there before  *)
(* the migration, whatever it creates, renames and drops, until the first  *)
(* construct of Blindness.                                                 *)
(***************************************************************************)
THEOREM CreatedStayNew == Spec => []CreatedAreNew
BY ExemptionIsSound, PTL

-----------------------------------------------------------------------------
(* The refinement of FreshTables.                                          *)

\* What holds of a walk that has met no construct of Blindness.
Sighted == TypeOK /\ CreatedAreNew /\ blind = {}

LEMMA StaysSighted == ASSUME Features = {} PROVE Spec => []Sighted
<1>1. Init => blind = {}
  BY DEF Init
<1>2. blind = {} /\ [Next]_vars => (blind = {})'
  BY DEF Next, vars, walker, Meets, CreateTable, CreateTableUncertain, AlterTable,
         ExecuteAlter, DropTable, RenameTable, AlterUnknownTable, ExecuteSql,
         CreateModel, DeleteModel, AlterModel, StateCreateModel, StateDeleteModel,
         RenameModel, RunUnread, RunSql
<1> QED
  BY <1>1, <1>2, TypeCorrect, CreatedStayNew, PTL DEF Spec, Sighted

\* The fresh tables are new, and a statement's table is one of them exactly
\* when the walk has its identity or its lower-cased name.
LEMMA FreshAreNew ==
  ASSUME Sighted
  PROVE  /\ FreshImage \subseteq Tables
         /\ \A x \in FreshImage : database[x] = "new"
BY ResolveTable, ModelTableTable DEF FreshImage, Sighted, TypeOK, CreatedAreNew

LEMMA FreshIdentity ==
  ASSUME Sighted, framework # "Django", NEW t \in TableIdentity, ~Alias(t)
  PROVE  Resolve(t) \in FreshImage <=> t \in sqlTables
<1>1. names = {}
  BY DEF Sighted, CreatedAreNew
<1>2. ASSUME NEW u \in sqlTables, Resolve(t) = Resolve(u) PROVE t = u
  BY <1>2, ResolveInjective DEF Sighted, TypeOK, CreatedAreNew
<1> QED
  BY <1>1, <1>2 DEF FreshImage

LEMMA FreshModel ==
  ASSUME Sighted, framework = "Django", NEW n \in Names
  PROVE  ModelTable(n) \in FreshImage <=> Lower[n] \in names
<1>1. sqlTables = {} /\ \A m \in names : m \in Names /\ Lower[m] = m
  BY DEF Sighted, TypeOK, CreatedAreNew
<1>2. ASSUME NEW m \in names, ModelTable(n) = ModelTable(m) PROVE Lower[n] = m
  BY <1>1, <1>2, ModelTableInjective
<1>3. ASSUME Lower[n] \in names PROVE ModelTable(n) \in FreshImage
  <2>1. ModelTable(n) = ModelTable(Lower[n])
    BY LowerAssumption DEF ModelTable
  <2> QED
    BY <1>3, <2>1 DEF FreshImage
<1> QED
  BY <1>1, <1>2, <1>3 DEF FreshImage

LEMMA CreateTableFresh ==
  ASSUME Sighted, NEW t \in TableIdentity, CreateTable(t)
  PROVE  Fresh!Create(Resolve(t))
BY DEF CreateTable, Fresh!Create, Fresh!Judge, Handle, FreshImage

LEMMA CreateTableUncertainFresh ==
  ASSUME Sighted, NEW t \in TableIdentity, CreateTableUncertain(t)
  PROVE  Fresh!CreateUncertain(Resolve(t))
BY DEF CreateTableUncertain, Fresh!CreateUncertain, Fresh!Judge, Handle, FreshImage

LEMMA AlterTableFresh ==
  ASSUME Sighted, blind' = {}, NEW t \in TableIdentity, AlterTable(t)
  PROVE  Fresh!Alter(Resolve(t))
<1>1. ~Alias(t) /\ framework # "Django"
  BY DEF AlterTable, Meets, UsesSqlTableIdentity
<1>2. ContainsTable(sqlTables, t) <=> Resolve(t) \in FreshImage
  BY <1>1, FreshIdentity, NoTableAssumption DEF ContainsTable
<1>3. UNCHANGED FreshImage
  BY DEF AlterTable, FreshImage
<1> QED
  BY <1>2, <1>3 DEF AlterTable, Fresh!Alter, Fresh!Judge, Handle, ContainsTable

LEMMA ExecuteAlterFresh ==
  ASSUME Sighted, blind' = {}, NEW t \in TableIdentity, ExecuteAlter(t)
  PROVE  Fresh!RawAlter(Resolve(t))
<1>1. ~Alias(t) /\ framework # "Django"
  BY DEF ExecuteAlter
<1>2. ~\E n \in Names : n # t.name /\ Lower[n] = Lower[t.name]
  BY DEF ExecuteAlter, Meets
<1>3. ContainsSqlTable(sqlTables, t) <=> t \in sqlTables
  <2>1. ASSUME NEW u \in sqlTables, u.schema = t.schema, Lower[u.name] = Lower[t.name]
        PROVE  u = t
    BY <1>2, <2>1 DEF Sighted, TypeOK, TableIdentity
  <2> QED
    BY <2>1 DEF ContainsSqlTable
<1>4. ContainsSqlTable(sqlTables, t) = (Resolve(t) \in FreshImage)
  <2>1. ContainsSqlTable(sqlTables, t) \in BOOLEAN
    BY DEF ContainsSqlTable
  <2> QED
    BY <1>1, <1>3, <2>1, FreshIdentity
<1>5. FreshImage' = {}
  BY <1>1 DEF ExecuteAlter, FreshImage, Sighted, CreatedAreNew
<1> QED
  BY <1>4, <1>5 DEF ExecuteAlter, Fresh!RawAlter, Fresh!Judge, Handle

LEMMA DropTableFresh ==
  ASSUME Sighted, blind' = {}, NEW t \in TableIdentity, NEW runs \in BOOLEAN,
         DropTable(t, runs)
  PROVE  Fresh!Drop(Resolve(t))
<1>1. ~Alias(t) /\ framework # "Django"
  BY DEF DropTable, Meets, UsesSqlTableIdentity
<1>2. ContainsTable(sqlTables, t) = (Resolve(t) \in FreshImage)
  BY <1>1, FreshIdentity, NoTableAssumption DEF ContainsTable
<1>3. FreshImage' = FreshImage \ {Resolve(t)}
  <2>1. names = {} /\ \A u \in sqlTables : u \in TableIdentity /\ ~Alias(u)
    BY <1>1 DEF Sighted, TypeOK, CreatedAreNew
  <2>2. \A u \in sqlTables : Resolve(u) = Resolve(t) => u = t
    BY <1>1, <2>1, ResolveInjective
  <2>3. names' = {} /\ sqlTables' = sqlTables \ {t}
    BY <2>1 DEF DropTable
  <2> QED
    BY <2>1, <2>2, <2>3 DEF FreshImage
<1> QED
  BY <1>2, <1>3 DEF DropTable, Fresh!Drop, Fresh!Judge, Handle

LEMMA RenameTableFresh ==
  ASSUME Sighted, blind' = {}, NEW old \in TableIdentity, NEW new \in TableIdentity,
         NEW runs \in BOOLEAN, RenameTable(old, new, runs)
  PROVE  Fresh!Rename(Resolve(old), Resolve(new))
<1>1. runs /\ ~Alias(old) /\ ~Alias(new) /\ framework # "Django"
  BY DEF RenameTable, Meets, UsesSqlTableIdentity, Alias
<1>2. Resolve(new) \notin FreshImage
  BY <1>1, FreshAreNew DEF RenameTable
<1>3. new \notin sqlTables
  BY <1>1, <1>2, FreshIdentity
<1>4. old \in sqlTables <=> Resolve(old) \in FreshImage
  BY <1>1, FreshIdentity
<1>5. ContainsTable(sqlTables', new) = (Resolve(old) \in FreshImage)
  BY <1>3, <1>4, NoTableAssumption DEF RenameTable, RenameSqlTable, ContainsTable
<1>6. FreshImage' = IF Resolve(old) \in FreshImage
                    THEN (FreshImage \ {Resolve(old)}) \cup {Resolve(new)} ELSE FreshImage
  <2>1. names = {} /\ \A u \in sqlTables : u \in TableIdentity /\ ~Alias(u)
    BY <1>1 DEF Sighted, TypeOK, CreatedAreNew
  <2>2. \A u \in sqlTables : Resolve(u) = Resolve(old) => u = old
    BY <1>1, <2>1, ResolveInjective
  <2>3. names' = {} /\ sqlTables' = RenameSqlTable(sqlTables, old, new)
    BY <2>1 DEF RenameTable
  <2> QED
    BY <1>4, <2>1, <2>2, <2>3 DEF FreshImage, RenameSqlTable
<1> QED
  BY <1>1, <1>5, <1>6 DEF RenameTable, Moved, Fresh!Rename, Fresh!Judge, Handle

LEMMA CreateModelFresh ==
  ASSUME Sighted, NEW n \in Names, CreateModel(n)
  PROVE  Fresh!Create(ModelTable(n))
<1>1. ModelTable(Lower[n]) = ModelTable(n)
  BY LowerAssumption DEF ModelTable
<1> QED
  BY <1>1 DEF CreateModel, Fresh!Create, Fresh!Judge, Handle, FreshImage

LEMMA DeleteModelFresh ==
  ASSUME Sighted, NEW n \in Names, DeleteModel(n)
  PROVE  Fresh!Drop(ModelTable(n))
<1>1. ContainsModel(names, n) = (ModelTable(n) \in FreshImage)
  BY FreshModel DEF DeleteModel, ContainsModel
<1>2. FreshImage' = FreshImage \ {ModelTable(n)}
  <2>1. sqlTables = {} /\ \A m \in names : m \in Names /\ Lower[m] = m
    BY DEF DeleteModel, Sighted, TypeOK, CreatedAreNew
  <2>2. \A m \in names : ModelTable(m) = ModelTable(n) <=> m = Lower[n]
    BY <2>1, ModelTableInjective, LowerAssumption DEF ModelTable
  <2>3. sqlTables' = {} /\ names' = names \ {Lower[n]}
    BY <2>1 DEF DeleteModel
  <2> QED
    BY <2>1, <2>2, <2>3 DEF FreshImage
<1> QED
  BY <1>1, <1>2 DEF DeleteModel, Fresh!Drop, Fresh!Judge, Handle

LEMMA AlterModelFresh ==
  ASSUME Sighted, NEW n \in Names, AlterModel(n)
  PROVE  Fresh!Alter(ModelTable(n))
<1>1. ContainsModel(names, n) = (ModelTable(n) \in FreshImage)
  BY FreshModel DEF AlterModel, ContainsModel
<1> QED
  BY <1>1 DEF AlterModel, Fresh!Alter, Fresh!Judge, Handle, FreshImage

LEMMA RenameModelFresh ==
  ASSUME Sighted, NEW old \in Names, NEW new \in Names, RenameModel(old, new)
  PROVE  Fresh!Rename(ModelTable(old), ModelTable(new))
<1>1. ModelTable(new) \notin FreshImage
  BY FreshAreNew DEF RenameModel
<1>2. Lower[new] \notin names
  BY <1>1, FreshModel DEF RenameModel
<1>3. Lower[old] \in names <=> ModelTable(old) \in FreshImage
  BY FreshModel DEF RenameModel
<1>4. ContainsModel(names', new) = (ModelTable(old) \in FreshImage)
  BY <1>2, <1>3 DEF RenameModel, RenameModelName, ContainsModel
<1>5. FreshImage' = IF ModelTable(old) \in FreshImage
                    THEN (FreshImage \ {ModelTable(old)}) \cup {ModelTable(new)}
                    ELSE FreshImage
  <2>1. sqlTables = {} /\ \A m \in names : m \in Names /\ Lower[m] = m
    BY DEF RenameModel, Sighted, TypeOK, CreatedAreNew
  <2>2. \A m \in names : ModelTable(m) = ModelTable(old) <=> m = Lower[old]
    BY <2>1, ModelTableInjective, LowerAssumption DEF ModelTable
  <2>3. ModelTable(Lower[new]) = ModelTable(new)
    BY LowerAssumption DEF ModelTable
  <2>4. sqlTables' = {} /\ names' = RenameModelName(names, old, new)
    BY <2>1 DEF RenameModel
  <2> QED
    BY <1>3, <2>1, <2>2, <2>3, <2>4 DEF FreshImage, RenameModelName
<1> QED
  BY <1>4, <1>5 DEF RenameModel, Moved, Fresh!Rename, Fresh!Judge, Handle

LEMMA AlterUnknownFresh ==
  ASSUME Sighted, blind' = {}, NEW t \in Tables, AlterUnknownTable(t)
  PROVE  Fresh!Elsewhere
<1>1. names = {}
  BY DEF AlterUnknownTable, UsesSqlTableIdentity, Sighted, CreatedAreNew
<1>2. UNCHANGED FreshImage
  BY DEF AlterUnknownTable, FreshImage
<1>3. database' \in [Tables -> Status]
  BY DEF AlterUnknownTable, Moved, Sighted, TypeOK
<1>4. ASSUME NEW x \in FreshImage PROVE database'[x] = database[x]
  <2>1. PICK u \in sqlTables : x = Resolve(u)
    BY <1>1, <1>4 DEF FreshImage
  <2>2. x \in Tables /\ database[x] = "new"
    BY <1>4, FreshAreNew
  <2>3. database' = database \/ x # t
    BY <2>1 DEF AlterUnknownTable, Meets
  <2> QED
    BY <2>2, <2>3 DEF AlterUnknownTable, Moved, Sighted, TypeOK
<1> QED
  BY <1>2, <1>3, <1>4 DEF AlterUnknownTable, Fresh!Elsewhere, Fresh!Judge, Fresh!Status,
     Handle, ContainsTable

LEMMA RunUnreadFresh ==
  ASSUME Sighted, blind' = {}, RunUnread
  PROVE  Fresh!Elsewhere
<1>1. names = {}
  BY DEF RunUnread, UsesSqlTableIdentity, Sighted, CreatedAreNew
<1>2. UNCHANGED FreshImage
  BY DEF RunUnread, walker, FreshImage
<1>3. \A x \in FreshImage : database'[x] = "new" /\ database[x] = "new"
  BY <1>1, FreshAreNew DEF RunUnread, Meets, FreshImage
<1> QED
  BY <1>2, <1>3 DEF RunUnread, walker, Fresh!Elsewhere, Fresh!Status

LEMMA RunSqlFresh ==
  ASSUME Sighted, blind' = {}, RunSql
  PROVE  Fresh!Elsewhere
<1>1. sqlTables = {}
  BY DEF RunSql, Sighted, CreatedAreNew
<1>2. UNCHANGED FreshImage
  BY DEF RunSql, FreshImage
<1>3. \A x \in FreshImage : database'[x] = "new" /\ database[x] = "new"
  BY <1>1, FreshAreNew DEF RunSql, Meets, FreshImage
<1> QED
  BY <1>2, <1>3 DEF RunSql, Handle, Fresh!Elsewhere, Fresh!Judge, Fresh!Status

\* A state operation that leaves the fresh tables as they are.
LEMMA StateFresh ==
  ASSUME Sighted, UNCHANGED walker, NEW n \in Names, ModelTable(n) \notin FreshImage,
         NEW s \in Status, database' = [database EXCEPT ![ModelTable(n)] = s]
  PROVE  Fresh!Elsewhere
<1>1. UNCHANGED FreshImage
  BY DEF walker, FreshImage
<1>2. database' \in [Tables -> Status] /\ \A x \in FreshImage : database'[x] = database[x]
  BY FreshAreNew, ModelTableTable DEF Sighted, TypeOK
<1> QED
  BY <1>1, <1>2 DEF walker, Fresh!Elsewhere, Fresh!Status

\* Every step of the walk that meets no construct of Blindness is a step of
\* FreshTables, or changes nothing there.
LEMMA StepFresh ==
  TypeOK /\ CreatedAreNew /\ [Next]_vars => (blind' = {} => [Fresh!Next]_Fresh!vars)
<1> SUFFICES ASSUME TypeOK, CreatedAreNew, [Next]_vars, blind' = {}
             PROVE  [Fresh!Next]_Fresh!vars
  OBVIOUS
<1>0. Sighted
  <2>1. blind = {}
    BY DEF Next, vars, walker, Meets, CreateTable, CreateTableUncertain, AlterTable,
           ExecuteAlter, DropTable, RenameTable, AlterUnknownTable, ExecuteSql,
           CreateModel, DeleteModel, AlterModel, StateCreateModel, StateDeleteModel,
           RenameModel, RunUnread, RunSql
  <2> QED
    BY <2>1 DEF Sighted
<1> USE <1>0
<1> USE ResolveTable, ModelTableTable DEF Fresh!Next
<1>1. ASSUME NEW t \in TableIdentity, CreateTable(t) PROVE Fresh!Next
  BY <1>1, CreateTableFresh
<1>2. ASSUME NEW t \in TableIdentity, CreateTableUncertain(t) PROVE Fresh!Next
  BY <1>2, CreateTableUncertainFresh
<1>3. ASSUME NEW t \in TableIdentity, AlterTable(t) PROVE Fresh!Next
  BY <1>3, AlterTableFresh
<1>4. ASSUME NEW t \in TableIdentity, ExecuteAlter(t) PROVE Fresh!Next
  BY <1>4, ExecuteAlterFresh
<1>5. ASSUME NEW t \in TableIdentity, NEW runs \in BOOLEAN, DropTable(t, runs)
      PROVE  Fresh!Next
  BY <1>5, DropTableFresh
<1>6. ASSUME NEW old \in TableIdentity, NEW new \in TableIdentity, NEW runs \in BOOLEAN,
             RenameTable(old, new, runs)
      PROVE  Fresh!Next
  BY <1>6, RenameTableFresh
<1>7. ASSUME NEW t \in Tables, AlterUnknownTable(t) PROVE Fresh!Next
  BY <1>7, AlterUnknownFresh
<1>16. ASSUME RunUnread PROVE Fresh!Next
  BY <1>16, RunUnreadFresh
<1>17. ASSUME RunSql PROVE Fresh!Next
  BY <1>17, RunSqlFresh
<1>8. ASSUME ExecuteSql PROVE Fresh!Next
  <2>1. FreshImage' = {}
    BY <1>8 DEF ExecuteSql, UsesSqlTableIdentity, FreshImage, Sighted, CreatedAreNew
  <2> QED
    BY <1>8, <2>1 DEF ExecuteSql, Fresh!RawSql, Fresh!Judge, Fresh!Status, Handle
<1>9. ASSUME NEW n \in Names, CreateModel(n) PROVE Fresh!Next
  BY <1>9, CreateModelFresh
<1>10. ASSUME NEW n \in Names, DeleteModel(n) PROVE Fresh!Next
  BY <1>10, DeleteModelFresh
<1>11. ASSUME NEW n \in Names, AlterModel(n) PROVE Fresh!Next
  BY <1>11, AlterModelFresh
<1>12. ASSUME NEW n \in Names, StateCreateModel(n) PROVE Fresh!Next
  <2>1. ModelTable(n) \notin FreshImage
    BY <1>12, FreshAreNew DEF StateCreateModel
  <2> QED
    BY <1>12, <2>1, StateFresh DEF StateCreateModel
<1>13. ASSUME NEW n \in Names, StateDeleteModel(n) PROVE Fresh!Next
  <2>1. ModelTable(n) \notin FreshImage
    BY <1>13, FreshModel DEF StateDeleteModel, Meets
  <2> QED
    BY <1>13, <2>1, StateFresh DEF StateDeleteModel
<1>14. ASSUME NEW old \in Names, NEW new \in Names, RenameModel(old, new) PROVE Fresh!Next
  BY <1>14, RenameModelFresh
<1>15. ASSUME UNCHANGED vars PROVE UNCHANGED Fresh!vars
  BY <1>15 DEF vars, Fresh!vars, FreshImage
<1> HIDE DEF Fresh!Next
<1> QED
  BY <1>1, <1>2, <1>3, <1>4, <1>5, <1>6, <1>7, <1>8, <1>9, <1>10, <1>11, <1>12,
     <1>13, <1>14, <1>15, <1>16, <1>17 DEF Next

(***************************************************************************)
(* ImplementsFreshTables: up to the first construct of Blindness, the two  *)
(* sets of the walk are the fresh tables, statement by statement, for      *)
(* every set of names and schemas.                                         *)
(***************************************************************************)
THEOREM WalkImplementsFreshTables == Spec => ImplementsFreshTables
<1>1. Init => Fresh!Init
  BY DEF Init, Fresh!Init, FreshImage
<1> QED
  BY <1>1, StepFresh, TypeCorrect, CreatedStayNew, PTL DEF Spec, ImplementsFreshTables

(***************************************************************************)
(* Of a migration that uses no construct of Blindness, the whole walk is a *)
(* behaviour of FreshTables.                                               *)
(***************************************************************************)
COROLLARY PlainWalkIsFresh == ASSUME Features = {} PROVE Spec => Fresh!Spec
<1>1. Sighted /\ [Next]_vars /\ Sighted' => [Fresh!Next]_Fresh!vars
  BY StepFresh DEF Sighted
<1>2. Init => Fresh!Init
  BY DEF Init, Fresh!Init, FreshImage
<1> QED
  BY <1>1, <1>2, StaysSighted, PTL DEF Spec, Fresh!Spec
=============================================================================
