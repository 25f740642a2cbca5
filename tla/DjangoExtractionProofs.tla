----------------------- MODULE DjangoExtractionProofs -----------------------
(***************************************************************************)
(* What the reader of a Django migration makes of SQL, of arguments and of *)
(* wrapped operations, for every file: whatever the names, the literals    *)
(* and the depth of the wrappers.                                          *)
(***************************************************************************)
EXTENDS DjangoExtraction, WellFoundedInduction, TLAPS, FiniteSetTheorems, SequenceTheorems

-----------------------------------------------------------------------------
(* Numbers: least elements and induction, said of sets.                    *)

\* A set of numbers that is not empty has a least element.
LEMMA Least ==
  ASSUME NEW T \in SUBSET Nat, T # {}
  PROVE  \E x \in T : \A y \in T : x <= y
<1> DEFINE R == {ss \in Nat \X Nat : ss[1] < ss[2]}
<1>1. IsWellFoundedOn(R, Nat)
  BY NatLessThanWellFounded DEF OpToRel
<1>2. PICK x \in T : \A y \in T : ~(<<y, x>> \in R)
  <2> HIDE DEF R
  <2> QED BY <1>1, WFMin
<1>3. ASSUME NEW y \in T PROVE x <= y
  <2>1. <<y, x>> \in Nat \X Nat /\ <<y, x>>[1] = y /\ <<y, x>>[2] = x
    OBVIOUS
  <2>2. ~(y < x)
    BY <1>2, <2>1
  <2> QED
    BY <2>2
<1> QED
  BY <1>2, <1>3

\* A set that holds 0 and with every number the next holds all of them.
LEMMA Induction ==
  ASSUME NEW S \in SUBSET Nat, 0 \in S, \A n \in S : n + 1 \in S
  PROVE  S = Nat
<1> SUFFICES ASSUME S # Nat PROVE FALSE
  OBVIOUS
<1>1. PICK x \in Nat \ S : \A y \in Nat \ S : x <= y
  <2>1. Nat \ S # {} /\ Nat \ S \in SUBSET Nat
    OBVIOUS
  <2> QED
    BY <2>1, Least
<1>2. x - 1 \in Nat /\ x - 1 < x
  BY <1>1
<1>3. x - 1 \in S
  BY <1>1, <1>2
<1> QED
  BY <1>1, <1>3

-----------------------------------------------------------------------------
(* Arguments: by place, by keyword and as Python binds them.               *)

\* An argument list is a sequence, and its places are numbers.
LEMMA PlacesAreNumbers ==
  ASSUME NEW args \in ArgumentLists
  PROVE  Len(args) \in Nat /\ DOMAIN args = 1..Len(args) /\ Places(args) \subseteq 1..Len(args)
<1> DEFINE Given == [key : STRING, value : Nodes]
<1>1. args \in Seq(Given)
  BY DEF ArgumentLists
<1> HIDE DEF Given
<1>2. Len(args) \in Nat /\ DOMAIN args = 1..Len(args)
  BY <1>1
<1>3. Places(args) \subseteq DOMAIN args
  BY DEF Places
<1> QED
  BY <1>2, <1>3

\* No two values have the same place.
LEMMA PlacesDiffer ==
  ASSUME NEW args \in ArgumentLists, NEW i \in Places(args), NEW j \in Places(args), i # j
  PROVE  Ordinal(args, i) # Ordinal(args, j)
<1> DEFINE Upto(k) == {m \in Places(args) : m <= k}
<1>0. Places(args) \subseteq 1..Len(args) /\ Len(args) \in Nat
  BY PlacesAreNumbers
<1>1. ASSUME NEW k \in Places(args), NEW l \in Places(args), k < l
      PROVE  Ordinal(args, k) # Ordinal(args, l)
  <2>1. IsFiniteSet(1..Len(args))
    BY <1>0, FS_Interval
  <2>2. Upto(l) \subseteq 1..Len(args)
    BY <1>0
  <2>3. \A m \in Places(args) : m \in Int
    BY <1>0
  <2>4. k \in Int /\ l \in Int
    BY <2>3
  <2>5. l \in Upto(l) /\ l \notin Upto(k)
    BY <1>1, <2>4
  <2>6. \A m \in Upto(k) : m \in Upto(l)
    BY <1>1, <2>3, <2>4
  <2>7. Cardinality(Upto(k)) # Cardinality(Upto(l))
    <3> HIDE DEF Upto
    <3> QED
      BY <2>1, <2>2, <2>5, <2>6, FS_Subset
  <2> QED
    BY <2>7 DEF Ordinal
<1>2. i < j \/ j < i
  BY <1>0
<1> QED
  BY <1>1, <1>2

\* An argument is given once.
LEMMA OneArgument ==
  ASSUME NEW type, NEW args \in ArgumentLists, Accepted(type, args), NEW key, key # "",
         NEW n \in Nat, NEW v \in Argument(args, key, n), NEW w \in Argument(args, key, n)
  PROVE  v = w
<1>2. CASE KeywordValue(args, key) # {}
  <2>1. PICK i \in DOMAIN args : args[i].key = key /\ v = args[i].value
    BY <1>2 DEF Argument, KeywordValue
  <2>2. PICK j \in DOMAIN args : args[j].key = key /\ w = args[j].value
    BY <1>2 DEF Argument, KeywordValue
  <2>3. i = j
    BY <2>1, <2>2 DEF Accepted
  <2> QED
    BY <2>1, <2>2, <2>3
<1>3. CASE KeywordValue(args, key) = {}
  <2>1. PICK i \in Places(args) : Ordinal(args, i) = n + 1 /\ v = args[i].value
    BY <1>3 DEF Argument, NthPositional
  <2>2. PICK j \in Places(args) : Ordinal(args, j) = n + 1 /\ w = args[j].value
    BY <1>3 DEF Argument, NthPositional
  <2>3. i = j
    BY <2>1, <2>2, PlacesDiffer
  <2> QED
    BY <2>1, <2>2, <2>3
<1> QED
  BY <1>2, <1>3

\* The n-th parameter is the argument looked for at the n-th place.
LEMMA Binding ==
  ASSUME NEW type, NEW args, Accepted(type, args), NEW p, p # "", NEW n \in Nat,
         Signature(type) # <<>>, n + 1 \in DOMAIN Signature(type), Signature(type)[n + 1] = p,
         \A m \in DOMAIN Signature(type) : Signature(type)[m] = p => m = n + 1
  PROVE  Argument(args, p, n) = Parameter(type, args, p)
<1> DEFINE Keyword0 == {i \in DOMAIN args : args[i].key = p}
           Placed == {i \in Places(args) : Ordinal(args, i) = n + 1}
<1>1. Placed = {i \in Places(args) : /\ Ordinal(args, i) \in DOMAIN Signature(type)
                                     /\ Signature(type)[Ordinal(args, i)] = p}
  OBVIOUS
<1>2. Parameter(type, args, p) = {args[i].value : i \in Keyword0 \cup Placed}
  <2>1. Places(args) \subseteq DOMAIN args
    BY DEF Places
  <2> QED
    BY <1>1, <2>1 DEF Parameter
<1>3. Keyword0 # {} => Placed = {}
  BY <1>1 DEF Accepted
<1>4. KeywordValue(args, p) = {args[i].value : i \in Keyword0}
  BY DEF KeywordValue
<1>5. NthPositional(args, n) = {args[i].value : i \in Placed}
  BY DEF NthPositional
<1> HIDE DEF Keyword0, Placed
<1>6. CASE Keyword0 = {}
  BY <1>2, <1>4, <1>5, <1>6 DEF Argument
<1>7. CASE Keyword0 # {}
  <2>1. KeywordValue(args, p) # {}
    BY <1>4, <1>7
  <2> QED
    BY <1>2, <1>3, <1>4, <1>7, <2>1 DEF Argument
<1> QED
  BY <1>6, <1>7
\* What the code looks for, by name and place, is what Python binds.
Binds(type, args, p, n) == Argument(args, p, n) = Parameter(type, args, p)

LEMMA ParametersBound ==
  ASSUME NEW type, NEW args, Accepted(type, args)
  PROVE  /\ type \in IndexTypes \cup ConstraintTypes => Binds(type, args, "model_name", 0)
         /\ type = "RenameModel" => Binds(type, args, "old_name", 0) /\ Binds(type, args, "new_name", 1)
         /\ type \in ModelTypes => Binds(type, args, "name", 0)
         /\ type \in FieldTypes \ {"RenameField"} => Binds(type, args, "model_name", 0) /\ Binds(type, args, "name", 1)
         /\ type \in WithField => Binds(type, args, "field", 2)
         /\ type = "RenameField" => /\ Binds(type, args, "model_name", 0)
                                   /\ Binds(type, args, "old_name", 1) /\ Binds(type, args, "new_name", 2)
         /\ type = "AddConstraint" => Binds(type, args, "constraint", 1)
         /\ type \in TogetherTypes => Binds(type, args, "name", 0) /\ Binds(type, args, Together(type), 1)
         /\ type = "RunSQL" => Binds(type, args, "sql", 0) /\ Binds(type, args, "reverse_sql", 1)
         /\ type = "RunPython" => Binds(type, args, "code", 0) /\ Binds(type, args, "reverse_code", 1)
         /\ type = Separate => /\ Binds(type, args, "database_operations", 0)
                              /\ Binds(type, args, "state_operations", 1)
<1> DEFINE sig == Signature(type)
<1>1. ASSUME type \in {"AddIndex", "AddIndexConcurrently"}
      PROVE  Binds(type, args, "model_name", 0)
  <2>1. sig = <<"model_name", "index">>
    BY <1>1 DEF Signature, WithField, TogetherTypes, Together, Separate
  <2>2. /\ sig # <<>> /\ 0 + 1 \in DOMAIN sig /\ sig[0 + 1] = "model_name"
        /\ \A m \in DOMAIN sig : sig[m] = "model_name" => m = 0 + 1
    BY <2>1
  <2> QED
    BY <2>2, Binding DEF Binds
<1>2. ASSUME type \in {"RemoveIndex", "RemoveIndexConcurrently", "RemoveConstraint"}
      PROVE  Binds(type, args, "model_name", 0)
  <2>1. sig = <<"model_name", "name">>
    BY <1>2 DEF Signature, WithField, TogetherTypes, Together, Separate
  <2>2. /\ sig # <<>> /\ 0 + 1 \in DOMAIN sig /\ sig[0 + 1] = "model_name"
        /\ \A m \in DOMAIN sig : sig[m] = "model_name" => m = 0 + 1
    BY <2>1
  <2> QED
    BY <2>2, Binding DEF Binds
<1>3. ASSUME type = "RemoveField"
      PROVE  Binds(type, args, "model_name", 0) /\ Binds(type, args, "name", 1)
  <2>1. sig = <<"model_name", "name">>
    BY <1>3 DEF Signature, WithField, TogetherTypes, Together, Separate
  <2>2. /\ sig # <<>> /\ 0 + 1 \in DOMAIN sig /\ sig[0 + 1] = "model_name"
        /\ \A m \in DOMAIN sig : sig[m] = "model_name" => m = 0 + 1
    BY <2>1
  <2>3. /\ sig # <<>> /\ 1 + 1 \in DOMAIN sig /\ sig[1 + 1] = "name"
        /\ \A m \in DOMAIN sig : sig[m] = "name" => m = 1 + 1
    BY <2>1
  <2> QED
    BY <2>2, <2>3, Binding DEF Binds
<1>4. ASSUME type = "CreateModel"
      PROVE  Binds(type, args, "name", 0)
  <2>1. sig = <<"name", "fields", "options", "bases", "managers">>
    BY <1>4 DEF Signature, WithField, TogetherTypes, Together, Separate
  <2>2. /\ sig # <<>> /\ 0 + 1 \in DOMAIN sig /\ sig[0 + 1] = "name"
        /\ \A m \in DOMAIN sig : sig[m] = "name" => m = 0 + 1
    BY <2>1
  <2> QED
    BY <2>2, Binding DEF Binds
<1>5. ASSUME type = "DeleteModel"
      PROVE  Binds(type, args, "name", 0)
  <2>1. sig = <<"name">>
    BY <1>5 DEF Signature, WithField, TogetherTypes, Together, Separate
  <2>2. /\ sig # <<>> /\ 0 + 1 \in DOMAIN sig /\ sig[0 + 1] = "name"
        /\ \A m \in DOMAIN sig : sig[m] = "name" => m = 0 + 1
    BY <2>1
  <2> QED
    BY <2>2, Binding DEF Binds
<1>6. ASSUME type = "RenameModel"
      PROVE  Binds(type, args, "old_name", 0) /\ Binds(type, args, "new_name", 1)
  <2>1. sig = <<"old_name", "new_name">>
    BY <1>6 DEF Signature, WithField, TogetherTypes, Together, Separate
  <2>2. /\ sig # <<>> /\ 0 + 1 \in DOMAIN sig /\ sig[0 + 1] = "old_name"
        /\ \A m \in DOMAIN sig : sig[m] = "old_name" => m = 0 + 1
    BY <2>1
  <2>3. /\ sig # <<>> /\ 1 + 1 \in DOMAIN sig /\ sig[1 + 1] = "new_name"
        /\ \A m \in DOMAIN sig : sig[m] = "new_name" => m = 1 + 1
    BY <2>1
  <2> QED
    BY <2>2, <2>3, Binding DEF Binds
<1>7. ASSUME type = "AlterModelTable"
      PROVE  Binds(type, args, "name", 0)
  <2>1. sig = <<"name", "table">>
    BY <1>7 DEF Signature, WithField, TogetherTypes, Together, Separate
  <2>2. /\ sig # <<>> /\ 0 + 1 \in DOMAIN sig /\ sig[0 + 1] = "name"
        /\ \A m \in DOMAIN sig : sig[m] = "name" => m = 0 + 1
    BY <2>1
  <2> QED
    BY <2>2, Binding DEF Binds
<1>8. ASSUME type \in WithField
      PROVE  Binds(type, args, "model_name", 0) /\ Binds(type, args, "name", 1) /\ Binds(type, args, "field", 2)
  <2>1. sig = <<"model_name", "name", "field", "preserve_default">>
    BY <1>8 DEF Signature, WithField, TogetherTypes, Together, Separate
  <2>2. /\ sig # <<>> /\ 0 + 1 \in DOMAIN sig /\ sig[0 + 1] = "model_name"
        /\ \A m \in DOMAIN sig : sig[m] = "model_name" => m = 0 + 1
    BY <2>1
  <2>3. /\ sig # <<>> /\ 1 + 1 \in DOMAIN sig /\ sig[1 + 1] = "name"
        /\ \A m \in DOMAIN sig : sig[m] = "name" => m = 1 + 1
    BY <2>1
  <2>4. /\ sig # <<>> /\ 2 + 1 \in DOMAIN sig /\ sig[2 + 1] = "field"
        /\ \A m \in DOMAIN sig : sig[m] = "field" => m = 2 + 1
    BY <2>1
  <2> QED
    BY <2>2, <2>3, <2>4, Binding DEF Binds
<1>9. ASSUME type = "RenameField"
      PROVE  Binds(type, args, "model_name", 0) /\ Binds(type, args, "old_name", 1) /\ Binds(type, args, "new_name", 2)
  <2>1. sig = <<"model_name", "old_name", "new_name">>
    BY <1>9 DEF Signature, WithField, TogetherTypes, Together, Separate
  <2>2. /\ sig # <<>> /\ 0 + 1 \in DOMAIN sig /\ sig[0 + 1] = "model_name"
        /\ \A m \in DOMAIN sig : sig[m] = "model_name" => m = 0 + 1
    BY <2>1
  <2>3. /\ sig # <<>> /\ 1 + 1 \in DOMAIN sig /\ sig[1 + 1] = "old_name"
        /\ \A m \in DOMAIN sig : sig[m] = "old_name" => m = 1 + 1
    BY <2>1
  <2>4. /\ sig # <<>> /\ 2 + 1 \in DOMAIN sig /\ sig[2 + 1] = "new_name"
        /\ \A m \in DOMAIN sig : sig[m] = "new_name" => m = 2 + 1
    BY <2>1
  <2> QED
    BY <2>2, <2>3, <2>4, Binding DEF Binds
<1>10. ASSUME type = "AddConstraint"
      PROVE  Binds(type, args, "model_name", 0) /\ Binds(type, args, "constraint", 1)
  <2>1. sig = <<"model_name", "constraint">>
    BY <1>10 DEF Signature, WithField, TogetherTypes, Together, Separate
  <2>2. /\ sig # <<>> /\ 0 + 1 \in DOMAIN sig /\ sig[0 + 1] = "model_name"
        /\ \A m \in DOMAIN sig : sig[m] = "model_name" => m = 0 + 1
    BY <2>1
  <2>3. /\ sig # <<>> /\ 1 + 1 \in DOMAIN sig /\ sig[1 + 1] = "constraint"
        /\ \A m \in DOMAIN sig : sig[m] = "constraint" => m = 1 + 1
    BY <2>1
  <2> QED
    BY <2>2, <2>3, Binding DEF Binds
<1>11. ASSUME type = "AlterUniqueTogether"
      PROVE  Binds(type, args, "name", 0) /\ Binds(type, args, "unique_together", 1)
  <2>1. sig = <<"name", "unique_together">>
    BY <1>11 DEF Signature, WithField, TogetherTypes, Together, Separate
  <2>2. /\ sig # <<>> /\ 0 + 1 \in DOMAIN sig /\ sig[0 + 1] = "name"
        /\ \A m \in DOMAIN sig : sig[m] = "name" => m = 0 + 1
    BY <2>1
  <2>3. /\ sig # <<>> /\ 1 + 1 \in DOMAIN sig /\ sig[1 + 1] = "unique_together"
        /\ \A m \in DOMAIN sig : sig[m] = "unique_together" => m = 1 + 1
    BY <2>1
  <2> QED
    BY <2>2, <2>3, Binding DEF Binds
<1>12. ASSUME type = "AlterIndexTogether"
      PROVE  Binds(type, args, "name", 0) /\ Binds(type, args, "index_together", 1)
  <2>1. sig = <<"name", "index_together">>
    BY <1>12 DEF Signature, WithField, TogetherTypes, Together, Separate
  <2>2. /\ sig # <<>> /\ 0 + 1 \in DOMAIN sig /\ sig[0 + 1] = "name"
        /\ \A m \in DOMAIN sig : sig[m] = "name" => m = 0 + 1
    BY <2>1
  <2>3. /\ sig # <<>> /\ 1 + 1 \in DOMAIN sig /\ sig[1 + 1] = "index_together"
        /\ \A m \in DOMAIN sig : sig[m] = "index_together" => m = 1 + 1
    BY <2>1
  <2> QED
    BY <2>2, <2>3, Binding DEF Binds
<1>13. ASSUME type = "RunSQL"
      PROVE  Binds(type, args, "sql", 0) /\ Binds(type, args, "reverse_sql", 1)
  <2>1. sig = <<"sql", "reverse_sql", "state_operations", "hints", "elidable">>
    BY <1>13 DEF Signature, WithField, TogetherTypes, Together, Separate
  <2>2. /\ sig # <<>> /\ 0 + 1 \in DOMAIN sig /\ sig[0 + 1] = "sql"
        /\ \A m \in DOMAIN sig : sig[m] = "sql" => m = 0 + 1
    BY <2>1
  <2>3. /\ sig # <<>> /\ 1 + 1 \in DOMAIN sig /\ sig[1 + 1] = "reverse_sql"
        /\ \A m \in DOMAIN sig : sig[m] = "reverse_sql" => m = 1 + 1
    BY <2>1
  <2> QED
    BY <2>2, <2>3, Binding DEF Binds
<1>14. ASSUME type = "RunPython"
      PROVE  Binds(type, args, "code", 0) /\ Binds(type, args, "reverse_code", 1)
  <2>1. sig = <<"code", "reverse_code", "atomic", "hints", "elidable">>
    BY <1>14 DEF Signature, WithField, TogetherTypes, Together, Separate
  <2>2. /\ sig # <<>> /\ 0 + 1 \in DOMAIN sig /\ sig[0 + 1] = "code"
        /\ \A m \in DOMAIN sig : sig[m] = "code" => m = 0 + 1
    BY <2>1
  <2>3. /\ sig # <<>> /\ 1 + 1 \in DOMAIN sig /\ sig[1 + 1] = "reverse_code"
        /\ \A m \in DOMAIN sig : sig[m] = "reverse_code" => m = 1 + 1
    BY <2>1
  <2> QED
    BY <2>2, <2>3, Binding DEF Binds
<1>15. ASSUME type = Separate
      PROVE  Binds(type, args, "database_operations", 0) /\ Binds(type, args, "state_operations", 1)
  <2>1. sig = <<"database_operations", "state_operations">>
    BY <1>15 DEF Signature, WithField, TogetherTypes, Together, Separate
  <2>2. /\ sig # <<>> /\ 0 + 1 \in DOMAIN sig /\ sig[0 + 1] = "database_operations"
        /\ \A m \in DOMAIN sig : sig[m] = "database_operations" => m = 0 + 1
    BY <2>1
  <2>3. /\ sig # <<>> /\ 1 + 1 \in DOMAIN sig /\ sig[1 + 1] = "state_operations"
        /\ \A m \in DOMAIN sig : sig[m] = "state_operations" => m = 1 + 1
    BY <2>1
  <2> QED
    BY <2>2, <2>3, Binding DEF Binds
<1> QED
  BY <1>1, <1>2, <1>3, <1>4, <1>5, <1>6, <1>7, <1>8, <1>9, <1>10, <1>11, <1>12, <1>13, <1>14, <1>15
     DEF IndexTypes, ConstraintTypes, ModelTypes, FieldTypes, WithField, TogetherTypes, Together, Separate

-----------------------------------------------------------------------------
(* The names and the walk.                                                 *)

\* The names hold expressions of the file; the code's iterator has the same
\* ahead of it as Django for as long as the element is written out.
NamesOK == bindings \in [Variables -> Nodes] /\ env \in [Variables -> Nodes]
WalkOK ==
    /\ todo \in Seq(Nodes) /\ pending \in Seq(Nodes)
    /\ last \in Nodes /\ running \in Nodes
    /\ direct \in BOOLEAN
    /\ direct => todo = pending /\ last = running
IInv == TypeOK /\ NamesOK /\ WalkOK

LEMMA FileNodes ==
  /\ Values \subseteq Nodes /\ Operations \subseteq Nodes /\ Readings \subseteq Nodes
  /\ Unbound \in Nodes /\ Comment \in Nodes /\ Spelled \subseteq Nodes
BY FileAssumption, SpelledAssumption

LEMMA InitInvariant == Init => IInv
<1> SUFFICES ASSUME Init PROVE IInv
  OBVIOUS
<1>1. TypeOK
  BY DEF Init, TypeOK
<1>2. NamesOK
  BY FileNodes DEF Init, NamesOK
<1>3. WalkOK
  BY FileNodes DEF Init, WalkOK, walk
<1> QED
  BY <1>1, <1>2, <1>3 DEF IInv

LEMMA EvaluateInNodes ==
  ASSUME NamesOK, NEW value \in Values
  PROVE  Evaluate(value) \in Nodes
<1>1. value \in Nodes
  BY FileNodes
<1>2. CASE value.kind = "identifier"
  <2>1. value.name \in Variables
    BY <1>1, <1>2, FileAssumption DEF WellFormed, Strings, Sequences
  <2> QED
    BY <1>2, <2>1 DEF Evaluate, NamesOK
<1>3. CASE value.kind # "identifier"
  BY <1>1, <1>3 DEF Evaluate
<1> QED
  BY <1>2, <1>3

LEMMA NamesStep == TypeOK /\ NamesOK /\ [Next]_vars => TypeOK' /\ NamesOK'
<1> SUFFICES ASSUME TypeOK, NamesOK, [Next]_vars
             PROVE  TypeOK' /\ NamesOK'
  OBVIOUS
<1>1. ASSUME NEW v \in Variables, NEW value \in Values, Assign(v, value)
      PROVE  TypeOK' /\ NamesOK'
  <2>1. value \in Nodes /\ Evaluate(value) \in Nodes
    BY FileNodes, EvaluateInNodes
  <2>2. NamesOK'
    BY <1>1, <2>1 DEF Assign, NamesOK
  <2>3. value \in Spelled => Evaluate(value) = value
    BY SpelledAssumption DEF NamesNothing, Evaluate
  <2>4. unclear' \subseteq Variables
    BY <1>1 DEF Assign, UnclearAfter, TypeOK
  <2>5. ASSUME NEW w \in Variables \ unclear'
        PROVE  bindings'[w] = env'[w]
    <3>1. CASE w = v
      <4>1. value \in Spelled
        BY <1>1, <2>5, <3>1 DEF Assign, UnclearAfter
      <4> QED
        BY <1>1, <2>3, <3>1, <4>1 DEF Assign, NamesOK
    <3>2. CASE w # v
      <4>1. w \notin unclear
        BY <1>1, <2>5, <3>2 DEF Assign, UnclearAfter
      <4> QED
        BY <1>1, <3>2, <4>1 DEF Assign, NamesOK, TypeOK
    <3> QED
      BY <3>1, <3>2
  <2> QED
    BY <1>1, <2>2, <2>4, <2>5 DEF Assign, TypeOK
<1>2. ASSUME NEW v \in Variables, NEW value \in Values, AssignElsewhere(v, value)
      PROVE  TypeOK' /\ NamesOK'
  <2>1. Evaluate(value) \in Nodes
    BY EvaluateInNodes
  <2>2. NamesOK'
    BY <1>2, <2>1 DEF AssignElsewhere, NamesOK
  <2> QED
    BY <1>2, <2>2 DEF AssignElsewhere, TypeOK, NamesOK
<1>3. CASE OpenClass
  BY <1>3 DEF OpenClass, TypeOK, NamesOK
<1>4. CASE OpenOperations
  BY <1>4 DEF OpenOperations, TypeOK, NamesOK
<1>5. ASSUME NEW node, Begin(node) PROVE TypeOK' /\ NamesOK'
  BY <1>5 DEF Begin, TypeOK, NamesOK
<1>6. CASE Step
  BY <1>6 DEF Step, TypeOK, NamesOK
<1>7. CASE NextElement
  BY <1>7 DEF NextElement, TypeOK, NamesOK
<1>8. CASE UNCHANGED vars
  BY <1>8 DEF vars, TypeOK, NamesOK
<1> QED
  BY <1>1, <1>2, <1>3, <1>4, <1>5, <1>6, <1>7, <1>8 DEF Next, ReadOperation, ReadAlone

-----------------------------------------------------------------------------
(* The arms of a wrapper, and the walk through it.                         *)

\* The arguments of a call of the file.
LEMMA ArgumentsOf ==
  ASSUME NEW node \in Nodes, node.kind = "call"
  PROVE  node.args \in ArgumentLists /\ Accepted(Called(node), node.args)
BY FileAssumption DEF WellFormed, Strings, Sequences

LEMMA ItemsOf ==
  ASSUME NEW node \in Nodes, node.kind = "list"
  PROVE  node.items \in Seq(Nodes)
BY FileAssumption DEF WellFormed, Strings, Sequences

LEMMA IdentifiersOf ==
  ASSUME NEW node \in Nodes, node.kind = "identifier"
  PROVE  node.name \in Variables
BY FileAssumption DEF WellFormed, Strings, Sequences

LEMMA ArgumentNodes ==
  ASSUME NEW args \in ArgumentLists, NEW i \in DOMAIN args
  PROVE  args[i].value \in Nodes
<1> DEFINE Given == [key : STRING, value : Nodes]
<1>1. args \in Seq(Given)
  BY DEF ArgumentLists
<1>2. args[i] \in Given
  <2> HIDE DEF Given
  <2> QED
    BY <1>1
<1> QED
  BY <1>2

LEMMA ArmNodes ==
  ASSUME NEW type, NEW args \in ArgumentLists, NEW p
  PROVE  Parameter(type, args, p) \subseteq Nodes
BY ArgumentNodes DEF Parameter

\* The arms the code looks at are those Python binds.
LEMMA ArmsBound ==
  ASSUME NEW node \in Nodes, IsWrapper(node)
  PROVE  /\ DatabaseOperations(node) = DatabaseArm(node) /\ StateOperations(node) = StateArm(node)
         /\ DatabaseArm(node) \subseteq Nodes
         /\ \A m, n \in DatabaseArm(node) : m = n
<1>1. node.kind = "call" /\ Called(node) = Separate
  BY DEF IsWrapper, OperationType, Separate
<1>2. node.args \in ArgumentLists /\ Accepted(Separate, node.args)
  BY <1>1, ArgumentsOf
<1>3. Binds(Separate, node.args, "database_operations", 0) /\ Binds(Separate, node.args, "state_operations", 1)
  BY <1>2, ParametersBound
<1>6. Parameter(Separate, node.args, "database_operations") \subseteq Nodes
  BY <1>2, ArmNodes
<1>7. \A m, n \in Argument(node.args, "database_operations", 0) : m = n
  BY <1>2, OneArgument
<1> QED
  BY <1>3, <1>6, <1>7 DEF Binds, DatabaseOperations, StateOperations, DatabaseArm, StateArm
\* One node takes the place of another: it is there to be read, so the code
\* puts in its place what Django does.
LEMMA WrappedRuns ==
  ASSUME IInv, NEW node \in Nodes
  PROVE  /\ Wrapped(node) \in Seq(Nodes) /\ Runs(node) \in Seq(Nodes)
         /\ IsDirect(node) => Wrapped(node) = Runs(node)
<1>1. CASE ~IsWrapper(node)
  BY <1>1 DEF Wrapped, Runs
<1>2. CASE IsWrapper(node)
  <2> DEFINE seen == UNION {ResolveList(n) : n \in DatabaseArm(node)}
             run == {l \in {Held(n) : n \in DatabaseArm(node)} : l.kind = "list"}
  <2>1. DatabaseArm(node) \subseteq Nodes /\ \A m, n \in DatabaseArm(node) : m = n
    BY <1>2, ArmsBound
  <2>2. Wrapped(node) = TheItems(seen) /\ Runs(node) = TheItems(run)
    BY <1>2, ArmsBound DEF Wrapped, Runs
  <2>3. ASSUME NEW n \in DatabaseArm(node)
        PROVE  /\ ResolveList(n) \subseteq {l \in Nodes : l.kind = "list"} /\ Held(n) \in Nodes
               /\ Clear(n) /\ Held(n).kind = "list" => ResolveList(n) = {Held(n)}
               /\ n = Word("None") => ResolveList(n) = {} /\ Held(n).kind # "list"
    <3>1. n \in Nodes
      BY <2>1, <2>3
    <3>2. CASE n.kind = "identifier"
      <4>1. n.name \in Variables
        BY <3>1, <3>2, FileAssumption DEF WellFormed, Strings, Sequences
      <4>2. bindings[n.name] \in Nodes /\ env[n.name] \in Nodes
        BY <4>1 DEF IInv, NamesOK
      <4>3. Clear(n) => bindings[n.name] = env[n.name]
        BY <3>2, <4>1 DEF IInv, TypeOK, Clear
      <4>4. n # Word("None")
        BY <3>2 DEF Word
      <4> QED
        BY <3>2, <4>2, <4>3, <4>4 DEF ResolveList, Held
    <3>3. CASE n.kind # "identifier"
      <4>1. Word("None").kind = "word"
        BY DEF Word
      <4> QED
        BY <3>1, <3>3, <4>1 DEF ResolveList, Held
    <3> QED
      BY <3>2, <3>3
  <2>4. ASSUME NEW nodes, nodes \subseteq {l \in Nodes : l.kind = "list"}
        PROVE  TheItems(nodes) \in Seq(Nodes)
    <3>1. CASE nodes = {}
      BY <3>1 DEF TheItems
    <3>2. CASE nodes # {}
      <4>1. PICK l \in nodes : l = CHOOSE n \in nodes : TRUE
        BY <3>2
      <4>2. l.items \in Seq(Nodes)
        BY <2>4, <4>1, ItemsOf
      <4> QED
        BY <3>2, <4>1, <4>2 DEF TheItems
    <3> QED
      BY <3>1, <3>2
  <2>5. seen \subseteq {l \in Nodes : l.kind = "list"}
    BY <2>3
  <2>6. run \subseteq {l \in Nodes : l.kind = "list"}
    BY <2>3
  <2>7. ASSUME IsDirect(node) PROVE seen = run
    <3>1. \A n \in DatabaseArm(node) : n = Word("None") \/ (Clear(n) /\ Held(n).kind = "list")
      <4>1. ~IsComment(node) /\ ~IsOperation(node)
        BY <1>2 DEF IsWrapper, IsComment, IsOperation
      <4> QED
        BY <2>7, <4>1 DEF IsDirect
    <3>2. CASE DatabaseArm(node) = {}
      BY <3>2
    <3>3. CASE DatabaseArm(node) # {}
      <4>1. PICK n \in DatabaseArm(node) : DatabaseArm(node) = {n}
        BY <2>1, <3>3
      <4>2. seen = ResolveList(n) /\ run = {l \in {Held(n)} : l.kind = "list"}
        BY <4>1
      <4>3. n = Word("None") \/ (Clear(n) /\ Held(n).kind = "list")
        BY <3>1
      <4>4. CASE n = Word("None")
        BY <2>3, <4>2, <4>4
      <4>5. CASE Clear(n) /\ Held(n).kind = "list"
        BY <2>3, <4>2, <4>5
      <4> QED
        BY <4>3, <4>4, <4>5
    <3> QED
      BY <3>2, <3>3
  <2> HIDE DEF seen, run
  <2> QED
    BY <2>2, <2>4, <2>5, <2>6, <2>7
<1> QED
  BY <1>1, <1>2

LEMMA FirstAndRest ==
  ASSUME NEW S, Comment \in S, NEW nodes \in Seq(S)
  PROVE  First(nodes) \in S /\ Rest(nodes) \in Seq(S)
<1>1. CASE nodes = <<>>
  BY <1>1 DEF First, Rest
<1>2. CASE nodes # <<>>
  BY <1>2 DEF First, Rest
<1> QED
  BY <1>1, <1>2

LEMMA WalkStep == IInv /\ [Next]_vars => WalkOK'
<1> SUFFICES ASSUME IInv, [Next]_vars PROVE WalkOK'
  OBVIOUS
<1> USE DEF IInv
<1>1. CASE UNCHANGED walk
  BY <1>1 DEF WalkOK, walk
<1>2. ASSUME NEW node \in Nodes, Begin(node) PROVE WalkOK'
  <2>1. todo' = <<node>> /\ pending' = <<node>> /\ running' = Comment /\ last' = Comment /\ direct' = TRUE
    BY <1>2 DEF Begin
  <2>2. <<node>> \in Seq(Nodes)
    OBVIOUS
  <2> QED
    BY <2>1, <2>2, FileNodes DEF WalkOK
<1>3. CASE NextElement
  <2>1. todo' = <<>> /\ pending' = <<>> /\ running' = Comment /\ last' = Comment /\ direct' = TRUE
    BY <1>3 DEF NextElement, AtEnd
  <2> QED
    BY <2>1, FileNodes DEF WalkOK
<1>4. CASE Step
  <2>1. First(todo) \in Nodes /\ Rest(todo) \in Seq(Nodes)
    BY FileNodes, FirstAndRest DEF WalkOK
  <2>2. First(pending) \in Nodes /\ Rest(pending) \in Seq(Nodes)
    BY FileNodes, FirstAndRest DEF WalkOK
  <2>3. Wrapped(First(todo)) \in Seq(Nodes) /\ Runs(First(pending)) \in Seq(Nodes)
    BY <2>1, <2>2, WrappedRuns
  <2>4. todo' \in Seq(Nodes) /\ last' \in Nodes
    BY <1>4, <2>1, <2>3 DEF Step
  <2>5. pending' \in Seq(Nodes) /\ running' \in Nodes
    <3>1. <<>> \in Seq(Nodes)
      OBVIOUS
    <3>2. Runs(First(pending)) \o Rest(pending) \in Seq(Nodes)
      BY <2>2, <2>3
    <3> QED
      BY <1>4, <2>2, <3>1, <3>2 DEF Step
  <2>6. direct' \in BOOLEAN
    BY <1>4 DEF Step
  <2>7. ASSUME direct' PROVE todo' = pending' /\ last' = running'
    <3>1. direct /\ IsDirect(First(pending))
      BY <1>4, <2>7 DEF Step
    <3>2. todo = pending
      BY <3>1 DEF WalkOK
    <3>3. Wrapped(First(todo)) = Runs(First(pending))
      BY <2>2, <3>1, <3>2, WrappedRuns
    <3> QED
      BY <1>4, <2>7, <3>2, <3>3 DEF Step
  <2> QED
    BY <2>4, <2>5, <2>6, <2>7 DEF WalkOK
<1> QED
  BY <1>1, <1>2, <1>3, <1>4, FileNodes
     DEF Next, Assign, AssignElsewhere, OpenClass, OpenOperations, ReadOperation, ReadAlone, vars

LEMMA InvariantHolds == Spec => []IInv
<1>1. IInv /\ [Next]_vars => IInv'
  BY NamesStep, WalkStep DEF IInv
<1> QED
  BY <1>1, InitInvariant, PTL DEF Spec

(***************************************************************************)
(* For every module, whatever its names are assigned and by what: what the *)
(* extractor has recorded of a name that only direct assignments gave a    *)
(* value, one that mentions no other name, is what Python holds there.     *)
(***************************************************************************)
THEOREM TypeCorrect == Spec => []TypeOK
<1>1. IInv => TypeOK
  BY DEF IInv
<1> QED
  BY <1>1, InvariantHolds, PTL

LEMMA ArmJudged ==
  ASSUME IInv, NEW arm \in SUBSET Nodes
  PROVE  ArmSound(arm, Meaningful(arm))
<1>1. ASSUME NEW n \in arm, Clear(n)
      PROVE  /\ ResolveList(n) = IF Held(n).kind = "list" THEN {Held(n)} ELSE {}
             /\ Held(n) = Word("None") => Held(n).kind # "list"
             /\ n = Word("None") => Held(n) = Word("None")
  <2>1. CASE n.kind = "identifier"
    <3>1. n.name \in Variables
      BY <2>1, FileAssumption DEF WellFormed, Strings, Sequences
    <3>2. bindings[n.name] = env[n.name]
      BY <1>1, <2>1, <3>1 DEF IInv, TypeOK, Clear
    <3> QED
      BY <2>1, <3>2 DEF ResolveList, Held, Word
  <2>2. CASE n.kind # "identifier"
    BY <2>2 DEF ResolveList, Held, Word
  <2> QED
    BY <2>1, <2>2
<1>2. ASSUME ~Meaningful(arm), NEW n \in arm, Clear(n)
      PROVE  RunsNothing(n)
  <2>1. CASE Held(n).kind = "list"
    <3>1. ResolveList(n) = {Held(n)}
      BY <1>1, <1>2, <2>1
    <3>2. \A item \in Range(Held(n).items) : ~NotComment(item)
      BY <1>2, <3>1 DEF Meaningful
    <3>3. Bare(Held(n))
      BY <2>1, <3>2 DEF Bare, Range, NotComment, Sequences
    <3> QED
      BY <3>3 DEF RunsNothing
  <2>2. CASE Held(n).kind # "list"
    BY <1>1, <1>2, <2>2 DEF Meaningful, RunsNothing
  <2> QED
    BY <2>1, <2>2
<1>3. ASSUME Meaningful(arm)
      PROVE  \E n \in arm : Clear(n) => ~(Held(n).kind = "list" /\ RunsNothing(n))
  <2>1. PICK n \in arm : IF ResolveList(n) = {} THEN n # Word("None")
                         ELSE \E list \in ResolveList(n) : \E item \in Range(list.items) : NotComment(item)
    BY <1>3 DEF Meaningful
  <2>2. ASSUME Clear(n), Held(n).kind = "list", RunsNothing(n) PROVE FALSE
    <3>1. ResolveList(n) = {Held(n)} /\ Held(n) # Word("None")
      BY <1>1, <2>2
    <3>2. \E item \in Range(Held(n).items) : NotComment(item)
      BY <2>1, <3>1
    <3> QED
      BY <2>2, <3>1, <3>2 DEF RunsNothing, Bare, Range, NotComment
  <2> QED
    BY <2>2
<1> QED
  BY <1>2, <1>3 DEF ArmSound

(***************************************************************************)
(* For every file, at every depth of wrappers and however the arms are     *)
(* given: an arm that counts as empty runs nothing on the database, a list *)
(* counts as full only if it has an element, and of an element that is     *)
(* written out the rules see one after the other exactly the operations    *)
(* that Django runs.                                                       *)
(***************************************************************************)
THEOREM ArmsAreJudged == Spec => []ArmsJudged
<1>1. ASSUME IInv PROVE ArmsJudged
  <2> USE <1>1
  <2>1. last \in Nodes /\ (direct => last = running)
    BY DEF IInv, WalkOK
  <2>2. ASSUME IsWrapper(last)
        PROVE  ArmSound(DatabaseArm(last), Seen.hasDatabase) /\ ArmSound(StateArm(last), Seen.hasState)
    <3>1. /\ DatabaseOperations(last) = DatabaseArm(last) /\ StateOperations(last) = StateArm(last)
          /\ DatabaseArm(last) \subseteq Nodes
      BY <2>1, <2>2, ArmsBound
    <3>2. StateArm(last) \subseteq Nodes
      <4>1. last.args \in ArgumentLists
        BY <2>1, <2>2, ArgumentsOf DEF IsWrapper
      <4> QED
        BY <4>1, ArmNodes DEF StateArm
    <3>3. Seen.hasDatabase = Meaningful(DatabaseArm(last)) /\ Seen.hasState = Meaningful(StateArm(last))
      BY <2>2, <3>1 DEF Seen, Extract
    <3> QED
      BY <3>1, <3>2, <3>3, ArmJudged
  <2> QED
    BY <2>1, <2>2 DEF ArmsJudged
<1> QED
  BY <1>1, InvariantHolds, PTL
-----------------------------------------------------------------------------
(* Facts: what a field or a constraint says to the code and to Django.     *)

\* A keyword is given once.
LEMMA OneKeyword ==
  ASSUME NEW type, NEW args, Accepted(type, args), NEW key, key # "",
         NEW v \in KeywordValue(args, key), NEW w \in KeywordValue(args, key)
  PROVE  v = w
<1>1. PICK i \in DOMAIN args : args[i].key = key /\ v = args[i].value
  BY DEF KeywordValue
<1>2. PICK j \in DOMAIN args : args[j].key = key /\ w = args[j].value
  BY DEF KeywordValue
<1>3. i = j
  BY <1>1, <1>2 DEF Accepted
<1> QED
  BY <1>1, <1>2, <1>3

LEMMA KeywordIs ==
  ASSUME NEW node, Accepted(Called(node), node.args), NEW key, key # "", NEW text
  PROVE  KwargEquals(node, key, text) <=> KeywordValue(node.args, key) = {Word(text)}
BY OneKeyword DEF KwargEquals

LEMMA KeywordProvided ==
  ASSUME NEW node, Accepted(Called(node), node.args), NEW key, key # ""
  PROVE  HasNonNullKwarg(node, key) <=> Provided(node, key)
<1> DEFINE given == KeywordValue(node.args, key)
<1>1. \A v, w \in given : v = w
  BY OneKeyword
<1>2. HasNonNullKwarg(node, key) <=> \E v \in given : v \notin {Word("None"), Word("models.NOT_PROVIDED")}
  BY DEF HasNonNullKwarg
<1>3. Provided(node, key) <=> given \notin {{}, {Word("None")}, {Word("models.NOT_PROVIDED")}}
  BY DEF Provided
<1> HIDE DEF given
<1>4. CASE given = {}
  BY <1>2, <1>3, <1>4
<1>5. CASE given # {}
  <2>1. PICK v \in given : TRUE
    BY <1>5
  <2>2. given = {v}
    BY <1>1, <2>1
  <2> QED
    BY <1>2, <1>3, <2>2
<1> QED
  BY <1>4, <1>5

LEMMA FieldIsUnderstood ==
  ASSUME NEW node, Accepted(Called(node), node.args)
  PROVE  FieldInfo(node) = FieldMeans(node)
<1> DEFINE Says(key, text) == KwargEquals(node, key, text)
           type == Called(node)
<1>1. /\ Says("db_constraint", "False") <=> False(node, "db_constraint")
      /\ Says("db_index", "False") <=> False(node, "db_index")
      /\ Says("db_index", "True") <=> True(node, "db_index")
      /\ Says("unique", "True") <=> True(node, "unique")
      /\ Says("primary_key", "True") <=> True(node, "primary_key")
      /\ Says("null", "True") <=> True(node, "null")
  BY KeywordIs DEF True, False
<1>2. /\ HasNonNullKwarg(node, "default") <=> Provided(node, "default")
      /\ HasNonNullKwarg(node, "db_default") <=> Provided(node, "db_default")
  BY KeywordProvided
<1>3. True(node, "db_index") => ~False(node, "db_index")
  <2>1. Word("True") # Word("False")
    BY DEF Word
  <2> QED
    BY <2>1 DEF True, False
<1>4. ASSUME NEW f
      PROVE  f \in FieldInfo(node) <=>
               \/ f = "relation" /\ type \in {"ForeignKey", "OneToOneField"}
               \/ f = "foreign key" /\ type = "ForeignKey"
               \/ f = "unconstrained" /\ Says("db_constraint", "False")
               \/ f = "indexed" /\ (Says("db_index", "True") \/ (type = "SlugField" /\ ~Says("db_index", "False")))
               \/ f = "index disabled" /\ Says("db_index", "False")
               \/ f = "unique" /\ (Says("unique", "True") \/ Says("primary_key", "True"))
               \/ f = "nullable" /\ Says("null", "True")
               \/ f = "default" /\ HasNonNullKwarg(node, "default")
               \/ f = "db_default" /\ HasNonNullKwarg(node, "db_default")
  <2> DEFINE relation == Flag(type \in {"ForeignKey", "OneToOneField"}, "relation")
             foreign == Flag(type = "ForeignKey", "foreign key")
             free == Flag(Says("db_constraint", "False"), "unconstrained")
             indexed == Flag(Says("db_index", "True") \/ (type = "SlugField" /\ ~Says("db_index", "False")), "indexed")
             off == Flag(Says("db_index", "False"), "index disabled")
             single == Flag(Says("unique", "True") \/ Says("primary_key", "True"), "unique")
             nullable == Flag(Says("null", "True"), "nullable")
             default == Flag(HasNonNullKwarg(node, "default"), "default")
             stored == Flag(HasNonNullKwarg(node, "db_default"), "db_default")
  <2>1. FieldInfo(node) = relation \cup foreign \cup free \cup indexed \cup off \cup single \cup nullable \cup default \cup stored
    BY DEF FieldInfo
  <2>11. f \in FieldInfo(node) <=> f \in relation \/ f \in foreign \/ f \in free \/ f \in indexed \/ f \in off \/ f \in single \/ f \in nullable \/ f \in default \/ f \in stored
    <3> HIDE DEF relation, foreign, free, indexed, off, single, nullable, default, stored
    <3> QED
      BY <2>1
  <2>2. f \in relation <=> f = "relation" /\ (type \in {"ForeignKey", "OneToOneField"})
    BY DEF Flag
  <2>3. f \in foreign <=> f = "foreign key" /\ (type = "ForeignKey")
    BY DEF Flag
  <2>4. f \in free <=> f = "unconstrained" /\ (Says("db_constraint", "False"))
    BY DEF Flag
  <2>5. f \in indexed <=> f = "indexed" /\ (Says("db_index", "True") \/ (type = "SlugField" /\ ~Says("db_index", "False")))
    BY DEF Flag
  <2>6. f \in off <=> f = "index disabled" /\ (Says("db_index", "False"))
    BY DEF Flag
  <2>7. f \in single <=> f = "unique" /\ (Says("unique", "True") \/ Says("primary_key", "True"))
    BY DEF Flag
  <2>8. f \in nullable <=> f = "nullable" /\ (Says("null", "True"))
    BY DEF Flag
  <2>9. f \in default <=> f = "default" /\ (HasNonNullKwarg(node, "default"))
    BY DEF Flag
  <2>10. f \in stored <=> f = "db_default" /\ (HasNonNullKwarg(node, "db_default"))
    BY DEF Flag
  <2> HIDE DEF relation, foreign, free, indexed, off, single, nullable, default, stored, Says, type
  <2> QED
    BY <2>11, <2>2, <2>3, <2>4, <2>5, <2>6, <2>7, <2>8, <2>9, <2>10
<1>5. ASSUME NEW f
      PROVE  f \in FieldMeans(node) <=>
               \/ f = "relation" /\ type \in {"ForeignKey", "OneToOneField"}
               \/ f = "foreign key" /\ type = "ForeignKey"
               \/ f = "unconstrained" /\ False(node, "db_constraint")
               \/ f = "indexed" /\ IF type = "SlugField" THEN ~False(node, "db_index") ELSE True(node, "db_index")
               \/ f = "index disabled" /\ False(node, "db_index")
               \/ f = "unique" /\ (True(node, "unique") \/ True(node, "primary_key"))
               \/ f = "nullable" /\ True(node, "null")
               \/ f = "default" /\ Provided(node, "default")
               \/ f = "db_default" /\ Provided(node, "db_default")
  BY DEF FieldMeans
<1>6. ASSUME NEW f PROVE f \in FieldInfo(node) <=> f \in FieldMeans(node)
  <2> HIDE DEF Says, type
  <2> QED
    BY <1>1, <1>2, <1>3, <1>4, <1>5
<1> QED
  BY <1>6

LEMMA ConstraintIsUnderstood ==
  ASSUME NEW node, Plain(node.args)
  PROVE  ConstraintInfo(node) = ConstraintMeans(node)
<1> DEFINE Shows(i) ==
              LET a == node.args[i]
              IN CASE a.key = "" -> NotComment(a.value)
                   [] a.key = "condition" -> ~FalsyQ(a.value)
                   [] a.key \in {"include", "opclasses"} -> ~Falsy(a.value)
                   [] OTHER -> FALSE
<1>1. ASSUME NEW i \in DOMAIN node.args
      PROVE  IsEmpty(node.args[i].value) <=> Falsy(node.args[i].value)
  <2>1. Bare(node.args[i].value) => node.args[i].value.items = <<>>
    BY DEF Plain
  <2> QED
    BY <2>1 DEF IsEmpty, Falsy, Bare
<1>2. StateOnly(node) => \E i \in DOMAIN node.args : Shows(i)
  <2>1. ASSUME NEW i \in Places(node.args) PROVE i \in DOMAIN node.args /\ Shows(i)
    BY DEF Places
  <2>2. ASSUME NEW v \in KeywordValue(node.args, "condition"), ~IsEmptyQ(v)
        PROVE  \E i \in DOMAIN node.args : Shows(i)
    <3>1. PICK i \in DOMAIN node.args : node.args[i].key = "condition" /\ node.args[i].value = v
      BY DEF KeywordValue
    <3> QED
      BY <2>2, <3>1 DEF IsEmptyQ, FalsyQ
  <2>3. ASSUME NEW key \in {"include", "opclasses"}, NEW v \in KeywordValue(node.args, key), ~IsEmpty(v)
        PROVE  \E i \in DOMAIN node.args : Shows(i)
    <3>1. PICK i \in DOMAIN node.args : node.args[i].key = key /\ node.args[i].value = v
      BY DEF KeywordValue
    <3>2. ~Falsy(node.args[i].value)
      BY <1>1, <2>3, <3>1
    <3> QED
      BY <3>1, <3>2
  <2> HIDE DEF Shows
  <2> QED
    BY <2>1, <2>2, <2>3 DEF StateOnly
<1>3. ASSUME NEW i \in DOMAIN node.args, Shows(i)
      PROVE  StateOnly(node)
  <2>1. CASE node.args[i].key = ""
    <3>1. i \in Places(node.args)
      BY <1>3, <2>1 DEF Places
    <3> QED
      BY <3>1 DEF StateOnly
  <2>2. CASE node.args[i].key = "condition"
    <3>1. node.args[i].value \in KeywordValue(node.args, "condition")
      BY <2>2 DEF KeywordValue
    <3> QED
      BY <1>3, <2>2, <3>1 DEF StateOnly, IsEmptyQ, FalsyQ
  <2>3. CASE node.args[i].key \in {"include", "opclasses"}
    <3>1. node.args[i].value \in KeywordValue(node.args, node.args[i].key)
      BY DEF KeywordValue
    <3>2. ~IsEmpty(node.args[i].value)
      BY <1>1, <1>3, <2>3
    <3> QED
      BY <2>3, <3>1, <3>2 DEF StateOnly
  <2> QED
    BY <1>3, <2>1, <2>2, <2>3
<1>4. StateOnly(node) <=> \E i \in DOMAIN node.args : Shows(i)
  BY <1>2, <1>3
<1>5. ConstraintMeans(node) =
        CASE Called(node) = "UniqueConstraint" ->
               IF \E i \in DOMAIN node.args : Shows(i) THEN {"unique", "state only"} ELSE {"unique"}
          [] Called(node) = "CheckConstraint" -> {"check"}
          [] Called(node) = "ExclusionConstraint" -> {"exclusion"}
          [] OTHER -> {}
  BY DEF ConstraintMeans
<1> HIDE DEF Shows
<1> QED
  BY <1>4, <1>5 DEF ConstraintInfo, Flag
-----------------------------------------------------------------------------
(* Texts joined one after the other, and the values of literals.           *)

\* The recursive function of Join is one.
LEMMA JoinStepwise ==
  ASSUME NEW parts, NEW sep, Len(parts) \in Nat
  PROVE  \E upTo :
           /\ Join(parts, sep) = upTo[Len(parts)]
           /\ upTo[0] = {}
           /\ \A n \in 1..Len(parts) : upTo[n] = Joined(upTo[n - 1], parts[n], sep)
<1> DEFINE Fits(h, n) == h = [i \in 0..n |-> IF i = 0 THEN {} ELSE Joined(h[i - 1], parts[i], sep)]
           S == {n \in Nat : \E h : Fits(h, n)}
<1>1. 0 \in S
  <2>1. Fits([i \in 0..0 |-> {}], 0)
    OBVIOUS
  <2> QED
    BY <2>1
<1>2. ASSUME NEW n \in S PROVE n + 1 \in S
  <2>1. PICK h : Fits(h, n)
    OBVIOUS
  <2> DEFINE longer == [i \in 0..(n + 1) |-> IF i = 0 THEN {} ELSE Joined(h[i - 1], parts[i], sep)]
  <2>2. \A i \in 0..n : h[i] = IF i = 0 THEN {} ELSE Joined(h[i - 1], parts[i], sep)
    <3> HIDE DEF longer
    <3> QED BY <2>1
  <2>3. \A i \in 0..n : longer[i] = h[i]
    <3>1. \A i \in 0..n : i \in 0..(n + 1)
      OBVIOUS
    <3> QED BY <2>2, <3>1
  <2>4. \A i \in 0..(n + 1) : i # 0 => h[i - 1] = longer[i - 1]
    <3>1. \A i \in 0..(n + 1) : i # 0 => i - 1 \in 0..n
      OBVIOUS
    <3> HIDE DEF longer
    <3> QED BY <2>3, <3>1
  <2>5. Fits(longer, n + 1)
    BY <2>4
  <2> QED
    <3> HIDE DEF Fits, longer
    <3> QED BY <2>5
<1>3. \E h : Fits(h, Len(parts))
  <2> HIDE DEF Fits
  <2>1. S = Nat
    BY <1>1, <1>2, Induction
  <2> QED
    BY <2>1
<1> DEFINE upTo == CHOOSE h : Fits(h, Len(parts))
<1>4. Fits(upTo, Len(parts))
  <2> HIDE DEF Fits
  <2> QED
    BY <1>3
<1>5. Join(parts, sep) = upTo[Len(parts)]
  BY DEF Join
<1>6. /\ upTo[0] = {}
      /\ \A n \in 1..Len(parts) : upTo[n] = Joined(upTo[n - 1], parts[n], sep)
  <2> HIDE DEF upTo
  <2>1. DOMAIN upTo = 0..Len(parts) /\ 0 \in 0..Len(parts) /\ 1..Len(parts) \subseteq 0..Len(parts)
    BY <1>4
  <2>2. \A i \in 0..Len(parts) : upTo[i] = IF i = 0 THEN {} ELSE Joined(upTo[i - 1], parts[i], sep)
    BY <1>4
  <2> QED
    BY <2>1, <2>2
<1> QED
  BY <1>5, <1>6

\* What adds up over two texts joined adds up over all of them.
AtMostOne(parts, texts) == \A n \in 1..Len(parts) : parts[n] = {} \/ \E t \in texts : parts[n] = {t}
AddsUp(texts, sep, of) == \A a, b \in texts : a \o sep \o b \in texts /\ of[a \o sep \o b] = of[a] \cup of[b]
Total(parts, of) == UNION {UNION {of[x] : x \in parts[n]} : n \in 1..Len(parts)}

LEMMA JoinAdds ==
  ASSUME NEW parts, NEW sep, Len(parts) \in Nat, NEW Good, NEW of,
         AtMostOne(parts, Good), AddsUp(Good, sep, of)
  PROVE  IF \A n \in 1..Len(parts) : parts[n] = {} THEN Join(parts, sep) = {}
         ELSE \E t \in Good : Join(parts, sep) = {t} /\ of[t] = Total(parts, of)
<1> USE DEF AtMostOne, AddsUp, Total
<1>1. PICK upTo :
        /\ Join(parts, sep) = upTo[Len(parts)]
        /\ upTo[0] = {}
        /\ \A n \in 1..Len(parts) : upTo[n] = Joined(upTo[n - 1], parts[n], sep)
  BY JoinStepwise
<1> DEFINE Whole(n) == UNION {UNION {of[x] : x \in parts[m]} : m \in 1..n}
           Adds(n) == IF \A m \in 1..n : parts[m] = {} THEN upTo[n] = {}
                      ELSE \E t \in Good : upTo[n] = {t} /\ of[t] = Whole(n)
           S == {n \in Nat : n <= Len(parts) => Adds(n)}
<1>2. 0 \in S
  BY <1>1
<1>3. ASSUME NEW n \in S PROVE n + 1 \in S
  <2>1. SUFFICES ASSUME n + 1 <= Len(parts) PROVE Adds(n + 1)
    OBVIOUS
  <2>2. Adds(n) /\ n \in Nat /\ n + 1 \in 1..Len(parts)
    <3> HIDE DEF Adds
    <3> QED BY <1>3, <2>1
  <2>3. upTo[n + 1] = Joined(upTo[n], parts[n + 1], sep)
    BY <1>1, <2>2
  <2>4. \A m : m \in 1..(n + 1) <=> m \in 1..n \/ m = n + 1
    OBVIOUS
  <2>5. Whole(n + 1) = Whole(n) \cup UNION {of[x] : x \in parts[n + 1]}
    BY <2>4
  <2>6. (\A m \in 1..(n + 1) : parts[m] = {}) <=> (\A m \in 1..n : parts[m] = {}) /\ parts[n + 1] = {}
    BY <2>4
  <2>7. (\A m \in 1..n : parts[m] = {}) => Whole(n) = {}
    OBVIOUS
  <2> HIDE DEF Whole
  <2>8. CASE parts[n + 1] = {}
    <3>1. upTo[n + 1] = upTo[n]
      BY <2>3, <2>8 DEF Joined
    <3>2. Whole(n + 1) = Whole(n)
      BY <2>5, <2>8
    <3> QED
      BY <2>2, <2>6, <2>8, <3>1, <3>2
  <2>9. CASE parts[n + 1] # {}
    <3>1. PICK b \in Good : parts[n + 1] = {b}
      BY <2>2, <2>9
    <3>4. Whole(n + 1) = Whole(n) \cup of[b]
      <4>1. UNION {of[x] : x \in {b}} = of[b]
        OBVIOUS
      <4> QED
        BY <2>5, <3>1, <4>1
    <3>2. CASE \A m \in 1..n : parts[m] = {}
      <4>1. upTo[n + 1] = {b}
        BY <2>2, <2>3, <3>1, <3>2 DEF Joined
      <4>2. of[b] = Whole(n + 1)
        BY <2>7, <3>2, <3>4
      <4> QED
        BY <2>6, <2>9, <4>1, <4>2
    <3>3. CASE ~\A m \in 1..n : parts[m] = {}
      <4>1. PICK a \in Good : upTo[n] = {a} /\ of[a] = Whole(n)
        BY <2>2, <3>3
      <4>2. upTo[n + 1] = {a \o sep \o b}
        BY <2>3, <3>1, <4>1 DEF Joined
      <4>3. of[a \o sep \o b] = Whole(n + 1)
        BY <3>4, <4>1
      <4> QED
        BY <2>6, <2>9, <4>2, <4>3
    <3> QED
      BY <3>2, <3>3
  <2> QED
    BY <2>8, <2>9
<1>4. S = Nat
  <2> HIDE DEF Adds
  <2> QED
    BY <1>2, <1>3, Induction
<1>5. Adds(Len(parts))
  <2> HIDE DEF Adds
  <2>1. Len(parts) \in S
    BY <1>4
  <2> QED
    BY <2>1
<1> QED
  BY <1>1, <1>5
LEMMA StringIs ==
  ASSUME NEW node \in Nodes, node.kind = "string"
  PROVE  /\ Unescaped(node) \in Seq(Symbols)
         /\ Interpolation \notin Range(node.pieces) => LiteralText(node) = Unescaped(node)
         /\ Interpolation \in Range(node.pieces) => LiteralText(node) = <<>>
<1>1. node.pieces \in Seq(Symbols)
  BY FileAssumption DEF WellFormed, Sequences
<1>2. Unescaped(node) = [i \in DOMAIN node.pieces |-> Decode(node.raw, node.pieces[i])]
  BY DEF Unescaped, Decode
<1>3. \A i \in DOMAIN node.pieces : Decode(node.raw, node.pieces[i]) \in Symbols
  <2>1. \A i \in DOMAIN node.pieces : node.pieces[i] \in Symbols
    BY <1>1
  <2> QED
    BY <2>1, FileAssumption DEF Decode
<1>4. Len(node.pieces) \in Nat /\ DOMAIN node.pieces = 1..Len(node.pieces)
  BY <1>1
<1>5. Unescaped(node) \in Seq(Symbols)
  BY <1>2, <1>3, <1>4
<1> QED
  BY <1>2, <1>5 DEF LiteralText

LEMMA ConcatenatedItems ==
  ASSUME NEW node \in Nodes, node.kind = "concatenated_string"
  PROVE  /\ Len(node.items) \in Nat \ {0} /\ DOMAIN node.items = 1..Len(node.items)
         /\ \A i \in DOMAIN node.items : node.items[i] \in Nodes /\ node.items[i].kind = "string"
<1>1. node.items \in Seq(Nodes) /\ node.items # <<>> /\ \A i \in DOMAIN node.items : node.items[i].kind = "string"
  BY FileAssumption DEF WellFormed, Sequences
<1> QED
  BY <1>1

\* What the code takes a literal for is its value in Python, one text.
LEMMA LiteralIs ==
  ASSUME NEW node \in Nodes, node.kind \in Strings, ~Interpolated(node)
  PROVE  /\ StringValue(node) = PythonText(node)
         /\ \E t \in Seq(Symbols) : PythonText(node) = {t}
<1>1. CASE node.kind = "string"
  <2>1. LiteralText(node) = Unescaped(node) /\ Unescaped(node) \in Seq(Symbols)
    BY <1>1, StringIs DEF Interpolated
  <2> QED
    BY <1>1, <2>1 DEF StringValue, PythonText
<1>2. CASE node.kind = "concatenated_string"
  <2> DEFINE parts == [i \in DOMAIN node.items |-> {Unescaped(node.items[i])}]
             Good == Seq(Symbols)
             of == [t \in Good |-> {}]
             sep == <<>>
  <2>1. /\ Len(node.items) \in Nat \ {0} /\ DOMAIN node.items = 1..Len(node.items)
        /\ \A i \in DOMAIN node.items : node.items[i] \in Nodes /\ node.items[i].kind = "string"
    BY <1>2, ConcatenatedItems
  <2>2. \A i \in DOMAIN node.items : Interpolation \notin Range(node.items[i].pieces)
    BY <1>2 DEF Interpolated
  <2>3. ASSUME NEW i \in DOMAIN node.items
        PROVE  LiteralText(node.items[i]) = Unescaped(node.items[i]) /\ Unescaped(node.items[i]) \in Good
    BY <2>1, <2>2, <2>3, StringIs
  <2>4. [i \in DOMAIN node.items |-> {LiteralText(node.items[i])}] = parts
    BY <2>3
  <2>5. StringValue(node) = Join(parts, sep) /\ PythonText(node) = Join(parts, sep)
    BY <1>2, <2>4 DEF StringValue, PythonText
  <2>6. Len(parts) = Len(node.items) /\ DOMAIN parts = 1..Len(node.items)
    BY <2>1
  <2>7. ASSUME NEW n \in 1..Len(parts) PROVE parts[n] # {} /\ \E t \in Good : parts[n] = {t}
    BY <2>1, <2>3, <2>6
  <2>8. ASSUME NEW a \in Good, NEW b \in Good PROVE a \o sep \o b \in Good
    OBVIOUS
  <2>9. \A a, b \in Good : a \o sep \o b \in Good /\ of[a \o sep \o b] = of[a] \cup of[b]
    BY <2>8
  <2>10. \E n \in 1..Len(parts) : parts[n] # {}
    <3>1. 1 \in 1..Len(parts)
      BY <2>1, <2>6
    <3> QED
      BY <2>7, <3>1
  <2>11. Len(parts) \in Nat
    BY <2>1, <2>6
  <2> HIDE DEF parts, of, sep, Good
  <2>12. AtMostOne(parts, Good)
    BY <2>7 DEF AtMostOne
  <2>13. AddsUp(Good, sep, of)
    BY <2>9 DEF AddsUp
  <2>14. \E t \in Good : Join(parts, sep) = {t}
    BY <2>10, <2>11, <2>12, <2>13, JoinAdds
  <2> QED
    BY <2>5, <2>14 DEF Good
<1> QED
  BY <1>1, <1>2 DEF Strings

LEMMA ValueIs ==
  ASSUME NEW node \in Nodes, ~Interpolated(node)
  PROVE  StringValue(node) = Value(node)
<1>1. CASE node.kind \in Strings
  BY <1>1, LiteralIs DEF Value
<1>2. CASE node.kind \notin Strings
  BY <1>2 DEF StringValue, Value, Strings
<1> QED
  BY <1>1, <1>2

\* An argument as text is the value of the parameter.
LEMMA TextBound ==
  ASSUME NEW type, NEW args \in ArgumentLists, Plain(args), NEW p, NEW n, Binds(type, args, p, n)
  PROVE  StringOf(args, p, n) = Bound(type, args, p)
<1>1. ASSUME NEW v \in Parameter(type, args, p) PROVE StringValue(v) = Value(v)
  <2>1. PICK i \in DOMAIN args : v = args[i].value
    BY DEF Parameter
  <2>2. v \in Nodes
    BY ArmNodes
  <2> QED
    BY <2>1, <2>2, ValueIs DEF Plain
<1>2. StringOf(args, p, n) = UNION {StringValue(v) : v \in Parameter(type, args, p)}
  BY DEF StringOf, Binds
<1> QED
  BY <1>1, <1>2 DEF Bound

-----------------------------------------------------------------------------
(* Operations mean to the rules what they mean to Django.                  *)

LEMMA DataIsUnderstood ==
  ASSUME NEW type, NEW args \in ArgumentLists, Accepted(type, args), Plain(args), type # "RunSQL", type # Separate,
         \A i \in DOMAIN args : args[i].value.kind = "call" =>
            Plain(args[i].value.args) /\ Accepted(Called(args[i].value), args[i].value.args)
  PROVE  Data(type, args) = Means(type, args)
<1> DEFINE Same(p, n) == StringOf(args, p, n) = Bound(type, args, p)
<1>1. ASSUME NEW p, NEW n, Binds(type, args, p, n) PROVE Same(p, n)
  BY <1>1, TextBound
<1>2. ASSUME NEW p, NEW v \in Parameter(type, args, p)
      PROVE  /\ v.kind = "call" => FieldInfo(v) = FieldMeans(v) /\ ConstraintInfo(v) = ConstraintMeans(v)
             /\ IsEmpty(v) <=> Falsy(v)
  <2>1. PICK i \in DOMAIN args : v = args[i].value
    BY DEF Parameter
  <2>2. Bare(v) => v.items = <<>>
    BY <2>1 DEF Plain
  <2> QED
    BY <2>1, <2>2, FieldIsUnderstood, ConstraintIsUnderstood DEF IsEmpty, Falsy, Bare
<1>3. ASSUME type \in IndexTypes PROVE Data(type, args) = Means(type, args)
  <2>1. Same("model_name", 0)
    BY <1>1, <1>3, ParametersBound
  <2> QED
    BY <1>3, <2>1 DEF Data, Means, IndexTypes, ModelTypes, FieldTypes, ConstraintTypes, TogetherTypes
<1>4. ASSUME type = "RenameModel" PROVE Data(type, args) = Means(type, args)
  <2>1. Same("old_name", 0) /\ Same("new_name", 1)
    BY <1>1, <1>4, ParametersBound
  <2> QED
    BY <1>4, <2>1 DEF Data, Means, IndexTypes, ModelTypes, FieldTypes, ConstraintTypes, TogetherTypes
<1>5. ASSUME type \in ModelTypes PROVE Data(type, args) = Means(type, args)
  <2>1. Same("name", 0)
    BY <1>1, <1>5, ParametersBound
  <2> QED
    BY <1>5, <2>1 DEF Data, Means, IndexTypes, ModelTypes, FieldTypes, ConstraintTypes, TogetherTypes
<1>6. ASSUME type = "RenameField" PROVE Data(type, args) = Means(type, args)
  <2>1. Same("model_name", 0) /\ Same("old_name", 1) /\ Same("new_name", 2)
    BY <1>1, <1>6, ParametersBound
  <2> QED
    BY <1>6, <2>1 DEF Data, Means, IndexTypes, ModelTypes, FieldTypes, ConstraintTypes, TogetherTypes
<1>7. ASSUME type \in FieldTypes \ {"RenameField"} PROVE Data(type, args) = Means(type, args)
  <2>1. Same("model_name", 0) /\ Same("name", 1)
    BY <1>1, <1>7, ParametersBound
  <2>2. type \in WithField => FactsOf(Argument(args, "field", 2), FieldInfo) = FactsOf(Parameter(type, args, "field"), FieldMeans)
    <3>1. type \in WithField => Argument(args, "field", 2) = Parameter(type, args, "field")
      BY ParametersBound DEF Binds
    <3> QED
      BY <1>2, <3>1 DEF FactsOf
  <2> QED
    BY <1>7, <2>1, <2>2 DEF Data, Means, IndexTypes, ModelTypes, FieldTypes, ConstraintTypes, TogetherTypes
<1>8. ASSUME type = "AddConstraint" PROVE Data(type, args) = Means(type, args)
  <2>1. Same("model_name", 0)
    BY <1>1, <1>8, ParametersBound DEF ConstraintTypes
  <2>2. FactsOf(Argument(args, "constraint", 1), ConstraintInfo) = FactsOf(Parameter(type, args, "constraint"), ConstraintMeans)
    <3>1. Argument(args, "constraint", 1) = Parameter(type, args, "constraint")
      BY <1>8, ParametersBound DEF Binds
    <3> QED
      BY <1>2, <3>1 DEF FactsOf
  <2> QED
    BY <1>8, <2>1, <2>2 DEF Data, Means, IndexTypes, ModelTypes, FieldTypes, ConstraintTypes, TogetherTypes
<1>9. ASSUME type = "RemoveConstraint" PROVE Data(type, args) = Means(type, args)
  <2>1. Same("model_name", 0)
    BY <1>1, <1>9, ParametersBound DEF ConstraintTypes
  <2>2. Signature(type) = <<"model_name", "name">>
    BY <1>9 DEF Signature, WithField, TogetherTypes
  <2>3. KeywordValue(args, "constraint") = {}
    <3>1. Signature(type) # <<>> /\ "constraint" \notin Range(Signature(type))
      BY <2>2 DEF Range
    <3> QED
      BY <3>1 DEF Accepted, KeywordValue
  <2>4. ASSUME NEW v \in NthPositional(args, 1) PROVE v.kind # "call"
    <3>1. PICK i \in Places(args) : Ordinal(args, i) = 1 + 1 /\ v = args[i].value
      BY DEF NthPositional
    <3>2. 1 + 1 \in DOMAIN Signature(type) /\ Signature(type)[1 + 1] = "name"
      BY <2>2
    <3>3. i \in DOMAIN args
      BY <3>1 DEF Places
    <3>4. v \in Parameter(type, args, "name")
      BY <3>1, <3>2, <3>3 DEF Parameter
    <3> QED
      BY <1>9, <3>4 DEF Accepted
  <2>5. FactsOf(Argument(args, "constraint", 1), ConstraintInfo) = {}
    BY <2>3, <2>4 DEF FactsOf, Argument
  <2> QED
    BY <1>9, <2>1, <2>5 DEF Data, Means, IndexTypes, ModelTypes, FieldTypes, ConstraintTypes, TogetherTypes
<1>10. ASSUME type \in TogetherTypes PROVE Data(type, args) = Means(type, args)
  <2>1. Same("name", 0) /\ Argument(args, Together(type), 1) = Parameter(type, args, Together(type))
    BY <1>1, <1>10, ParametersBound DEF Binds
  <2>2. (\E v \in Argument(args, Together(type), 1) : ~IsEmpty(v))
        <=> ~\A v \in Parameter(type, args, Together(type)) : Falsy(v)
    BY <1>2, <2>1
  <2>3. Flag(\E v \in Argument(args, Together(type), 1) : ~IsEmpty(v), "adds")
        = IF \A v \in Parameter(type, args, Together(type)) : Falsy(v) THEN {} ELSE {"adds"}
    BY <2>2 DEF Flag
  <2> QED
    BY <1>10, <2>1, <2>3 DEF Data, Means, IndexTypes, ModelTypes, FieldTypes, ConstraintTypes, TogetherTypes
<1>11. ASSUME type = "RunPython" PROVE Data(type, args) = Means(type, args)
  <2>1. Same("code", 0) /\ Argument(args, "reverse_code", 1) = Parameter(type, args, "reverse_code")
    BY <1>1, <1>11, ParametersBound DEF Binds
  <2>2. Flag(\E v \in Argument(args, "reverse_code", 1) : v # Word("None"), "reverse")
        = IF Parameter(type, args, "reverse_code") \subseteq {Word("None")} THEN {} ELSE {"reverse"}
    BY <2>1 DEF Flag
  <2> QED
    BY <1>11, <2>1, <2>2 DEF Data, Means, IndexTypes, ModelTypes, FieldTypes, ConstraintTypes, TogetherTypes
<1>12. CASE type \notin IndexTypes \cup ModelTypes \cup FieldTypes \cup ConstraintTypes \cup TogetherTypes \cup {"RenameModel", "RunPython"}
  BY <1>12 DEF Data, Means, IndexTypes, ModelTypes, FieldTypes, ConstraintTypes, TogetherTypes, WithField
<1> QED
  BY <1>3, <1>4, <1>5, <1>6, <1>7, <1>8, <1>9, <1>10, <1>11, <1>12
     DEF IndexTypes, ModelTypes, FieldTypes, ConstraintTypes, TogetherTypes
-----------------------------------------------------------------------------
(* The parts of a sequence of SQL.                                         *)

\* The semicolons at the end are all that TrimEnd takes away.
LEMMA Trimmed ==
  ASSUME NEW S, NEW text \in Seq(S)
  PROVE  \E n \in 0..Len(text) :
           /\ TrimEnd(text) = SubSeq(text, 1, n) /\ TrimEnd(text) \in Seq(S) /\ Len(TrimEnd(text)) = n
           /\ \A k \in 1..n : TrimEnd(text)[k] = text[k]
           /\ \A k \in n + 1..Len(text) : text[k] = ";"
<1> DEFINE AllEnd(n) == \A i \in n + 1..Len(text) : text[i] = ";"
           ends == {n \in 0..Len(text) : AllEnd(n)}
<1>0. Len(text) \in Nat
  OBVIOUS
<1>1. Len(text) \in ends
  <2>1. Len(text) + 1..Len(text) = {}
    BY <1>0
  <2>2. AllEnd(Len(text))
    BY <2>1
  <2> HIDE DEF AllEnd
  <2> QED
    BY <1>0, <2>2
<1>2. ends \in SUBSET Nat
  <2> HIDE DEF AllEnd
  <2> QED
    BY <1>0
<1>3. PICK n \in ends : \A m \in ends : n <= m
  <2> HIDE DEF ends
  <2> QED
    BY <1>1, <1>2, Least
<1> DEFINE last0 == CHOOSE m \in ends : \A l \in ends : m <= l
<1>4. last0 \in ends
  <2> HIDE DEF ends
  <2> QED
    BY <1>3
<1>5. TrimEnd(text) = SubSeq(text, 1, last0)
  BY DEF TrimEnd
<1>6. last0 \in 0..Len(text) /\ \A k \in last0 + 1..Len(text) : text[k] = ";"
  BY <1>4
<1> HIDE DEF last0, ends
<1>7. /\ SubSeq(text, 1, last0) \in Seq(S) /\ Len(SubSeq(text, 1, last0)) = last0
      /\ \A k \in 1..last0 : SubSeq(text, 1, last0)[k] = text[k]
  <2>1. last0 \in 0..Len(text)
    BY <1>6
  <2> QED
    BY <1>0, <2>1, SubSeqProperties
<1> QED
  BY <1>5, <1>6, <1>7

LEMMA NodeItems ==
  ASSUME NEW node \in Nodes, node.kind \in Sequences
  PROVE  /\ Len(node.items) \in Nat /\ DOMAIN node.items = 1..Len(node.items)
         /\ \A i \in DOMAIN node.items : node.items[i] \in Nodes
<1>1. node.items \in Seq(Nodes)
  BY FileAssumption DEF WellFormed, Sequences
<1> QED
  BY <1>1

\* There is one first item, if there is one that is no comment.
LEMMA FirstItem ==
  ASSUME NEW node \in Nodes, node.kind \in Sequences, NEW i \in DOMAIN node.items, NotComment(node.items[i])
  PROVE  \E v \in Nodes : FirstShown(node.items) = {v}
<1> DEFINE T == {k \in 1..Len(node.items) : NotComment(node.items[k])}
<1>1. /\ Len(node.items) \in Nat /\ DOMAIN node.items = 1..Len(node.items)
      /\ \A k \in DOMAIN node.items : node.items[k] \in Nodes
  BY NodeItems
<1>2. T \in SUBSET Nat /\ T # {}
  BY <1>1
<1>3. PICK j \in T : \A k \in T : j <= k
  <2> HIDE DEF T
  <2> QED
    BY <1>2, Least
<1>4. j \in 1..Len(node.items) /\ NotComment(node.items[j])
  BY <1>3
<1>5. \A k \in 1..Len(node.items) : NotComment(node.items[k]) => j <= k
  BY <1>3
<1>6. ASSUME NEW k \in 1..Len(node.items)
      PROVE  NotComment(node.items[k]) /\ (\A l \in 1..k - 1 : IsComment(node.items[l])) <=> k = j
  <2>1. ASSUME NEW l \in 1..j - 1 PROVE IsComment(node.items[l])
    <3>1. l \in 1..Len(node.items) /\ ~(j <= l)
      BY <1>1, <1>4
    <3> QED
      BY <1>5, <3>1 DEF NotComment
  <2>2. ASSUME NotComment(node.items[k]), \A l \in 1..k - 1 : IsComment(node.items[l])
        PROVE  k = j
    <3>1. j <= k
      BY <1>5, <2>2
    <3>2. j \notin 1..k - 1
      BY <1>4, <2>2 DEF NotComment
    <3> QED
      BY <1>1, <1>4, <3>1, <3>2
  <2> QED
    BY <1>4, <2>1, <2>2
<1>7. FirstShown(node.items) = {node.items[j]}
  BY <1>1, <1>4, <1>6 DEF FirstShown
<1> QED
  BY <1>1, <1>4, <1>7

LEMMA FirstShownInNodes ==
  ASSUME NEW node \in Nodes, node.kind \in Sequences
  PROVE  FirstShown(node.items) \subseteq Nodes
BY NodeItems DEF FirstShown

\* The text of an element is what Django executes, without its last semicolons.
LEMMA PartIs ==
  ASSUME NEW item \in Nodes, IsStatement(item)
  PROVE  \E t \in Seq(Symbols) : ElementText(item) = {t} /\ PartText(item) = {TrimEnd(t)}
<1>1. CASE item.kind \in Strings
  <2>1. ~Interpolated(item)
    BY <1>1 DEF IsStatement, IsLiteral, Strings, Sequences
  <2>2. PICK t \in Seq(Symbols) : StringValue(item) = {t} /\ PythonText(item) = {t}
    BY <1>1, <2>1, LiteralIs
  <2>3. PartText(item) = UNION {{TrimEnd(x) : x \in StringValue(v)} : v \in {item}}
    BY <1>1 DEF PartText, Strings, Sequences
  <2> QED
    BY <1>1, <2>2, <2>3 DEF ElementText
<1>2. CASE item.kind \notin Strings
  <2>1. /\ item.kind \in Sequences /\ Cardinality({i \in DOMAIN item.items : NotComment(item.items[i])}) = 2
        /\ \A v \in FirstShown(item.items) : IsLiteral(v)
    BY <1>2 DEF IsStatement, IsLiteral
  <2>2. PICK i \in DOMAIN item.items : NotComment(item.items[i])
    <3>1. {i \in DOMAIN item.items : NotComment(item.items[i])} # {}
      BY <2>1, FS_EmptySet
    <3> QED
      BY <3>1
  <2>3. PICK v \in Nodes : FirstShown(item.items) = {v}
    BY <2>1, <2>2, FirstItem
  <2>4. v.kind \in Strings /\ ~Interpolated(v)
    BY <2>1, <2>3 DEF IsLiteral
  <2>5. PICK t \in Seq(Symbols) : StringValue(v) = {t} /\ PythonText(v) = {t}
    BY <2>4, LiteralIs
  <2>6. PartText(item) = UNION {{TrimEnd(x) : x \in StringValue(w)} : w \in {v}}
    <3>1. {w \in FirstShown(item.items) : w.kind \in Strings} = {v}
      BY <2>3, <2>4
    <3> QED
      BY <1>2, <2>1, <3>1 DEF PartText
  <2>7. ElementText(item) = UNION {PythonText(w) : w \in {v}}
    BY <1>2, <2>3 DEF ElementText
  <2> QED
    BY <2>5, <2>6, <2>7
<1> QED
  BY <1>1, <1>2
-----------------------------------------------------------------------------
(* The statements of a text that is part of another.                       *)

\* The text u stands in t after d words, and no statement of t crosses its ends.
Stands(t, u, d) ==
    /\ \A k \in 1..Len(u) : /\ d + k \in Shown(t) <=> k \in Shown(u)
                            /\ t[d + k] = u[k]
                            /\ Cuts(t, d + k) <=> Cuts(u, k)
    /\ \A f \in 1..Len(u), g \in Shown(t) :
          SameStatement(t, d + f, g) \/ SameStatement(t, g, d + f) => \E k \in 1..Len(u) : g = d + k

LEMMA StandsApart ==
  ASSUME NEW t, NEW u, NEW d \in Nat, Len(u) \in Nat, DOMAIN u = 1..Len(u), Stands(t, u, d)
  PROVE  \A f \in 1..Len(u) :
           /\ d + f \in Firsts(t) <=> f \in Firsts(u)
           /\ Statement(t, d + f) = Statement(u, f)
<1>1. Shown(u) \subseteq 1..Len(u)
  BY DEF Shown
<1>2. ASSUME NEW f \in 1..Len(u), NEW k \in 1..Len(u)
      PROVE  SameStatement(t, d + f, d + k) <=> SameStatement(u, f, k)
  <2>1. ASSUME SameStatement(t, d + f, d + k), NEW j \in f..k PROVE ~Cuts(u, j)
    <3>1. d + j \in d + f..d + k /\ j \in 1..Len(u)
      OBVIOUS
    <3> QED
      BY <2>1, <3>1 DEF SameStatement, Stands
  <2>2. ASSUME SameStatement(u, f, k), NEW j \in d + f..d + k PROVE ~Cuts(t, j)
    <3>1. j - d \in f..k /\ j - d \in 1..Len(u) /\ d + (j - d) = j
      OBVIOUS
    <3> QED
      BY <2>2, <3>1 DEF SameStatement, Stands
  <2>3. d + f <= d + k <=> f <= k
    OBVIOUS
  <2> QED
    BY <2>1, <2>2, <2>3 DEF SameStatement
<1>3. ASSUME NEW f \in 1..Len(u)
      PROVE  d + f \in Firsts(t) <=> f \in Firsts(u)
  <2>1. d + f \in Shown(t) <=> f \in Shown(u)
    BY DEF Stands
  <2>2. ASSUME d + f \in Firsts(t) PROVE f \in Firsts(u)
    <3>1. f \in Shown(u)
      BY <2>1, <2>2 DEF Firsts
    <3>2. ASSUME NEW g \in Shown(u), SameStatement(u, g, f) PROVE g = f
      <4>1. g \in 1..Len(u)
        BY <1>1
      <4>2. SameStatement(t, d + g, d + f) /\ d + g \in Shown(t)
        BY <1>2, <3>2, <4>1 DEF Stands
      <4>3. d + g = d + f
        BY <2>2, <4>2 DEF Firsts
      <4> QED
        BY <4>1, <4>3
    <3> QED
      BY <3>1, <3>2 DEF Firsts
  <2>3. ASSUME f \in Firsts(u) PROVE d + f \in Firsts(t)
    <3>1. d + f \in Shown(t)
      BY <2>1, <2>3 DEF Firsts
    <3>2. ASSUME NEW g \in Shown(t), SameStatement(t, g, d + f) PROVE g = d + f
      <4>1. PICK k \in 1..Len(u) : g = d + k
        BY <3>2 DEF Stands
      <4>2. SameStatement(u, k, f) /\ k \in Shown(u)
        BY <1>2, <3>2, <4>1 DEF Stands
      <4>3. k = f
        BY <2>3, <4>2 DEF Firsts
      <4> QED
        BY <4>1, <4>3
    <3> QED
      BY <3>1, <3>2 DEF Firsts
  <2> QED
    BY <2>2, <2>3
<1>4. ASSUME NEW f \in 1..Len(u)
      PROVE  Statement(t, d + f) = Statement(u, f)
  <2>1. ASSUME NEW k \in Shown(t), SameStatement(t, d + f, k)
        PROVE  <<k - (d + f), t[k]>> \in Statement(u, f)
    <3>1. PICK l \in 1..Len(u) : k = d + l
      BY <2>1 DEF Stands
    <3>2. l \in Shown(u) /\ SameStatement(u, f, l) /\ t[k] = u[l]
      BY <1>2, <2>1, <3>1 DEF Stands
    <3>3. k - (d + f) = l - f
      BY <3>1
    <3>4. <<l - f, u[l]>> \in Statement(u, f)
      BY <3>2 DEF Statement
    <3> QED
      BY <3>2, <3>3, <3>4
  <2>2. ASSUME NEW l \in Shown(u), SameStatement(u, f, l)
        PROVE  <<l - f, u[l]>> \in Statement(t, d + f)
    <3>1. l \in 1..Len(u)
      BY <1>1
    <3>2. d + l \in Shown(t) /\ SameStatement(t, d + f, d + l) /\ t[d + l] = u[l]
      BY <1>2, <2>2, <3>1 DEF Stands
    <3>3. (d + l) - (d + f) = l - f
      BY <3>1
    <3>4. <<(d + l) - (d + f), t[d + l]>> \in Statement(t, d + f)
      BY <3>2 DEF Statement
    <3> QED
      BY <3>2, <3>3, <3>4
  <2>3. Statement(t, d + f) = {<<k - (d + f), t[k]>> : k \in {j \in Shown(t) : SameStatement(t, d + f, j)}}
    BY DEF Statement
  <2>4. Statement(u, f) = {<<k - f, u[k]>> : k \in {j \in Shown(u) : SameStatement(u, f, j)}}
    BY DEF Statement
  <2> QED
    BY <2>1, <2>2, <2>3, <2>4
<1> QED
  BY <1>3, <1>4
Dashes(x) == x = "--"
Newline(x) == x = "newline"
Semicolon(x) == x = ";"

LEMMA HiddenIs ==
  ASSUME NEW t, NEW k
  PROVE  /\ Hidden(t, k) <=> \E i \in 1..k : Dashes(t[i]) /\ \A j \in i..k : ~Newline(t[j])
         /\ Cuts(t, k) <=> Semicolon(t[k]) /\ ~Hidden(t, k)
         /\ k \in Shown(t) <=> k \in DOMAIN t /\ ~Semicolon(t[k]) /\ ~Newline(t[k]) /\ ~Hidden(t, k)
BY DEF Hidden, Cuts, Shown, Dashes, Newline, Semicolon

LEMMA Distinct == \A x : ~(Dashes(x) /\ Newline(x)) /\ ~(Dashes(x) /\ Semicolon(x)) /\ ~(Newline(x) /\ Semicolon(x))
BY DEF Dashes, Newline, Semicolon

\* A comment that began before a newline is over after it.
LEMMA HiddenFromStart ==
  ASSUME NEW t, NEW u, NEW n \in Nat, \A k \in 1..n : t[k] = u[k]
  PROVE  \A k \in 1..n : Hidden(t, k) <=> Hidden(u, k)
<1>1. ASSUME NEW k \in 1..n PROVE Hidden(t, k) <=> Hidden(u, k)
  <2>1. \A i \in 1..k : t[i] = u[i] /\ \A j \in i..k : t[j] = u[j]
    OBVIOUS
  <2> QED
    BY <2>1, HiddenIs
<1> QED
  BY <1>1

LEMMA HiddenAfterNewline ==
  ASSUME NEW t, NEW u, NEW d \in Nat, NEW n \in Nat, d > 0 => Newline(t[d]), \A k \in 1..n : t[d + k] = u[k]
  PROVE  \A k \in 1..n : Hidden(t, d + k) <=> Hidden(u, k)
<1>1. ASSUME NEW k \in 1..n, Hidden(t, d + k) PROVE Hidden(u, k)
  <2>1. PICK i \in 1..d + k : Dashes(t[i]) /\ \A j \in i..d + k : ~Newline(t[j])
    BY <1>1, HiddenIs
  <2>2. i > d
    <3>1. d > 0 => d \notin i..d + k
      BY <2>1
    <3> QED
      BY <3>1
  <2>3. i - d \in 1..k /\ d + (i - d) = i
    BY <2>2
  <2>4. Dashes(u[i - d])
    BY <2>1, <2>3
  <2>5. ASSUME NEW j \in (i - d)..k PROVE ~Newline(u[j])
    <3>1. d + j \in i..d + k /\ j \in 1..n
      BY <2>3
    <3> QED
      BY <2>1, <3>1
  <2> QED
    BY <2>3, <2>4, <2>5, HiddenIs
<1>2. ASSUME NEW k \in 1..n, Hidden(u, k) PROVE Hidden(t, d + k)
  <2>1. PICK i \in 1..k : Dashes(u[i]) /\ \A j \in i..k : ~Newline(u[j])
    BY <1>2, HiddenIs
  <2>2. d + i \in 1..d + k /\ Dashes(t[d + i])
    BY <2>1
  <2>3. ASSUME NEW j \in d + i..d + k PROVE ~Newline(t[j])
    <3>1. j - d \in i..k /\ d + (j - d) = j
      OBVIOUS
    <3>2. t[d + (j - d)] = u[j - d]
      BY <3>1
    <3> QED
      BY <2>1, <3>1, <3>2
  <2> QED
    BY <2>2, <2>3, HiddenIs
<1> QED
  BY <1>1, <1>2

\* A text without its last semicolons has the same statements.
LEMMA TrimKeeps ==
  ASSUME NEW S, NEW text \in Seq(S)
  PROVE  /\ Statements(TrimEnd(text)) = Statements(text)
         /\ EndsInComment(TrimEnd(text)) => EndsInComment(text)
<1> DEFINE short == TrimEnd(text)
<1>1. PICK n \in 0..Len(text) :
        /\ short \in Seq(S) /\ Len(short) = n
        /\ \A k \in 1..n : short[k] = text[k]
        /\ \A k \in n + 1..Len(text) : Semicolon(text[k])
  BY Trimmed DEF Semicolon
<1> HIDE DEF short
<1>2. Len(text) \in Nat /\ DOMAIN text = 1..Len(text) /\ n \in Nat /\ DOMAIN short = 1..n
  BY <1>1
<1>3. \A k \in 1..n : Hidden(text, k) <=> Hidden(short, k)
  BY <1>1, <1>2, HiddenFromStart
<1>4. \A k \in Shown(text) : k \in 1..n
  <2>1. ASSUME NEW k \in 1..Len(text), k \notin 1..n PROVE k \notin Shown(text)
    <3>1. k \in n + 1..Len(text)
      BY <1>2, <2>1
    <3> QED
      BY <1>1, <3>1, HiddenIs
  <2> QED
    BY <1>2, <2>1 DEF Shown
<1>5. Stands(text, short, 0)
  <2>1. ASSUME NEW k \in 1..n
        PROVE  (0 + k \in Shown(text) <=> k \in Shown(short)) /\ text[0 + k] = short[k] /\ (Cuts(text, 0 + k) <=> Cuts(short, k))
    <3>1. 0 + k = k /\ k \in DOMAIN text /\ k \in DOMAIN short /\ text[k] = short[k]
      BY <1>1, <1>2
    <3> QED
      BY <1>3, <3>1, HiddenIs
  <2>2. \A g \in Shown(text) : \E k \in 1..n : g = 0 + k
    BY <1>2, <1>4
  <2> QED
    BY <1>1, <2>1, <2>2 DEF Stands
<1>6. ASSUME NEW f \in 1..n
      PROVE  (f \in Firsts(text) <=> f \in Firsts(short)) /\ Statement(text, f) = Statement(short, f)
  <2>1. 0 + f = f /\ 0 \in Nat /\ Len(short) \in Nat /\ DOMAIN short = 1..Len(short) /\ f \in 1..Len(short)
    BY <1>1, <1>2
  <2>2. (0 + f \in Firsts(text) <=> f \in Firsts(short)) /\ Statement(text, 0 + f) = Statement(short, f)
    BY <1>5, <2>1, StandsApart
  <2> QED
    BY <2>1, <2>2
<1>7. \A f \in Firsts(text) : f \in 1..n
  BY <1>4 DEF Firsts
<1>8. \A f \in Firsts(short) : f \in 1..n
  BY <1>2 DEF Firsts, Shown
<1>9. Statements(short) = Statements(text)
  BY <1>6, <1>7, <1>8 DEF Statements
<1>10. ASSUME EndsInComment(short) PROVE EndsInComment(text)
  <2>1. PICK i \in 1..n : Dashes(short[i]) /\ \A j \in i..n : ~Newline(short[j])
    BY <1>1, <1>10, HiddenIs DEF EndsInComment
  <2>2. i \in 1..Len(text) /\ Dashes(text[i])
    BY <1>1, <1>2, <2>1
  <2>3. ASSUME NEW j \in i..Len(text) PROVE ~Newline(text[j])
    <3>1. CASE j \in i..n
      <4>1. short[j] = text[j]
        BY <1>1, <1>2, <3>1
      <4> QED
        BY <2>1, <3>1, <4>1
    <3>2. CASE j \notin i..n
      <4>1. j \in n + 1..Len(text)
        BY <1>2, <3>2
      <4> QED
        BY <1>1, <4>1, Distinct
    <3> QED
      BY <3>1, <3>2
  <2> QED
    BY <2>2, <2>3, HiddenIs DEF EndsInComment
<1> QED
  BY <1>9, <1>10 DEF short
Separator(sep, S) == sep \in Seq(S) /\ Len(sep) = 2 /\ Semicolon(sep[1]) /\ Newline(sep[2])

\* A text of two others, with a semicolon and a newline between them.
Between(t, a, b, S) ==
    /\ t \in Seq(S) /\ Len(t) = Len(a) + 2 + Len(b)
    /\ \A k \in 1..Len(a) : t[k] = a[k]
    /\ Semicolon(t[Len(a) + 1]) /\ Newline(t[Len(a) + 2])
    /\ \A k \in 1..Len(b) : t[Len(a) + 2 + k] = b[k]

LEMMA Concatenated2 ==
  ASSUME NEW S, NEW sep, Separator(sep, S), NEW a \in Seq(S), NEW b \in Seq(S),
         NEW t, t = a \o sep \o b
  PROVE  Between(t, a, b, S)
<1> DEFINE left == a \o sep
<1>1. sep \in Seq(S) /\ Len(sep) = 2 /\ Semicolon(sep[1]) /\ Newline(sep[2])
  BY DEF Separator
<1>2. Len(a) \in Nat /\ Len(b) \in Nat
  OBVIOUS
<1>3. left \in Seq(S) /\ Len(left) = Len(a) + 2 /\ \A k \in 1..Len(a) + 2 : left[k] = IF k <= Len(a) THEN a[k] ELSE sep[k - Len(a)]
  <2>1. /\ a \o sep \in Seq(S) /\ Len(a \o sep) = Len(a) + Len(sep)
        /\ \A k \in 1..Len(a) + Len(sep) : (a \o sep)[k] = IF k <= Len(a) THEN a[k] ELSE sep[k - Len(a)]
    BY <1>1, ConcatProperties
  <2> QED
    BY <1>1, <2>1
<1>4. t = left \o b
  OBVIOUS
<1> HIDE DEF left
<1>5. t \in Seq(S) /\ Len(t) = Len(left) + Len(b) /\ \A k \in 1..Len(left) + Len(b) : t[k] = IF k <= Len(left) THEN left[k] ELSE b[k - Len(left)]
  <2>1. /\ left \o b \in Seq(S) /\ Len(left \o b) = Len(left) + Len(b)
        /\ \A k \in 1..Len(left) + Len(b) : (left \o b)[k] = IF k <= Len(left) THEN left[k] ELSE b[k - Len(left)]
    <3>1. left \in Seq(S)
      BY <1>3
    <3> QED
      BY <3>1, ConcatProperties
  <2> QED
    BY <1>4, <2>1
<1>6. ASSUME NEW k \in 1..Len(a) PROVE t[k] = a[k]
  <2>1. k \in 1..Len(a) + 2 /\ k \in 1..Len(left) + Len(b) /\ k <= Len(a) /\ k <= Len(left)
    BY <1>2, <1>3
  <2> QED
    BY <1>3, <1>5, <2>1
<1>7. t[Len(a) + 1] = sep[1] /\ t[Len(a) + 2] = sep[2]
  <2>1. /\ Len(a) + 1 \in 1..Len(a) + 2 /\ Len(a) + 2 \in 1..Len(a) + 2
        /\ (Len(a) + 1) - Len(a) = 1 /\ (Len(a) + 2) - Len(a) = 2 /\ ~(Len(a) + 1 <= Len(a)) /\ ~(Len(a) + 2 <= Len(a))
    BY <1>2
  <2>2. left[Len(a) + 1] = sep[1] /\ left[Len(a) + 2] = sep[2]
    BY <1>3, <2>1
  <2>3. /\ Len(a) + 1 \in 1..Len(left) + Len(b) /\ Len(a) + 2 \in 1..Len(left) + Len(b)
        /\ Len(a) + 1 <= Len(left) /\ Len(a) + 2 <= Len(left)
    BY <1>2, <1>3
  <2> QED
    BY <1>5, <2>2, <2>3
<1>8. ASSUME NEW k \in 1..Len(b) PROVE t[Len(a) + 2 + k] = b[k]
  <2>1. Len(a) + 2 + k \in 1..Len(left) + Len(b) /\ ~(Len(a) + 2 + k <= Len(left)) /\ (Len(a) + 2 + k) - Len(left) = k
    BY <1>2, <1>3
  <2> QED
    BY <1>5, <2>1
<1> QED
  BY <1>1, <1>3, <1>5, <1>6, <1>7, <1>8 DEF Between

SaysBoth(t, a, b, S) ==
    /\ t \in Seq(S)
    /\ Statements(t) = Statements(a) \cup Statements(b)
    /\ EndsInComment(t) <=> EndsInComment(b)

\* Texts joined by a semicolon and a newline have the statements of both, if
\* the first ends in no comment.
LEMMA JoinedTexts ==
  ASSUME NEW S, NEW sep, Separator(sep, S), NEW a \in Seq(S), NEW b \in Seq(S), ~EndsInComment(a),
         NEW t, t = a \o sep \o b
  PROVE  SaysBoth(t, a, b, S)
<1> DEFINE la == Len(a)
           lb == Len(b)
           d == la + 2
<1>1. /\ t \in Seq(S) /\ Len(t) = la + 2 + lb
      /\ \A k \in 1..la : t[k] = a[k]
      /\ Semicolon(t[la + 1]) /\ Newline(t[d])
      /\ \A k \in 1..lb : t[d + k] = b[k]
  <2> HIDE DEF la, lb, d
  <2>1. Between(t, a, b, S)
    BY Concatenated2
  <2> QED
    BY <2>1 DEF la, lb, d, Between
<1>2. la \in Nat /\ lb \in Nat /\ DOMAIN a = 1..la /\ DOMAIN b = 1..lb
  OBVIOUS
<1>3. DOMAIN t = 1..la + 2 + lb
  BY <1>1
<1>4. d \in Nat /\ d > 0
  BY <1>2
<1>5. Len(a) = la /\ Len(b) = lb /\ d = la + 2
  OBVIOUS
<1> HIDE DEF la, lb, d
<1>6. \A k \in 1..la : Hidden(t, k) <=> Hidden(a, k)
  BY <1>1, <1>2, HiddenFromStart
<1>7. \A k \in 1..lb : Hidden(t, d + k) <=> Hidden(b, k)
  BY <1>1, <1>2, <1>4, HiddenAfterNewline
<1>8. Cuts(t, la + 1)
  <2>1. ASSUME Hidden(t, la + 1) PROVE FALSE
    <3>1. PICK i \in 1..la + 1 : Dashes(t[i]) /\ \A j \in i..la + 1 : ~Newline(t[j])
      BY <2>1, HiddenIs
    <3>2. i # la + 1
      BY <1>1, <3>1, Distinct
    <3>3. i \in 1..la /\ la \in i..la + 1 /\ \A j \in i..la : j \in i..la + 1
      BY <1>2, <3>2
    <3>4. Hidden(a, la)
      <4>1. Dashes(a[i])
        BY <1>1, <3>1, <3>3
      <4>2. ASSUME NEW j \in i..la PROVE ~Newline(a[j])
        <5>1. j \in 1..la /\ j \in i..la + 1
          BY <1>2, <3>3
        <5> QED
          BY <1>1, <3>1, <5>1
      <4> QED
        BY <3>3, <4>1, <4>2, HiddenIs
    <3> QED
      BY <1>5, <3>4 DEF EndsInComment
  <2> QED
    BY <1>1, <2>1, HiddenIs
<1>9. \A k \in Shown(t) : (k \in 1..la) \/ (\E l \in 1..lb : k = d + l)
  <2>1. ASSUME NEW k \in Shown(t), k \notin 1..la PROVE \E l \in 1..lb : k = d + l
    <3>1. k \in 1..la + 2 + lb /\ k # la + 1 /\ k # d
      BY <1>1, <1>3, <2>1, HiddenIs
    <3>2. k - d \in 1..lb /\ k = d + (k - d)
      BY <1>2, <1>5, <2>1, <3>1
    <3> QED
      BY <3>2
  <2> QED
    BY <2>1
<1>10. ASSUME NEW f \in 1..la, NEW l \in 1..lb
       PROVE  ~SameStatement(t, f, d + l) /\ ~SameStatement(t, d + l, f)
  <2>1. la + 1 \in f..d + l /\ ~(d + l <= f)
    BY <1>2, <1>5
  <2> QED
    BY <1>8, <2>1 DEF SameStatement
<1>11. Stands(t, a, 0)
  <2>1. ASSUME NEW k \in 1..la
        PROVE  (0 + k \in Shown(t) <=> k \in Shown(a)) /\ t[0 + k] = a[k] /\ (Cuts(t, 0 + k) <=> Cuts(a, k))
    <3>1. 0 + k = k /\ k \in DOMAIN t /\ k \in DOMAIN a /\ t[k] = a[k]
      BY <1>1, <1>2, <1>3
    <3> QED
      BY <1>6, <3>1, HiddenIs
  <2>2. ASSUME NEW f \in 1..la, NEW g \in Shown(t), SameStatement(t, 0 + f, g) \/ SameStatement(t, g, 0 + f)
        PROVE  \E k \in 1..la : g = 0 + k
    <3>1. 0 + f = f
      OBVIOUS
    <3>2. g \in 1..la
      BY <1>9, <1>10, <2>2, <3>1
    <3>3. g = 0 + g
      BY <1>2, <3>2
    <3> QED
      BY <3>2, <3>3
  <2> QED
    BY <1>5, <2>1, <2>2 DEF Stands
<1>12. Stands(t, b, d)
  <2>1. ASSUME NEW k \in 1..lb
        PROVE  (d + k \in Shown(t) <=> k \in Shown(b)) /\ t[d + k] = b[k] /\ (Cuts(t, d + k) <=> Cuts(b, k))
    <3>1. d + k \in DOMAIN t /\ k \in DOMAIN b /\ t[d + k] = b[k]
      <4>1. d + k \in 1..la + 2 + lb
        BY <1>2, <1>5
      <4> QED
        BY <1>1, <1>2, <1>3, <4>1
    <3> QED
      BY <1>7, <3>1, HiddenIs
  <2>2. ASSUME NEW f \in 1..lb, NEW g \in Shown(t), SameStatement(t, d + f, g) \/ SameStatement(t, g, d + f)
        PROVE  \E k \in 1..lb : g = d + k
    BY <1>9, <1>10, <2>2
  <2> QED
    BY <1>5, <2>1, <2>2 DEF Stands
<1>13. \A f \in 1..la : (f \in Firsts(t) <=> f \in Firsts(a)) /\ Statement(t, f) = Statement(a, f)
  <2>1. \A f \in 1..la : (0 + f \in Firsts(t) <=> f \in Firsts(a)) /\ Statement(t, 0 + f) = Statement(a, f)
    <3>1. Len(a) \in Nat /\ DOMAIN a = 1..Len(a) /\ 0 \in Nat
      BY <1>2, <1>5
    <3>2. \A f \in 1..Len(a) : (0 + f \in Firsts(t) <=> f \in Firsts(a)) /\ Statement(t, 0 + f) = Statement(a, f)
      BY <1>11, <3>1, StandsApart
    <3> QED
      BY <1>5, <3>2
  <2>2. \A f \in 1..la : 0 + f = f
    OBVIOUS
  <2> QED
    BY <2>1, <2>2
<1>14. \A f \in 1..lb : (d + f \in Firsts(t) <=> f \in Firsts(b)) /\ Statement(t, d + f) = Statement(b, f)
  <2>1. Len(b) \in Nat /\ DOMAIN b = 1..Len(b)
    BY <1>2, <1>5
  <2>2. \A f \in 1..Len(b) : (d + f \in Firsts(t) <=> f \in Firsts(b)) /\ Statement(t, d + f) = Statement(b, f)
    BY <1>4, <1>12, <2>1, StandsApart
  <2> QED
    BY <1>5, <2>2
<1>15. Firsts(a) \subseteq 1..la /\ Firsts(b) \subseteq 1..lb
  BY <1>2 DEF Firsts, Shown
<1>16. \A f \in Firsts(t) : (f \in 1..la) \/ (\E l \in 1..lb : f = d + l)
  BY <1>9 DEF Firsts
<1>17. Statements(t) = Statements(a) \cup Statements(b)
  <2>1. ASSUME NEW f \in Firsts(t) PROVE Statement(t, f) \in Statements(a) \cup Statements(b)
    BY <1>13, <1>14, <1>16 DEF Statements
  <2>2. ASSUME NEW f \in Firsts(a) PROVE Statement(a, f) \in Statements(t)
    BY <1>13, <1>15 DEF Statements
  <2>3. ASSUME NEW f \in Firsts(b) PROVE Statement(b, f) \in Statements(t)
    BY <1>14, <1>15 DEF Statements
  <2> QED
    BY <2>1, <2>2, <2>3 DEF Statements
<1>18. EndsInComment(t) <=> EndsInComment(b)
  <2>1. CASE lb = 0
    <3>1. ~Hidden(b, 0)
      <4>1. 1..0 = {}
        OBVIOUS
      <4> QED
        BY <4>1, HiddenIs
    <3>2. ~Hidden(t, d)
      <4>1. ASSUME NEW i \in 1..d, \A j \in i..d : ~Newline(t[j]) PROVE FALSE
        <5>1. d \in i..d
          BY <1>4
        <5> QED
          BY <1>1, <4>1, <5>1
      <4> QED
        BY <4>1, HiddenIs
    <3>3. Len(t) = d
      BY <1>1, <1>2, <1>5, <2>1
    <3> QED
      BY <1>5, <2>1, <3>1, <3>2, <3>3 DEF EndsInComment
  <2>2. CASE lb # 0
    <3>1. lb \in 1..lb /\ Len(t) = d + lb
      BY <1>1, <1>2, <1>5, <2>2
    <3> QED
      BY <1>5, <1>7, <3>1 DEF EndsInComment
  <2> QED
    BY <2>1, <2>2
<1> QED
  BY <1>1, <1>17, <1>18 DEF SaysBoth
-----------------------------------------------------------------------------
(* The text the code judges, beside the statements Django executes.        *)

LEMMA NoStatements == Statements(<<>>) = {}
<1>1. DOMAIN <<>> = {}
  OBVIOUS
<1>2. Shown(<<>>) = {}
  BY <1>1 DEF Shown
<1> QED
  BY <1>2 DEF Statements, Firsts

LEMMA SequenceIs ==
  ASSUME NEW node \in Nodes, node.kind \in Sequences, IsSql(node)
  PROVE  /\ SequenceText(node.items) # {}
         /\ CommentsClosed(node) => UNION {Statements(t) : t \in SequenceText(node.items)} = Executes(node)
<1> DEFINE items == node.items
           parts == [i \in DOMAIN items |-> IF IsComment(items[i]) THEN {} ELSE PartText(items[i])]
           sep == <<";", "newline">>
           Shows(i) == i \in DOMAIN items /\ NotComment(items[i])
           Texts == Seq(Symbols)
           Closed == {t \in Texts : ~EndsInComment(t)}
           nothing == [t \in Texts |-> {}]
           of == [t \in Closed |-> Statements(t)]
           E(i) == UNION {Statements(t) : t \in ElementText(items[i])}
<1>1. /\ Len(items) \in Nat /\ DOMAIN items = 1..Len(items)
      /\ \A i \in DOMAIN items : items[i] \in Nodes
  BY NodeItems
<1>2. Elements(node) # {} /\ \A item \in Elements(node) : IsStatement(item)
  BY DEF IsSql, IsLiteral, Strings, Sequences
<1>3. \A i : Shows(i) => items[i] \in Elements(node)
  BY DEF Elements
<1>4. ASSUME NEW i, Shows(i)
      PROVE  \E t \in Texts : ElementText(items[i]) = {t} /\ PartText(items[i]) = {TrimEnd(t)} /\ TrimEnd(t) \in Texts
  <2>1. items[i] \in Nodes /\ IsStatement(items[i])
    BY <1>1, <1>2, <1>3, <1>4
  <2>2. PICK t \in Seq(Symbols) : ElementText(items[i]) = {t} /\ PartText(items[i]) = {TrimEnd(t)}
    BY <2>1, PartIs
  <2>3. TrimEnd(t) \in Seq(Symbols)
    BY <2>2, Trimmed
  <2> QED
    BY <2>2, <2>3
<1>5. DOMAIN parts = 1..Len(items) /\ Len(parts) = Len(items)
  BY <1>1
<1>6. \A i \in DOMAIN items : parts[i] = IF Shows(i) THEN PartText(items[i]) ELSE {}
  BY DEF NotComment
<1>7. SequenceText(items) = Join(parts, sep)
  <2>1. ~\E i \in DOMAIN items : NotComment(items[i]) /\ PartText(items[i]) = {}
    BY <1>4
  <2> QED
    BY <2>1 DEF SequenceText, JoinStatements
<1>8. Separator(sep, Symbols)
  <2>1. \A x, y \in Symbols : <<x, y>> \in Seq(Symbols) /\ Len(<<x, y>>) = 2
    OBVIOUS
  <2>2. sep[1] = ";" /\ sep[2] = "newline" /\ sep \in Seq(Symbols) /\ Len(sep) = 2
    BY <2>1, FileAssumption
  <2> HIDE DEF sep
  <2> QED
    BY <2>1, <2>2 DEF Separator, Semicolon, Newline
<1>9. PICK first : Shows(first)
  BY <1>2 DEF Elements
<1>10. ASSUME NEW a \in Texts, NEW b \in Texts PROVE a \o sep \o b \in Texts
  <2>1. sep \in Seq(Symbols)
    BY <1>8 DEF Separator
  <2> HIDE DEF sep
  <2> QED
    BY <2>1
<1>11. AddsUp(Texts, sep, nothing)
  BY <1>10 DEF AddsUp
<1>12. ASSUME NEW a \in Closed, NEW b \in Closed
       PROVE  a \o sep \o b \in Closed /\ Statements(a \o sep \o b) = Statements(a) \cup Statements(b)
  <2> DEFINE t == a \o sep \o b
  <2>1. a \in Seq(Symbols) /\ b \in Seq(Symbols) /\ ~EndsInComment(a) /\ ~EndsInComment(b)
    OBVIOUS
  <2>2. t = a \o sep \o b
    OBVIOUS
  <2> HIDE DEF t, sep, Closed
  <2>3. SaysBoth(t, a, b, Symbols)
    BY <1>8, <2>1, <2>2, JoinedTexts
  <2> QED
    BY <2>1, <2>2, <2>3 DEF Closed, SaysBoth
<1>13. AddsUp(Closed, sep, of)
  <2> HIDE DEF sep, Closed
  <2> QED
    BY <1>12 DEF AddsUp
<1> HIDE DEF sep, Texts, Closed, nothing, of, parts
<1>14. AtMostOne(parts, Texts) /\ parts[first] # {} /\ first \in 1..Len(parts)
  <2>1. \A i \in 1..Len(parts) : parts[i] = {} \/ \E t \in Texts : parts[i] = {t}
    BY <1>1, <1>4, <1>5, <1>6
  <2> QED
    BY <1>1, <1>4, <1>5, <1>6, <1>9, <2>1 DEF AtMostOne
<1>15. Len(parts) \in Nat
  BY <1>1, <1>5
<1>18. ~\A n \in 1..Len(parts) : parts[n] = {}
  BY <1>14
<1>16. Join(parts, sep) # {}
  <2>1. \E t \in Texts : Join(parts, sep) = {t} /\ nothing[t] = Total(parts, nothing)
    BY <1>11, <1>14, <1>15, <1>18, JoinAdds
  <2> QED
    BY <2>1
<1>17. ASSUME CommentsClosed(node)
       PROVE  UNION {Statements(t) : t \in SequenceText(node.items)} = Executes(node)
  <2>1. ASSUME NEW i, Shows(i)
        PROVE  \E t \in Closed : parts[i] = {t} /\ Statements(t) = E(i)
    <3>1. PICK t \in Texts : ElementText(items[i]) = {t} /\ PartText(items[i]) = {TrimEnd(t)} /\ TrimEnd(t) \in Texts
      BY <1>4, <2>1
    <3>2. items[i].kind \in Strings \cup Sequences
      BY <1>2, <1>3, <2>1 DEF IsStatement, IsLiteral
    <3>3. ~EndsInComment(t)
      BY <1>3, <1>17, <2>1, <3>1, <3>2 DEF CommentsClosed
    <3>4. Statements(TrimEnd(t)) = Statements(t) /\ ~EndsInComment(TrimEnd(t))
      BY <3>1, <3>3, TrimKeeps DEF Texts
    <3>5. parts[i] = {TrimEnd(t)}
      BY <1>6, <2>1, <3>1
    <3>6. TrimEnd(t) \in Closed
      BY <3>1, <3>4 DEF Closed
    <3>7. E(i) = Statements(t)
      BY <3>1
    <3> QED
      BY <3>4, <3>5, <3>6, <3>7
  <2>2. AtMostOne(parts, Closed)
    <3>1. \A i \in 1..Len(parts) : parts[i] = {} \/ \E t \in Closed : parts[i] = {t}
      BY <1>1, <1>5, <1>6, <2>1
    <3> QED
      BY <3>1 DEF AtMostOne
  <2>3. PICK t \in Closed : Join(parts, sep) = {t} /\ of[t] = Total(parts, of)
    BY <1>13, <1>15, <1>18, <2>2, JoinAdds
  <2>4. of[t] = Statements(t)
    BY DEF of
  <2>5. ASSUME NEW i \in 1..Len(parts)
        PROVE  UNION {of[x] : x \in parts[i]} = IF Shows(i) THEN E(i) ELSE {}
    <3>1. CASE Shows(i)
      <4>1. PICK x \in Closed : parts[i] = {x} /\ Statements(x) = E(i)
        BY <2>1, <3>1
      <4>2. of[x] = E(i)
        BY <4>1 DEF of
      <4> HIDE DEF E, Shows
      <4> QED
        BY <3>1, <4>1, <4>2
    <3>2. CASE ~Shows(i)
      <4>1. parts[i] = {}
        BY <1>1, <1>5, <1>6, <3>2
      <4> HIDE DEF E, Shows
      <4> QED
        BY <3>2, <4>1
    <3> QED
      BY <3>1, <3>2
  <2>6. Total(parts, of) = UNION {E(i) : i \in {j \in DOMAIN items : NotComment(items[j])}}
    <3>1. Total(parts, of) = UNION {UNION {of[x] : x \in parts[n]} : n \in 1..Len(parts)}
      BY DEF Total
    <3>2. {j \in DOMAIN items : NotComment(items[j])} = {j \in 1..Len(parts) : Shows(j)}
      BY <1>1, <1>5
    <3> HIDE DEF E, Shows
    <3> QED
      BY <2>5, <3>1, <3>2
  <2>7. Executes(node) = UNION {UNION {Statements(x) : x \in ElementText(item)} : item \in Elements(node)}
    BY DEF Executes, Strings, Sequences
  <2>8. Executes(node) = UNION {E(i) : i \in {j \in DOMAIN items : NotComment(items[j])}}
    BY <2>7 DEF Elements
  <2> QED
    <3>1. SequenceText(node.items) = {t}
      BY <1>7, <2>3
    <3>2. Statements(t) = Executes(node)
      BY <2>3, <2>4, <2>6, <2>8
    <3>3. UNION {Statements(x) : x \in {t}} = Statements(t)
      OBVIOUS
    <3> QED
      BY <3>1, <3>2, <3>3
<1> QED
  BY <1>7, <1>16, <1>17
LEMMA LiteralSqlIs ==
  ASSUME NEW node \in Nodes
  PROVE  /\ IsSql(node) => LiteralSql(node) # {}
         /\ IsSql(node) /\ CommentsClosed(node) => UNION {Statements(t) : t \in LiteralSql(node)} = Executes(node)
         /\ Unreadable(node) => UNION {Statements(t) : t \in LiteralSql(node)} = {}
<1>1. ASSUME IsSql(node), node.kind \in Strings
      PROVE  LiteralSql(node) # {} /\ UNION {Statements(t) : t \in LiteralSql(node)} = Executes(node)
  <2>1. ~Interpolated(node)
    BY <1>1 DEF IsSql, IsLiteral, Strings, Sequences
  <2>2. LiteralSql(node) = StringValue(node) /\ Executes(node) = UNION {Statements(t) : t \in PythonText(node)}
    BY <1>1 DEF LiteralSql, Executes, Strings, Sequences
  <2>3. StringValue(node) = PythonText(node) /\ PythonText(node) # {}
    BY <1>1, <2>1, LiteralIs
  <2> QED
    BY <2>2, <2>3
<1>2. ASSUME node.kind \in Sequences PROVE LiteralSql(node) = SequenceText(node.items)
  BY <1>2 DEF LiteralSql, Strings, Sequences
<1>3. IsSql(node) => node.kind \in Strings \/ node.kind \in Sequences
  BY DEF IsSql, IsLiteral
<1>4. ASSUME Unreadable(node)
      PROVE  UNION {Statements(t) : t \in LiteralSql(node)} = {}
  <2>1. CASE node.kind \notin Strings \cup Sequences
    BY <2>1 DEF LiteralSql
  <2>2. CASE node.kind = "string" /\ Interpolated(node)
    <3>1. LiteralSql(node) = StringValue(node) /\ StringValue(node) = {LiteralText(node)}
      BY <2>2 DEF LiteralSql, StringValue, Strings, Sequences
    <3>2. LiteralText(node) = <<>>
      BY <2>2, StringIs DEF Interpolated
    <3>3. UNION {Statements(t) : t \in {<<>>}} = {}
      BY NoStatements
    <3> QED
      BY <3>1, <3>2, <3>3
  <2>3. CASE node.kind \in Sequences /\ \E item \in Elements(node) : item.kind \notin Strings \cup Sequences
    <3>1. PICK i \in DOMAIN node.items : NotComment(node.items[i]) /\ node.items[i].kind \notin Strings \cup Sequences
      BY <2>3 DEF Elements
    <3>2. PartText(node.items[i]) = {}
      BY <3>1 DEF PartText
    <3>3. SequenceText(node.items) = {}
      BY <3>1, <3>2 DEF SequenceText
    <3> QED
      BY <1>2, <2>3, <3>3
  <2>4. CASE node.kind \in Sequences /\ Bare(node)
    <3> DEFINE items == node.items
               parts == [i \in DOMAIN items |-> IF IsComment(items[i]) THEN {} ELSE PartText(items[i])]
               sep == <<";", "newline">>
    <3>1. Len(items) \in Nat /\ DOMAIN items = 1..Len(items)
      BY <2>4, NodeItems
    <3>2. \A i \in DOMAIN items : IsComment(items[i])
      BY <2>4 DEF Bare
    <3>3. Len(parts) = Len(items) /\ \A n \in 1..Len(parts) : parts[n] = {}
      BY <3>1, <3>2
    <3>4. SequenceText(items) = Join(parts, sep)
      BY <3>2 DEF SequenceText, JoinStatements, NotComment
    <3>5. Len(parts) \in Nat
      BY <3>1, <3>3
    <3> HIDE DEF items, parts, sep
    <3>6. AtMostOne(parts, {}) /\ AddsUp({}, sep, <<>>)
      BY <3>3 DEF AtMostOne, AddsUp
    <3>7. Join(parts, sep) = {}
      BY <3>3, <3>5, <3>6, JoinAdds
    <3> QED
      BY <1>2, <2>4, <3>4, <3>7 DEF items
  <2> QED
    BY <1>4, <2>1, <2>2, <2>3, <2>4 DEF Unreadable
<1> QED
  BY <1>1, <1>2, <1>3, <1>4, SequenceIs

\* Through a name that nothing else rebound the code reads what Python holds.
LEMMA Resolved ==
  ASSUME IInv, NEW node \in Nodes, Clear(node)
  PROVE  Held(node) \in Nodes /\ ResolveString(node) = IF node = Noop THEN {<<>>} ELSE LiteralSql(Held(node))
<1>1. CASE node.kind = "identifier"
  <2>1. node.name \in Variables
    BY <1>1, FileAssumption DEF WellFormed, Strings, Sequences
  <2>2. bindings[node.name] = env[node.name] /\ env[node.name] \in Nodes
    BY <1>1, <2>1 DEF IInv, TypeOK, NamesOK, Clear
  <2>3. node # Noop
    BY <1>1 DEF Noop
  <2> QED
    BY <1>1, <2>2, <2>3 DEF ResolveString, Held
<1>2. CASE node.kind # "identifier"
  BY <1>2 DEF ResolveString, Held
<1> QED
  BY <1>1, <1>2

\* The arguments of RunSQL.
LEMMA SqlBound ==
  ASSUME NEW node \in Nodes, node.kind = "call", OperationType(node) = "RunSQL"
  PROVE  /\ Extract(node).sql = UNION {ResolveString(v) : v \in Parameter("RunSQL", node.args, "sql")}
         /\ Extract(node).reverse = UNION {ResolveString(v) : v \in Parameter("RunSQL", node.args, "reverse_sql")}
         /\ \A v, w \in Parameter("RunSQL", node.args, "sql") : v = w
         /\ Parameter("RunSQL", node.args, "sql") \subseteq Nodes
<1>1. Called(node) = "RunSQL"
  BY DEF OperationType
<1>2. node.args \in ArgumentLists /\ Accepted("RunSQL", node.args)
  BY <1>1, ArgumentsOf
<1>3. /\ Argument(node.args, "sql", 0) = Parameter("RunSQL", node.args, "sql")
      /\ Argument(node.args, "reverse_sql", 1) = Parameter("RunSQL", node.args, "reverse_sql")
  BY <1>2, ParametersBound DEF Binds
<1>4. \A v, w \in Argument(node.args, "sql", 0) : v = w
  BY <1>2, OneArgument
<1>5. Parameter("RunSQL", node.args, "sql") \subseteq Nodes
  BY <1>2, ArmNodes
<1>6. ~IsWrapper(node)
  BY DEF IsWrapper, Separate
<1>7. Extract(node).sql = Sql(node.args, "sql", 0) /\ Extract(node).reverse = Sql(node.args, "reverse_sql", 1)
  BY <1>6 DEF Extract
<1> QED
  BY <1>3, <1>4, <1>5, <1>7 DEF Sql

(***************************************************************************)
(* For every file, every sequence of assignments before the operations and *)
(* every text, of whatever words and length: the statements the raw SQL    *)
(* rules see of SQL that is written out are exactly those Django executes, *)
(* and none if the SQL is known only when something runs.  Left out are    *)
(* names that something else than a direct assignment has bound, f-strings *)
(* inside of something else, and sequences with an element that ends in a  *)
(* line comment: those lose a boundary (SequenceBoundaries).               *)
(***************************************************************************)
THEOREM SqlIsExact == Spec => []SqlExact
<1>1. ASSUME IInv PROVE SqlExact
  <2> USE <1>1
  <2>1. SUFFICES ASSUME SeesSql, NEW node \in SqlGiven, Clear(node), CommentsClosed(Held(node))
                 PROVE  SqlMatches(Held(node))
    BY DEF SqlExact
  <2>2. last \in Nodes /\ last.kind = "call" /\ OperationType(last) = "RunSQL"
    BY <2>1 DEF IInv, WalkOK, SeesSql
  <2>3. SqlGiven = {node} /\ node \in Nodes
    BY <2>1, <2>2, SqlBound DEF SqlGiven
  <2>4. Seen.sql = ResolveString(node)
    <3>1. Seen.sql = UNION {ResolveString(v) : v \in SqlGiven}
      BY <2>2, SqlBound DEF Seen, SqlGiven
    <3> QED
      BY <2>3, <3>1
  <2>5. Held(node) \in Nodes /\ ResolveString(node) = IF node = Noop THEN {<<>>} ELSE LiteralSql(Held(node))
    BY <2>1, <2>3, Resolved
  <2>6. SeenSql = UNION {Statements(t) : t \in ResolveString(node)}
    BY <2>4 DEF SeenSql
  <2>7. CASE node = Noop
    <3>1. Held(node) = Noop /\ Noop.kind = "attribute"
      BY <2>7 DEF Held, Noop
    <3>2. ~IsSql(Held(node))
      BY <3>1 DEF IsSql, IsLiteral, Strings, Sequences
    <3>3. UNION {Statements(t) : t \in {<<>>}} = {}
      BY NoStatements
    <3> QED
      BY <2>5, <2>6, <2>7, <3>2, <3>3 DEF SqlMatches
  <2>8. CASE node # Noop
    BY <2>1, <2>5, <2>6, <2>8, LiteralSqlIs DEF SqlMatches
  <2> QED
    BY <2>7, <2>8
<1> QED
  BY <1>1, InvariantHolds, PTL

LEMMA OperationUnderstood ==
  ASSUME NEW node \in Nodes, IsOperation(node)
  PROVE  Understood(node)
<1> DEFINE type == OperationType(node)
           args == node.args
<1>1. node.kind = "call" /\ type # Separate
  BY DEF IsOperation
<1>2. args \in ArgumentLists /\ Accepted(Called(node), args)
  BY <1>1, ArgumentsOf
<1>3. Extract(node).data = Data(type, args)
  BY <1>1 DEF Extract, IsWrapper
<1>4. CASE type \in {"RunSQL", "Unknown", "AlterModelOptions"}
  BY <1>3, <1>4 DEF Understood, Data, Means, IndexTypes, ModelTypes, FieldTypes, ConstraintTypes, TogetherTypes
<1>5. CASE type \notin {"RunSQL", "Unknown", "AlterModelOptions"}
  <2>1. Called(node) = type
    BY <1>5 DEF OperationType
  <2>2. SUFFICES ASSUME Plain(args), \A i \in DOMAIN args : args[i].value.kind = "call" => Plain(args[i].value.args)
                 PROVE  Data(type, args) = Means(type, args)
    BY <1>3 DEF Understood
  <2>3. ASSUME NEW i \in DOMAIN args, args[i].value.kind = "call"
        PROVE  Accepted(Called(args[i].value), args[i].value.args)
    <3>1. args[i].value \in Nodes
      BY <1>2, ArgumentNodes
    <3> QED
      BY <2>3, <3>1, ArgumentsOf
  <2>4. type # "RunSQL" /\ Accepted(type, args)
    BY <1>2, <1>5, <2>1
  <2> HIDE DEF type, args
  <2> QED
    BY <1>1, <1>2, <2>2, <2>3, <2>4, DataIsUnderstood
<1> QED
  BY <1>4, <1>5

(***************************************************************************)
(* For every file: an operation means to the rules what it means to        *)
(* Django, whichever of its arguments are keywords and whatever comments   *)
(* stand between them.  SQL counts as reversible only if what is given to  *)
(* undo it is not None, and it does if that is noop or SQL written out, in *)
(* place or in a name that only direct assignments have bound.             *)
(***************************************************************************)
THEOREM CallsAreUnderstood == Spec => []CallsUnderstood
<1>1. ASSUME IInv PROVE CallsUnderstood
  <2> USE <1>1
  <2>1. last \in Nodes
    BY DEF IInv, WalkOK
  <2>2. IsOperation(last) => Understood(last)
    BY <2>1, OperationUnderstood
  <2>3. ASSUME SeesSql
        PROVE  Seen.reverse = UNION {ResolveString(v) : v \in ReverseGiven}
    BY <2>1, <2>3, SqlBound DEF SeesSql, Seen, ReverseGiven
  <2>4. ASSUME SeesSql, NEW node \in ReverseGiven
        PROVE  node \in Nodes /\ (node.kind = "identifier" => node.name \in Variables /\ bindings[node.name] \in Nodes)
    <3>1. last.args \in ArgumentLists
      BY <2>1, <2>4, ArgumentsOf DEF SeesSql
    <3>2. node \in Nodes
      BY <2>4, <3>1, ArmNodes DEF ReverseGiven
    <3>3. ASSUME node.kind = "identifier" PROVE node.name \in Variables
      BY <3>2, <3>3, IdentifiersOf
    <3>4. bindings \in [Variables -> Nodes]
      BY DEF IInv, NamesOK
    <3> QED
      BY <3>2, <3>3, <3>4
  <2>5. ASSUME SeesSql, NEW node \in ReverseGiven, Clear(node)
        PROVE  node = Noop \/ ResolveString(node) = LiteralSql(Held(node))
    <3>1. CASE node.kind = "identifier"
      BY <2>4, <2>5, <3>1 DEF ResolveString, Held, Clear, IInv, TypeOK
    <3>2. CASE node.kind # "identifier"
      BY <3>2 DEF ResolveString, Held
    <3> QED
      BY <3>1, <3>2
  <2>6. ASSUME SeesSql, Seen.reverse # {}
        PROVE  \E node \in ReverseGiven : Clear(node) => Held(node) # Word("None")
    <3>1. PICK node \in ReverseGiven : ResolveString(node) # {}
      BY <2>3, <2>6
    <3>2. ASSUME Clear(node) PROVE Held(node) # Word("None")
      <4>1. CASE node = Noop
        BY <4>1 DEF Held, Noop, Word
      <4>2. CASE ResolveString(node) = LiteralSql(Held(node))
        BY <3>1, <4>2 DEF LiteralSql, Word, Strings, Sequences
      <4> QED
        BY <2>5, <2>6, <3>2, <4>1, <4>2
    <3> QED
      BY <3>2
  <2>7. ASSUME SeesSql, NEW node \in ReverseGiven, node = Noop \/ (Clear(node) /\ IsSql(Held(node)))
        PROVE  Seen.reverse # {}
    <3>1. ResolveString(node) # {}
      <4>1. CASE node = Noop
        BY <4>1 DEF ResolveString, Noop
      <4>2. CASE node # Noop
        <5>1. Held(node) \in Nodes /\ IsSql(Held(node))
          BY <2>4, <2>7, <4>2 DEF Held, Clear, IInv, TypeOK
        <5>2. ResolveString(node) = LiteralSql(Held(node))
          BY <2>5, <2>7, <4>2
        <5> QED
          BY <5>1, <5>2, LiteralSqlIs
      <4> QED
        BY <4>1, <4>2
    <3> QED
      BY <2>3, <2>7, <3>1
  <2> QED
    BY <2>2, <2>6, <2>7 DEF CallsUnderstood
<1> QED
  BY <1>1, InvariantHolds, PTL
=============================================================================
