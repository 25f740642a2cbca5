--------------------- MODULE ConstraintValidationProofs ---------------------
(***************************************************************************)
(* R017's validation order for every set of tables, spellings and names.   *)
(***************************************************************************)
EXTENDS ConstraintValidation, TLAPS

LEMMA ConstraintOfKey == \A k \in Keys : Constraint(k) \in Constraints
  BY DEF Constraints

LEMMA StepType == TypeOK /\ [Next]_vars => TypeOK'
<1> SUFFICES ASSUME TypeOK, [Next]_vars PROVE TypeOK'
  OBVIOUS
<1> USE ConstraintOfKey DEF TypeOK, Meets, Blindness
<1>1. CASE EnterAutocommit
  BY <1>1 DEF EnterAutocommit
<1>2. CASE LeaveAutocommit
  BY <1>2 DEF LeaveAutocommit
<1>3. CASE SkipAutocommit
  BY <1>3 DEF SkipAutocommit
<1>4. ASSUME NEW t \in Tables, CreateTable(t) PROVE TypeOK'
  BY <1>4 DEF CreateTable
<1>5. CASE BeginCall
  BY <1>5 DEF BeginCall
<1>6. CASE EndCall
  BY <1>6 DEF EndCall
<1>7. ASSUME NEW k \in Keys, Validate(k) PROVE TypeOK'
  <2>1. blind' = blind \/ blind' = blind \cup {"schema_alias"}
    BY <1>7 DEF Validate
  <2>2. risky' = (Constraint(k) \in open)
    BY <1>7, Zenon DEF Validate
  <2>3. risky' \in BOOLEAN
    BY ONLY <2>2
  <2>4. verdict' \in {"flagged", "passed"}
    BY <1>7 DEF Validate
  <2> QED
    BY <1>7, <2>1, <2>3, <2>4 DEF Validate
<1>8. ASSUME NEW k \in Keys, NEW notValid \in BOOLEAN, AddConstraint(k, notValid)
      PROVE TypeOK'
  BY <1>8 DEF AddConstraint
<1>9. ASSUME NEW k \in Keys, NEW notValid \in BOOLEAN, NEW sole \in BOOLEAN,
             AddCheck(k, notValid, sole)
      PROVE TypeOK'
  BY <1>9 DEF AddCheck
<1>10. CASE EndTransaction
  BY <1>10 DEF EndTransaction
<1>11. CASE RollbackToSavepoint
  BY <1>11 DEF RollbackToSavepoint
<1>12. CASE EndStatement
  BY <1>12 DEF EndStatement
<1>13. CASE BeginStatement
  BY <1>13 DEF BeginStatement
<1>14. CASE UNCHANGED vars
  BY <1>14 DEF vars
<1> QED
  BY <1>1, <1>2, <1>3, <1>4, <1>5, <1>6, <1>7, <1>8, <1>9, <1>10, <1>11, <1>12,
     <1>13, <1>14 DEF Next

(***************************************************************************)
(* TypeOK: what the rule remembers is always a (table, constraint) pair.   *)
(***************************************************************************)
THEOREM TypeCorrect == Spec => []TypeOK
<1>1. Init => TypeOK
  BY DEF Init, TypeOK
<1> QED
  BY <1>1, StepType, PTL DEF Spec

-----------------------------------------------------------------------------
(* The two sets and the open transaction.                                  *)

LEMMA StepTracks == TypeOK /\ TracksOpenTransaction /\ [Next]_vars => TracksOpenTransaction'
<1> SUFFICES ASSUME TypeOK, TracksOpenTransaction, [Next]_vars
             PROVE  TracksOpenTransaction'
  OBVIOUS
<1> USE DEF TypeOK, Meets, TracksOpenTransaction
<1>1. CASE EnterAutocommit
  BY <1>1 DEF EnterAutocommit
<1>2. CASE LeaveAutocommit
  BY <1>2 DEF LeaveAutocommit
<1>3. CASE SkipAutocommit
  BY <1>3 DEF SkipAutocommit
<1>4. ASSUME NEW t \in Tables, CreateTable(t) PROVE TracksOpenTransaction'
  BY <1>4 DEF CreateTable, Constraint
<1>5. CASE BeginCall
  BY <1>5 DEF BeginCall
<1>6. CASE EndCall
  BY <1>6 DEF EndCall, OneCallTransaction
<1>7. ASSUME NEW k \in Keys, Validate(k) PROVE TracksOpenTransaction'
  BY <1>7 DEF Validate
<1>8. ASSUME NEW k \in Keys, NEW notValid \in BOOLEAN, AddConstraint(k, notValid)
      PROVE TracksOpenTransaction'
  BY <1>8 DEF AddConstraint, OneCallTransaction
<1>9. ASSUME NEW k \in Keys, NEW notValid \in BOOLEAN, NEW sole \in BOOLEAN,
             AddCheck(k, notValid, sole)
      PROVE TracksOpenTransaction'
  BY <1>9 DEF AddCheck
<1>10. CASE EndTransaction
  BY <1>10 DEF EndTransaction
<1>11. CASE RollbackToSavepoint
  BY <1>11 DEF RollbackToSavepoint
<1>12. CASE EndStatement
  BY <1>12 DEF EndStatement
<1>13. CASE BeginStatement
  BY <1>13 DEF BeginStatement
<1>14. CASE UNCHANGED vars
  BY <1>14 DEF vars, Constraint
<1> QED
  BY <1>1, <1>2, <1>3, <1>4, <1>5, <1>6, <1>7, <1>8, <1>9, <1>10, <1>11, <1>12,
     <1>13, <1>14 DEF Next

-----------------------------------------------------------------------------
(* What the rule reports.                                                  *)

\* A VALIDATE read before any blind construct: the database's answer and the
\* rule's are the same.
LEMMA ValidateAgrees ==
  ASSUME TypeOK, TracksOpenTransaction, NEW k \in Keys, Validate(k), blind' = {}
  PROVE  /\ blind = {}
         /\ risky' <=> verdict' = "flagged"
<1>1. /\ blind = {}
      /\ \A j \in pending \cup sameCall : Constraint(j) = Constraint(k) => j = k
  BY DEF Validate, Meets
<1>2. Constraint(k) \in open <=> k \in pending \cup sameCall
  BY <1>1 DEF TracksOpenTransaction
<1>3. k \in pending \cup sameCall <=> k \in sameCall \/ (~autocommit /\ k \in pending)
  BY DEF TracksOpenTransaction
<1>4. verdict' = IF k \in sameCall \/ (~autocommit /\ k \in pending)
                 THEN "flagged" ELSE "passed"
  BY DEF Validate
<1>5. risky' <=> Constraint(k) \in open
  BY DEF Validate
<1> QED
  BY <1>1, <1>2, <1>3, <1>4, <1>5

LEMMA StepSound ==
  TypeOK /\ TracksOpenTransaction /\ ValidationSound /\ [Next]_vars => ValidationSound'
<1> SUFFICES ASSUME TypeOK, TracksOpenTransaction, ValidationSound, [Next]_vars,
                    verdict' = "passed", blind' = {}
             PROVE  ~risky'
  BY DEF ValidationSound
<1>1. ASSUME NEW k \in Keys, Validate(k) PROVE ~risky'
  BY <1>1, ValidateAgrees
<1>2. ASSUME NEW k \in Keys, NEW notValid \in BOOLEAN, AddConstraint(k, notValid)
      PROVE FALSE
  BY <1>2 DEF AddConstraint
<1>3. ASSUME NEW k \in Keys, NEW notValid \in BOOLEAN, NEW sole \in BOOLEAN,
             AddCheck(k, notValid, sole)
      PROVE FALSE
  BY <1>3 DEF AddCheck
<1>4. ASSUME UNCHANGED <<verdict, risky>>, blind \subseteq blind' PROVE ~risky'
  BY <1>4 DEF ValidationSound
<1>5. ASSUME \/ EnterAutocommit \/ LeaveAutocommit \/ SkipAutocommit
             \/ \E t \in Tables : CreateTable(t)
             \/ BeginCall \/ EndCall
             \/ EndTransaction \/ RollbackToSavepoint \/ EndStatement \/ BeginStatement
             \/ UNCHANGED vars
      PROVE UNCHANGED <<verdict, risky>> /\ blind \subseteq blind'
  BY <1>5 DEF EnterAutocommit, LeaveAutocommit, SkipAutocommit, CreateTable, BeginCall,
     EndCall, EndTransaction, RollbackToSavepoint, EndStatement, BeginStatement, vars,
     Meets
<1> QED
  BY <1>1, <1>2, <1>3, <1>4, <1>5 DEF Next

(***************************************************************************)
(* ValidationSound: for every set of tables and names, and every way of    *)
(* spreading statements over calls and autocommit blocks, a validation     *)
(* that shares a transaction with its NOT VALID addition is reported.      *)
(***************************************************************************)
THEOREM ValidationIsSound == Spec => [](TracksOpenTransaction /\ ValidationSound)
<1>1. Init => TracksOpenTransaction /\ ValidationSound
  BY DEF Init, TracksOpenTransaction, ValidationSound
<1>2. /\ TypeOK /\ TracksOpenTransaction /\ ValidationSound
      /\ [Next]_vars
      => (TracksOpenTransaction /\ ValidationSound)'
  BY StepTracks, StepSound
<1> QED
  BY <1>1, <1>2, TypeCorrect, PTL DEF Spec

(***************************************************************************)
(* ValidationPrecise: no VALIDATE is reported whose addition is committed. *)
(***************************************************************************)
THEOREM ValidationIsPrecise == Spec => ValidationPrecise
<1>1. TypeOK /\ TracksOpenTransaction /\ [Next]_vars =>
      [\A k \in Keys : Validate(k) /\ verdict' = "flagged" /\ blind' = {} => risky']_vars
  BY ValidateAgrees
<1> QED
  BY <1>1, TypeCorrect, ValidationIsSound, PTL DEF Spec, ValidationPrecise

(***************************************************************************)
(* TracksOpenTransaction: R017's two sets are, at every point of a         *)
(* revision, the NOT VALID constraints of the transaction that is open.    *)
(***************************************************************************)
THEOREM SetsTrackTransaction == Spec => []TracksOpenTransaction
BY ValidationIsSound, PTL
=============================================================================
