------------------------ MODULE ConstraintValidation ------------------------
(***************************************************************************)
(* R017 on an Alembic revision.  A CHECK constraint must be added NOT      *)
(* VALID, committed, and only then validated; the rule reads the revision  *)
(* in order and keeps the constraints that the open transaction has added  *)
(* (pending_validation), and those the current op.execute call has added   *)
(* (same_call_pending).                                                    *)
(*                                                                         *)
(* `open` is the database's side of the same text: the NOT VALID           *)
(* constraints on tables not created here whose transaction has not ended. *)
(* Alembic runs a revision in one transaction; entering an                 *)
(* autocommit_block commits it, and inside the block every call is a       *)
(* transaction of its own.  `blind` collects the constructs met so far     *)
(* that the rule takes for the end of a transaction, or misses as one.     *)
(***************************************************************************)

CONSTANTS
    Tables,       \* tables as the revision spells them, upper-cased
    TableOf,      \* spelling -> the table meant
    Names,        \* constraint names
    Features      \* the constructs of Blindness a revision may use

Blindness == {"savepoint", "conditional_autocommit", "begin_in_autocommit",
              "schema_alias", "end"}

ASSUME FeaturesAssumption == Features \subseteq Blindness

VARIABLES
    autocommit,   \* op.in_autocommit_block of the operation being read
    inCall,       \* between the statements of one op.execute call
    first,        \* statement_index = 0
    pending,      \* pending_validation
    sameCall,     \* same_call_pending
    created,      \* CreatedModels.sql_tables
    verdict,      \* of the last action read
    open,         \* the database: NOT VALID in the open transaction
    begun,        \* the database: BEGIN was issued inside an autocommit block
    risky,        \* the database: the last VALIDATE found its constraint in open
    blind

reader == <<autocommit, inCall, first, pending, sameCall, created, verdict>>
vars == <<autocommit, inCall, first, pending, sameCall, created, verdict,
          open, begun, risky, blind>>

\* A constraint as the rule keys it, and as the database knows it.
Keys == [table : Tables, name : Names]
Constraint(k) == [table |-> TableOf[k.table], name |-> k.name]
Constraints == {Constraint(k) : k \in Keys}

TypeOK ==
    /\ autocommit \in BOOLEAN /\ inCall \in BOOLEAN /\ first \in BOOLEAN
    /\ pending \subseteq Keys /\ sameCall \subseteq Keys
    /\ created \subseteq Tables
    /\ verdict \in {"none", "flagged", "passed"}
    /\ open \subseteq Constraints
    /\ begun \in BOOLEAN /\ risky \in BOOLEAN
    /\ blind \subseteq Blindness

Init ==
    /\ autocommit = FALSE /\ inCall = FALSE /\ first = FALSE
    /\ pending = {} /\ sameCall = {} /\ created = {}
    /\ verdict = "none"
    /\ open = {} /\ begun = FALSE /\ risky = FALSE
    /\ blind = {}

Meets(construct, condition) ==
    /\ condition => construct \in Features
    /\ blind' = IF condition THEN blind \cup {construct} ELSE blind

-----------------------------------------------------------------------------
(* Operations other than op.execute.                                       *)

\* Mutant: no AutocommitBoundary operation is emitted.
EnterAutocommitSilently ==
    /\ ~inCall /\ ~autocommit
    /\ autocommit' = TRUE
    /\ open' = {}
    /\ UNCHANGED <<inCall, first, pending, sameCall, created, verdict, begun, risky, blind>>

\* with op.get_context().autocommit_block(): the AutocommitBoundary operation.
EnterAutocommit ==
    /\ ~inCall /\ ~autocommit
    /\ autocommit' = TRUE
    /\ pending' = {}
    /\ open' = {}
    /\ UNCHANGED <<inCall, first, sameCall, created, verdict, begun, risky, blind>>

LeaveAutocommit ==
    /\ ~inCall /\ autocommit
    /\ autocommit' = FALSE
    /\ begun' = FALSE
    /\ UNCHANGED <<inCall, first, pending, sameCall, created, verdict, open, risky, blind>>

\* The block stands under a condition that turns out false: its boundary is
\* read all the same.
SkipAutocommit ==
    /\ ~inCall /\ ~autocommit
    /\ Meets("conditional_autocommit", TRUE)
    /\ pending' = {}
    /\ UNCHANGED <<autocommit, inCall, first, sameCall, created, verdict, open, begun, risky>>

CreateTable(t) ==
    /\ ~inCall
    /\ created' = created \cup {t}
    /\ UNCHANGED <<autocommit, inCall, first, pending, sameCall, verdict,
                   open, begun, risky, blind>>

\* A transaction of its own, unless BEGIN opened a longer one.
OneCallTransaction == autocommit /\ ~begun

\* Mutant: the constraint is remembered with its name left empty.
AddConstraintUnnamed(k, notValid) ==
    /\ ~inCall
    /\ pending' = IF notValid THEN pending \cup {[k EXCEPT !.name = ""]} ELSE pending
    /\ UNCHANGED <<autocommit, inCall, first, sameCall, created, verdict,
                   open, begun, risky, blind>>

\* create_check_constraint / create_foreign_key; NOT VALID is
\* postgresql_not_valid.
AddConstraint(k, notValid) ==
    LET exempt == k.table \in created
    IN  /\ ~inCall
        /\ verdict' = IF exempt \/ notValid THEN "none" ELSE "flagged"
        /\ IF notValid /\ ~exempt
           THEN /\ pending' = IF autocommit THEN pending ELSE pending \cup {k}
                /\ open' = IF OneCallTransaction THEN open ELSE open \cup {Constraint(k)}
           ELSE UNCHANGED <<pending, open>>
        /\ UNCHANGED <<autocommit, inCall, first, sameCall, created,
                       begun, risky, blind>>

-----------------------------------------------------------------------------
(* The statements of one op.execute call.                                  *)

BeginCall ==
    /\ ~inCall
    /\ inCall' = TRUE /\ first' = TRUE
    /\ sameCall' = {}
    /\ UNCHANGED <<autocommit, pending, created, verdict, open, begun, risky, blind>>

\* The walk then drops every created table.
EndCall ==
    /\ inCall
    /\ inCall' = FALSE /\ first' = FALSE
    /\ sameCall' = {}
    /\ created' = {}
    /\ Meets("begin_in_autocommit", begun)
    /\ open' = IF OneCallTransaction THEN {} ELSE open
    /\ UNCHANGED <<autocommit, pending, verdict, begun, risky>>

\* Mutant: what the call itself added is not remembered.
AddCheckIgnoringCall(k, notValid, sole) ==
    /\ inCall
    /\ first' = FALSE
    /\ verdict' = IF notValid THEN "none" ELSE "flagged"
    /\ IF notValid /\ ~(first /\ sole /\ k.table \in created)
       THEN /\ pending' = IF autocommit THEN pending ELSE pending \cup {k}
            /\ open' = open \cup {Constraint(k)}
       ELSE UNCHANGED <<pending, open>>
    /\ UNCHANGED <<autocommit, inCall, sameCall, created, begun, risky, blind>>

\* ALTER TABLE ... ADD CONSTRAINT ... CHECK [NOT VALID].  Only as the sole
\* action of the call's first statement may it rely on the table being new.
AddCheck(k, notValid, sole) ==
    LET exempt == first /\ sole /\ k.table \in created
    IN  /\ inCall
        /\ first' = FALSE
        /\ verdict' = IF exempt \/ notValid THEN "none" ELSE "flagged"
        /\ IF notValid /\ ~exempt
           THEN /\ sameCall' = sameCall \cup {k}
                /\ pending' = IF autocommit THEN pending ELSE pending \cup {k}
                /\ open' = open \cup {Constraint(k)}
           ELSE UNCHANGED <<sameCall, pending, open>>
        /\ UNCHANGED <<autocommit, inCall, created, begun, risky, blind>>

\* ALTER TABLE ... VALIDATE CONSTRAINT.
Validate(k) ==
    /\ inCall
    /\ Meets("schema_alias",
             \E j \in pending \cup sameCall : j # k /\ Constraint(j) = Constraint(k))
    /\ first' = FALSE
    /\ verdict' = IF k \in sameCall \/ (~autocommit /\ k \in pending)
                  THEN "flagged" ELSE "passed"
    /\ risky' = (Constraint(k) \in open)
    /\ UNCHANGED <<autocommit, inCall, pending, sameCall, created, open, begun>>

\* Mutant: the call keeps what it added before its COMMIT.
EndTransactionKeepsCall ==
    /\ inCall
    /\ first' = FALSE
    /\ pending' = {}
    /\ open' = {} /\ begun' = FALSE
    /\ UNCHANGED <<autocommit, inCall, sameCall, created, verdict, risky, blind>>

\* COMMIT or ROLLBACK as a statement's first word.
EndTransaction ==
    /\ inCall
    /\ first' = FALSE
    /\ pending' = {} /\ sameCall' = {}
    /\ open' = {} /\ begun' = FALSE
    /\ UNCHANGED <<autocommit, inCall, created, verdict, risky, blind>>

\* ROLLBACK TO SAVEPOINT has the same first word and ends nothing: some of
\* the constraints may be gone.
RollbackToSavepoint ==
    /\ inCall
    /\ first' = FALSE
    /\ Meets("savepoint", TRUE)
    /\ pending' = {} /\ sameCall' = {}
    /\ open' \in SUBSET open
    /\ UNCHANGED <<autocommit, inCall, created, verdict, begun, risky>>

\* END is COMMIT under another name, and not recognised.
EndStatement ==
    /\ inCall
    /\ first' = FALSE
    /\ Meets("end", TRUE)
    /\ open' = {} /\ begun' = FALSE
    /\ UNCHANGED <<autocommit, inCall, pending, sameCall, created, verdict, risky>>

\* BEGIN does nothing in a transaction; in an autocommit block it opens one.
BeginStatement ==
    /\ inCall
    /\ first' = FALSE
    /\ begun' = autocommit
    /\ UNCHANGED <<autocommit, inCall, pending, sameCall, created, verdict,
                   open, risky, blind>>

-----------------------------------------------------------------------------
Next ==
    \/ EnterAutocommit \/ LeaveAutocommit \/ SkipAutocommit
    \/ \E t \in Tables : CreateTable(t)
    \/ BeginCall \/ EndCall
    \/ \E k \in Keys : Validate(k)
    \/ \E k \in Keys, notValid \in BOOLEAN : AddConstraint(k, notValid)
    \/ \E k \in Keys, notValid, sole \in BOOLEAN : AddCheck(k, notValid, sole)
    \/ EndTransaction \/ RollbackToSavepoint \/ EndStatement \/ BeginStatement

Spec == Init /\ [][Next]_vars

-----------------------------------------------------------------------------
(* Properties.                                                             *)

(***************************************************************************)
(* The rule's two sets together name exactly the constraints of the open   *)
(* transaction: across calls outside an autocommit block, within one call  *)
(* inside it.                                                              *)
(***************************************************************************)
TracksOpenTransaction ==
    /\ autocommit => pending = {}
    /\ ~inCall => sameCall = {}
    /\ ~autocommit => sameCall \subseteq pending /\ ~begun
    /\ blind = {} => /\ open = {Constraint(k) : k \in pending \cup sameCall}
                     /\ ~inCall => ~begun

(***************************************************************************)
(* README, Alembic: "validation before its NOT VALID addition commits" is  *)
(* reported.  A VALIDATE that shares a transaction with its addition never *)
(* passes.                                                                 *)
(***************************************************************************)
ValidationSound == verdict = "passed" /\ blind = {} => ~risky

(***************************************************************************)
(* And nothing else is reported as a validation: a VALIDATE is flagged     *)
(* only when its addition is in the transaction that runs it.              *)
(***************************************************************************)
ValidationPrecise ==
    [][\A k \in Keys : Validate(k) /\ verdict' = "flagged" /\ blind' = {} => risky']_vars
=============================================================================
