----------------------------- MODULE FreshTables -----------------------------
(***************************************************************************)
(* What the CreateModel exemption promises, said of database tables and of *)
(* nothing else: a table is fresh from the statement that creates it until *)
(* it is dropped or raw SQL ends all freshness, a rename carries freshness *)
(* along, and a statement is exempt exactly when its table is fresh.  How  *)
(* a migration spells a table, and in which framework, is left to          *)
(* CreatedModels.                                                          *)
(***************************************************************************)

CONSTANT Tables

VARIABLES
    database,   \* table -> "absent", "existing" (it may hold rows) or "new"
    fresh,      \* the tables whose statements are exempt
    exempt,     \* was the last statement exempt?
    target      \* what that statement's table was when it was reached

vars == <<database, fresh, exempt, target>>

Status == {"absent", "existing", "new"}

Judge(isExempt, status) == exempt' = isExempt /\ target' = status

Init ==
    /\ database \in [Tables -> {"absent", "existing"}]
    /\ fresh = {}
    /\ exempt = FALSE
    /\ target = "none"

\* A table the migration certainly creates is fresh.
Create(t) ==
    /\ database[t] = "absent"
    /\ database' = [database EXCEPT ![t] = "new"]
    /\ fresh' = fresh \cup {t}
    /\ Judge(TRUE, "new")

\* One it may create, or may find in place, is not.
CreateUncertain(t) ==
    /\ \/ database' = database
       \/ /\ database[t] = "absent"
          /\ database' = [database EXCEPT ![t] = "new"]
    /\ UNCHANGED fresh
    /\ Judge(FALSE, database'[t])

Rename(old, new) ==
    /\ database[old] # "absent"
    /\ database[new] = "absent"
    /\ database' = [database EXCEPT ![new] = database[old], ![old] = "absent"]
    /\ fresh' = IF old \in fresh THEN (fresh \ {old}) \cup {new} ELSE fresh
    /\ Judge(old \in fresh, database[old])

\* A drop that stands under a condition may leave the table where it is.
Drop(t) ==
    /\ database[t] # "absent"
    /\ database' \in {database, [database EXCEPT ![t] = "absent"]}
    /\ fresh' = fresh \ {t}
    /\ Judge(t \in fresh, database[t])

Alter(t) ==
    /\ database[t] # "absent"
    /\ Judge(t \in fresh, database[t])
    /\ UNCHANGED <<database, fresh>>

\* A statement whose table or effect is not known may do anything to the tables
\* that are not fresh.  It is exempt from nothing, or not judged at all.
Elsewhere ==
    /\ database' \in [Tables -> Status]
    /\ \A t \in fresh : database'[t] = database[t]
    /\ Judge(FALSE, "none") \/ UNCHANGED <<exempt, target>>
    /\ UNCHANGED fresh

\* After raw SQL nothing is known to be fresh.  The SQL itself is exempt only
\* as one ALTER TABLE of a fresh table.
RawAlter(t) ==
    /\ database[t] # "absent"
    /\ Judge(t \in fresh, database[t])
    /\ fresh' = {}
    /\ UNCHANGED database

RawSql ==
    /\ database' \in [Tables -> Status]
    /\ fresh' = {}
    /\ Judge(FALSE, "none")

Next ==
    \/ \E t \in Tables : Create(t) \/ CreateUncertain(t) \/ Drop(t) \/ Alter(t)
                     \/ RawAlter(t)
    \/ \E old, new \in Tables : Rename(old, new)
    \/ Elsewhere
    \/ RawSql

Spec == Init /\ [][Next]_vars
=============================================================================
