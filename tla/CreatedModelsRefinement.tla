----------------------- MODULE CreatedModelsRefinement -----------------------
(***************************************************************************)
(* CreatedModels implements FreshTables up to the first construct of       *)
(* Blindness a migration uses: the identities and lower-cased names the    *)
(* walk keeps stand for exactly the fresh tables.                          *)
(***************************************************************************)
EXTENDS CreatedModels

FreshImage == {Resolve(t) : t \in sqlTables} \cup {ModelTable(n) : n \in names}

Fresh == INSTANCE FreshTables WITH fresh <- FreshImage

(***************************************************************************)
(* The walk neither exempts a table that is not fresh nor forgets one that *)
(* is: an exemption follows RenameModel and rename_table, is still there   *)
(* when the rules see the DeleteModel, and ends with a drop or with the    *)
(* raw SQL of Alembic and Aerich.  Statements the walk cannot read, and    *)
(* Django's raw SQL and state operations, are steps of FreshTables unless  *)
(* they touch a fresh table; one that does is a construct of Blindness.    *)
(***************************************************************************)
ImplementsFreshTables ==
    Fresh!Init /\ [][blind' = {} => [Fresh!Next]_Fresh!vars]_vars
=============================================================================
