----------------------- MODULE MCConstraintValidation -----------------------
(* TLC instances of ConstraintValidation: two spellings of one table and a *)
(* second table.                                                           *)
EXTENDS ConstraintValidation

MCTables == {"T", "PUBLIC.T", "U"}
MCTableOf == [t \in MCTables |-> IF t = "U" THEN "u" ELSE "t"]
=============================================================================
