--------------------------- MODULE MCCreatedModels ---------------------------
(* TLC instances of CreatedModels.                                         *)
EXTENDS CreatedModelsRefinement

MCLower == [n \in Names |-> IF n = "Orders" THEN "orders" ELSE n]
MCNone == [schema |-> "none", name |-> "none"]
=============================================================================
