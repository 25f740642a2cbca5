----------------------------- MODULE MCDiffRun -----------------------------
(***************************************************************************)
(* Eight commits: a root 0, a main line 1-2-5-7 and a branch 3-4-6 off 1.  *)
(* Paths 1 and 2 are migrations and 3 the models.  Commit 1 removes the    *)
(* column from the models, 3 drops it in one migration, 4 in a second, and *)
(* 6 replaces both; 2 splits state and database, 5 maps the column again,  *)
(* deletes a migration and ignores R008 in the other.                      *)
(***************************************************************************)
EXTENDS DiffRun

MCCommits == 0..7

Line == [c \in MCCommits |->
    CASE c = 0 -> {0}
      [] c \in {1, 2, 5, 7} -> {0, 1, 2, 5, 7} \cap 0..c
      [] OTHER -> {0, 1, 3, 4, 6} \cap 0..c]
MCMergeBase ==
    [p \in MCCommits \X MCCommits |->
        CHOOSE c \in Line[p[1]] \cap Line[p[2]] :
            \A d \in Line[p[1]] \cap Line[p[2]] : d <= c]

MCTree ==
    [c \in MCCommits |->
        CASE c = 0 -> <<"clean", "clean", "mapped">>
          [] c = 1 -> <<"clean", "clean", "unmapped">>
          [] c = 2 -> <<"state", "database", "unmapped">>
          [] c = 3 -> <<"drop", "clean", "unmapped">>
          [] c = 4 -> <<"drop", "drop", "unmapped">>
          [] c = 5 -> <<"absent", "waiver", "mapped">>
          [] c = 6 -> <<"clean", "broken", "unmapped">>
          [] c = 7 -> <<"unsafe", "waiver", "mapped">>]
MCModels ==
    [c \in MCCommits |-> IF c \in {0, 5, 7} THEN "mapped"
                         ELSE IF c = 6 THEN "error" ELSE "absent"]
MCSelections == {{"R005", "R008", "R009"}, {"R005"}, {}}

=============================================================================
