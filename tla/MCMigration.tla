----------------------------- MODULE MCMigration -----------------------------
(***************************************************************************)
(* Small instances of Migration for TLC.                                   *)
(***************************************************************************)
EXTENDS Migration, TLC

CONSTANTS e1, e2, v1, initial, same, additive, retyped

Symmetry == Permutations(Executors)

Statement(object, definition) == [object |-> object, definition |-> definition]

MCResourceOf == "age" :> 1 @@ "byAge" :> 1 @@ "note" :> 1 @@ "other" :> 2
MCIndexes == {"byAge"} \cap Objects

\* A table with an index; the same under another Resource fingerprint; a nullable
\* column and a Resource more; the column with another type.
MCStatementsOf ==
    initial :> <<Statement("age", "integer"), Statement("byAge", "btree")>> @@
    same :> <<Statement("age", "integer"), Statement("byAge", "btree")>> @@
    additive :> <<Statement("age", "integer"), Statement("note", "text"),
                  Statement("byAge", "btree"), Statement("other", "text")>> @@
    retyped :> <<Statement("age", "bigint"), Statement("byAge", "btree")>>

MCPhysical == initial :> "A" @@ same :> "A" @@ additive :> "B" @@ retyped :> "C"

MCResourcesOf ==
    initial :> (1 :> "a") @@ same :> (1 :> "b") @@
    additive :> (1 :> "a" @@ 2 :> "o") @@ retyped :> (1 :> "a")

Some(f) == [p \in Plans |-> f[p]]
PhysicalOfPlans == Some(MCPhysical)
StatementsOfPlans == Some(MCStatementsOf)
ResourcesOfPlans == Some(MCResourcesOf)
=============================================================================
