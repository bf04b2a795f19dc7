-------------------------- MODULE MCSchemaRegistry --------------------------
(***************************************************************************)
(* Small instances of SchemaRegistry for TLC.                              *)
(***************************************************************************)
EXTENDS SchemaRegistry, TLC

CONSTANTS s1, s2, a1, a1x, a2, a3, b1

Symmetry == Permutations(Sessions)

\* Two contents of version 1 of one schema, a version 2 that breaks one of them,
\* a version 3 that breaks version 2 by permission, and another schema.
MCSchemaOf == [d \in Documents |-> IF d = b1 THEN "b" ELSE "a"]
MCVersionOf == [d \in Documents |-> CASE d = a2 -> 2 [] d = a3 -> 3 [] OTHER -> 1]
MCBreaking == {<<a1x, a2>>, <<a2, a3>>} \cap (Documents \X Documents)
=============================================================================
