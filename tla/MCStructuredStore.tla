-------------------------- MODULE MCStructuredStore --------------------------
(***************************************************************************)
(* A small instance of StructuredStore for TLC.                            *)
(***************************************************************************)
EXTENDS StructuredStore, TLC

CONSTANTS s1, s2

Symmetry == Permutations(Sessions)

Request(op, keys, expected, value) ==
    [op |-> op, keys |-> keys, expected |-> expected, value |-> value]

\* Every mode of put on one record, a guarded one, patches and deletions of one
\* record and of all, claims, and lines of an import.
MCRequests ==
    {Request("if_absent", {1}, NoGuard, "free"),
     Request("upsert", {2}, NoGuard, "free"),
     Request("update", {1}, NoGuard, "taken"),
     Request("upsert", {1}, 1, "free"),
     Request("patch", Keys, NoGuard, "taken"),
     Request("patch", {2}, 1, "free"),
     Request("delete", {1}, NoGuard, "free"),
     Request("claim", Keys, NoGuard, "taken"),
     Request("import", {1}, NoGuard, "free"),
     Request("import", {2}, NoGuard, "taken")}
=============================================================================
