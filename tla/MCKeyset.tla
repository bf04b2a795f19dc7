------------------------------- MODULE MCKeyset -------------------------------
(***************************************************************************)
(* A small instance of Keyset for TLC.                                     *)
(***************************************************************************)
EXTENDS Keyset

By(field, direction, nulls) == [field |-> field, direction |-> direction, nulls |-> nulls]

\* Each combination of direction and nulls, mixed orders of two fields, and an
\* order that has the identity already.
MCQueries ==
    {[order |-> <<By("score", "asc", "last")>>, size |-> 1],
     [order |-> <<By("score", "desc", "first")>>, size |-> 2],
     [order |-> <<By("rank", "desc", "last"), By("score", "asc", "first")>>, size |-> 1],
     [order |-> <<By("score", "desc", "last"), By("id", "desc", "last")>>, size |-> 1]}
=============================================================================
