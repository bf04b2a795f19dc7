----------------------------- MODULE MCSession -----------------------------
(***************************************************************************)
(* Small instances of Session for TLC.                                     *)
(***************************************************************************)
EXTENDS Session, TLC

CONSTANTS t1, t2

Symmetry == Permutations(Threads)

\* One transaction on a transactional session, two on one that is not; and two
\* transactions one after the other.
BeginsOfEither == [mode \in BOOLEAN |-> IF mode THEN 1 ELSE 2]
BeginsTwice == [mode \in {TRUE} |-> 2]
=============================================================================
