------------------------------ MODULE MCOutbox ------------------------------
(***************************************************************************)
(* Small instances of Outbox for TLC.                                      *)
(***************************************************************************)
EXTENDS Outbox, TLC

CONSTANTS w1, w2, i1, i2, opaque

\* Each worker has an owner string of its own, as the README asks of hosts.
OwnOwner == [w \in Workers |-> w]

Symmetry == Permutations(Workers)

\* Two versions of one identity.  The later version occurred first, so the
\* claim's ORDER BY and the version order disagree.
TwoVersions ==
    1 :> [identity |-> i1, version |-> 2, at |-> 1] @@
    2 :> [identity |-> i1, version |-> 10, at |-> 0]

\* The same and an opaque version, which follows them whenever it occurred.
ThreeVersions == TwoVersions @@ 3 :> [identity |-> i1, version |-> opaque, at |-> 0]

\* The same and another identity.
ThreeIntents == TwoVersions @@ 4 :> [identity |-> i2, version |-> opaque, at |-> 0]

\* Byte limits: no batch is too large; one of the batches of two is.
AllFit == SUBSET Events
SomeFit == SUBSET Events \ {{2, 4}}
=============================================================================
