-------------------------- MODULE MCEvidenceReplay --------------------------
(***************************************************************************)
(* Small instances of EvidenceReplay for TLC.                              *)
(***************************************************************************)
EXTENDS EvidenceReplay, TLC

CONSTANTS s1, s2, k1, k2, a, b, c, r1, r2, changed, keyless

Symmetry == Permutations(Sessions)

\* Two requests with keys of their own for a common record, a changed request
\* under the key of the first, and one without a key that meets both.
MCKeyOf == r1 :> k1 @@ r2 :> k2 @@ changed :> k1 @@ keyless :> NoKey
MCBatchOf == r1 :> <<a, b>> @@ r2 :> <<b>> @@ changed :> <<c>> @@ keyless :> <<c, a>>
=============================================================================
