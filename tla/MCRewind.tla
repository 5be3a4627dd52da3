------------------------------ MODULE MCRewind ------------------------------
(***************************************************************************)
(* Instances of RewindSystem for TLC.                                       *)
(***************************************************************************)
EXTENDS RewindInv, TLC

CONSTANTS a, b, n1, n2

\* Entries, like names, are only compared.
Symm == Permutations({a, b}) \cup Permutations({n1, n2})
=============================================================================
