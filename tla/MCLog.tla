------------------------------- MODULE MCLog --------------------------------
(* Instances of the log and its reconstruction.  Slots are told apart only by *)
(* equality, so they may be exchanged.                                        *)
EXTENDS LogTransactions, TLC

CONSTANTS s1, s2

TwoSlots == {s1, s2}
Interchangeable == Permutations(TwoSlots)
=============================================================================
