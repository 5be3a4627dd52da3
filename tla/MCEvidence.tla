----------------------------- MODULE MCEvidence -----------------------------
(* Instances of the evidence model: a few entries, seconds and records.     *)
EXTENDS Evidence, TLC

EntrySymmetry == Permutations(Entries)
=============================================================================
