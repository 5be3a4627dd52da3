----------------------------- MODULE EntryKeys ------------------------------
(***************************************************************************)
(* EntryKey and EntryInfo (core/src/rewind.rs): an MFT entry is identified  *)
(* by its number and its sequence number, and described by its name and its *)
(* parent's key.  Tables are maps from keys to descriptions.                *)
(***************************************************************************)
EXTENDS Naturals

CONSTANTS Entry,      \* MFT entry numbers other than the root's
          RootEntry,  \* the root directory's entry number (5)
          Name,       \* file names
          NoName      \* the name of an MFT record that never held a file

ASSUME EntryAssumption == RootEntry \notin Entry /\ NoName \notin Name

EntryKey(e, s) == [entry |-> e, sequence |-> s]
Keys == [entry : Entry \cup {RootEntry}, sequence : Nat]

Root == EntryKey(RootEntry, 5)
is_root(k) == k.entry = RootEntry

EntryInfo(n, p) == [name |-> n, parent |-> p]
Infos == [name : Name \cup {NoName}, parent : Keys]

\* A table maps keys to descriptions.
IsTable(lk) == DOMAIN lk \subseteq Keys /\ \A k \in DOMAIN lk : lk[k] \in Infos

\* HashMap::insert and Entry::or_insert.
Insert(lk, k, v) == [x \in DOMAIN lk \cup {k} |-> IF x = k THEN v ELSE lk[x]]
OrInsert(lk, k, v) == IF k \in DOMAIN lk THEN lk ELSE Insert(lk, k, v)
=============================================================================
