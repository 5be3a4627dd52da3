------------------------------ MODULE PathChains ------------------------------
(***************************************************************************)
(* Paths put together from parent links: MftData's full paths              *)
(* (core/src/mft.rs) and the ReFS analyser (core/src/refs.rs).  Both walk  *)
(* links that a damaged volume may have bent into a cycle: the first stops *)
(* after MAX_STEPS names (256 in the code), the second at an id it has     *)
(* seen.                                                                   *)
(***************************************************************************)
EXTENDS Integers, SequencesExt

CONSTANTS Root, None

MAX_STEPS == 5

-----------------------------------------------------------------------------
(* MftData: entries is a function from record numbers to [name, parent]. *)
RECURSIVE MftWalk(_, _, _, _)

MftWalk(entries, cur, left, parts) ==
  IF left = 0
    THEN parts
  ELSE IF \/ entries[cur].parent = Root
          \/ entries[cur].parent = cur
          \/ entries[cur].parent \notin DOMAIN entries
    THEN <<entries[cur].name>> \o parts
    ELSE MftWalk(entries, entries[cur].parent, left - 1, <<entries[cur].name>> \o parts)

resolve_full_path(entries, e) == MftWalk(entries, e, MAX_STEPS, <<>>)

-----------------------------------------------------------------------------
(* ReFS: records is a sequence of [file_id, parent_id, name, v3]; an id is *)
(* [high, low].                                                            *)
RefsFileId(high, low) == [high |-> high, low |-> low]
RefsRecord(file_id, parent_id, name, v3) ==
  [file_id |-> file_id, parent_id |-> parent_id, name |-> name, v3 |-> v3]

is_likely_refs(records) ==
  /\ records # <<>>
  /\ \A i \in DOMAIN records : records[i].v3
  /\ \E i \in DOMAIN records : records[i].file_id.high # 0 \/ records[i].parent_id.high # 0

FileIds(records) == { records[i].file_id : i \in DOMAIN records }

group_by_file_id(records) ==
  [f \in FileIds(records) |-> SelectSeq(records, LAMBDA r : r.file_id = f)]


\* The newest record of each file.
Lookup(records) == [f \in FileIds(records) |-> Last(group_by_file_id(records)[f])]

RECURSIVE RefsWalk(_, _, _, _)

RefsWalk(lookup, cur, visited, parts) ==
  IF cur \in visited
    THEN parts
  ELSE IF lookup[cur].parent_id \notin DOMAIN lookup
    THEN <<lookup[cur].name>> \o parts
    ELSE RefsWalk(lookup, lookup[cur].parent_id, visited \cup {cur}, <<lookup[cur].name>> \o parts)

\* A parent without a record of its own anchors the path.
reconstruct_paths(records) ==
  LET lookup == Lookup(records)
  IN  [f \in DOMAIN lookup |-> RefsWalk(lookup, f, {}, <<>>)]

-----------------------------------------------------------------------------
(* The reference: the ancestors of a node under a parent function. *)
RECURSIVE AncestorsIn(_, _, _)
AncestorsIn(parent, e, n) ==
  IF n = 0 \/ e \notin DOMAIN parent THEN {}
  ELSE {parent[e]} \cup AncestorsIn(parent, parent[e], n - 1)
Ancestors(parent, e) == AncestorsIn(parent, e, Cardinality(DOMAIN parent) + 1)

=============================================================================
