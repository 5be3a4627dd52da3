------------------------------- MODULE Rewind -------------------------------
(***************************************************************************)
(* RewindEngine (core/src/rewind.rs): full paths for journal records.       *)
(*                                                                         *)
(* lookup is the engine's table (entry, sequence) -> (name, parent).        *)
(* rewind() makes two passes over records: newest to oldest, which takes    *)
(* lookup back to the names at the start of the journal, then oldest to     *)
(* newest on a clone of it, forward_lookup, resolving each record's parent  *)
(* path as it goes.  One step of the model is one iteration of one loop.    *)
(***************************************************************************)
EXTENDS EntryKeys, Sequences

CONSTANT MaxDepth  \* parent links followed before giving up (256)

ASSUME RewindAssumption == MaxDepth \in Nat

VARIABLES phase,           \* where the caller and the engine are
          lookup,
          records,         \* the argument of rewind(), oldest first
          pos,             \* loop position in records
          forward_lookup,
          results

engineVars == <<phase, lookup, records, pos, forward_lookup, results>>

Phases == {"new", "seeded", "reverse", "forward", "done"}

-----------------------------------------------------------------------------
EmptyTable == [x \in {} |-> x]

\* A path: how its top was reached, the key it stopped at, the names below.
PathFrom(how, k) == [root |-> how, at |-> k, names |-> <<>>]

\* resolve_path_from: follow parents until the root, a key the table does not
\* hold, or more than MaxDepth links.
resolve_path(lk, key) ==
  LET Reach == {key} \cup DOMAIN lk \cup {lk[k].parent : k \in DOMAIN lk}
      inner[d \in 0 .. MaxDepth + 1, k \in Reach] ==
        IF d > MaxDepth THEN PathFrom("UNRESOLVED", k)
        ELSE IF is_root(k) THEN PathFrom(".", k)
        ELSE IF k \in DOMAIN lk
             THEN LET parent_path == inner[d + 1, lk[k].parent]
                  IN  [parent_path EXCEPT !.names = Append(@, lk[k].name)]
        ELSE PathFrom("UNKNOWN", k)
  IN  inner[0, key]

-----------------------------------------------------------------------------
EngineInit ==
  /\ phase = "new"
  /\ lookup = EmptyTable
  /\ records = <<>>
  /\ pos = 0
  /\ forward_lookup = EmptyTable
  /\ results = <<>>

\* from_mft: entries is the table of the parsed $MFT.
from_mft(entries) ==
  /\ phase = "new"
  /\ phase' = "seeded"
  /\ lookup' = entries
  /\ UNCHANGED <<records, pos, forward_lookup, results>>

seed_from_carved_Overwriting(key, info) ==
  /\ phase = "seeded"
  /\ lookup' = Insert(lookup, key, info)
  /\ UNCHANGED <<phase, records, pos, forward_lookup, results>>

\* seed_from_carved, one carved entry.
seed_from_carved(key, info) ==
  /\ phase = "seeded"
  /\ lookup' = OrInsert(lookup, key, info)
  /\ UNCHANGED <<phase, records, pos, forward_lookup, results>>

\* rewind may be called again: the table stays as phase 1 left it.
rewind(recs) ==
  /\ phase \in {"seeded", "done"}
  /\ phase' = "reverse"
  /\ records' = recs
  /\ pos' = Len(recs)
  /\ results' = <<>>
  /\ UNCHANGED <<lookup, forward_lookup>>

Learn_RenamesOnly(lk, r) ==
  IF "RENAME_OLD_NAME" \in r.reason THEN Insert(lk, r.key, r.info) ELSE lk
Learn_SkipDeletes(lk, r) ==
  IF "FILE_DELETE" \in r.reason THEN lk
  ELSE IF "RENAME_OLD_NAME" \in r.reason THEN Insert(lk, r.key, r.info)
  ELSE OrInsert(lk, r.key, r.info)

\* What phase 1 learns from one record.
Learn(lk, r) ==
  IF "RENAME_OLD_NAME" \in r.reason
  THEN Insert(lk, r.key, r.info)
  ELSE OrInsert(lk, r.key, r.info)

ReverseStep ==
  /\ phase = "reverse"
  /\ pos > 0
  /\ lookup' = Learn(lookup, records[pos])
  /\ pos' = pos - 1
  /\ UNCHANGED <<phase, records, forward_lookup, results>>

StartForward ==
  /\ phase = "reverse"
  /\ pos = 0
  /\ phase' = "forward"
  /\ forward_lookup' = lookup
  /\ UNCHANGED <<lookup, records, pos, results>>

Replay_CreatesOnly(lk, r) ==
  IF "FILE_CREATE" \in r.reason
  THEN Insert(lk, r.key, r.info)
  ELSE OrInsert(lk, r.key, r.info)

\* What phase 2 learns from one record.
Replay(lk, r) ==
  IF r.reason \cap {"RENAME_NEW_NAME", "FILE_CREATE"} # {}
  THEN Insert(lk, r.key, r.info)
  ELSE OrInsert(lk, r.key, r.info)

\* The source of a resolved record is RecordSource::Allocated whatever the
\* record's parent resolved from.
Resolved(lk, r) == [record |-> r,
                    parent_path |-> resolve_path(lk, r.info.parent),
                    source |-> "Allocated"]

ForwardStep_StaleTable ==
  /\ phase = "forward"
  /\ pos < Len(records)
  /\ forward_lookup' = Replay(forward_lookup, records[pos + 1])
  /\ results' = Append(results, Resolved(lookup, records[pos + 1]))
  /\ pos' = pos + 1
  /\ UNCHANGED <<phase, lookup, records>>

ForwardStep ==
  /\ phase = "forward"
  /\ pos < Len(records)
  /\ forward_lookup' = Replay(forward_lookup, records[pos + 1])
  /\ results' = Append(results, Resolved(forward_lookup', records[pos + 1]))
  /\ pos' = pos + 1
  /\ UNCHANGED <<phase, lookup, records>>

Return ==
  /\ phase = "forward"
  /\ pos = Len(records)
  /\ phase' = "done"
  /\ UNCHANGED <<lookup, records, pos, forward_lookup, results>>

EngineNext == ReverseStep \/ StartForward \/ ForwardStep \/ Return
=============================================================================
