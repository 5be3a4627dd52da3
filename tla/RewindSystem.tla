---------------------------- MODULE RewindSystem ----------------------------
(***************************************************************************)
(* The volume and the engine together.  The volume runs, is imaged, and the *)
(* engine is seeded from the $MFT (and carved copies of MFT records) and    *)
(* rewinds what is left of the journal: its oldest records are gone.        *)
(***************************************************************************)
EXTENDS Volume, Rewind

CONSTANTS Version,    \* major version of the journal's records: 2 or 3
          MaxCarved   \* bound: carved MFT records the engine is seeded with

ASSUME SystemAssumption == Version \in {2, 3} /\ MaxCarved \in Nat

VARIABLES cut,        \* journal records lost at the front of the window
          carved      \* carved entries seeded so far

vars == <<volVars, engineVars, cut, carved>>

-----------------------------------------------------------------------------
\* The (entry, sequence) a parsed record carries for a file reference: a V2
\* reference is split at bit 48, a V3 reference keeps the entry and drops the
\* sequence.
file_reference(k) == IF Version = 2 THEN k ELSE EntryKey(k.entry, 0)

parse_usn_record(r) ==
  [key |-> file_reference(r.key),
   info |-> EntryInfo(r.info.name, file_reference(r.info.parent)),
   reason |-> r.reason]

\* MftData::parse keeps every record with a $FILE_NAME, in use or not, under
\* the sequence of its header; seed_rewind passes all of them on.
seed_rewind(m) ==
  LET parsed == {e \in Entry : m[e].info.name # NoName}
  IN  [k \in {KeyOf(m, e) : e \in parsed} |-> m[k.entry].info]

\* A carved MFT record is an old copy of one: a key and what it held at some
\* time.
CarvedEntries == UNION {{<<k, hist[i].live[k]>> : k \in DOMAIN hist[i].live}
                        : i \in DOMAIN hist}

-----------------------------------------------------------------------------
Init ==
  /\ VolInit
  /\ EngineInit
  /\ cut = 0
  /\ carved = 0

VolumeRuns ==
  /\ phase = "new"
  /\ VolNext
  /\ UNCHANGED <<engineVars, cut, carved>>

Seed ==
  /\ from_mft(seed_rewind(mft))
  /\ UNCHANGED <<volVars, cut, carved>>

SeedCarved ==
  /\ carved < MaxCarved
  /\ carved' = carved + 1
  /\ \E c \in CarvedEntries : seed_from_carved(c[1], c[2])
  /\ UNCHANGED <<volVars, cut>>

\* The records after the first n, up to the one numbered top.
Window(n, top) == [i \in 1 .. top - n |-> parse_usn_record(journal[n + i])]

Rewinds ==
  /\ phase = "seeded"
  /\ \E n \in 0 .. Len(journal) :
       /\ cut' = n
       /\ rewind(Window(n, Len(journal)))
  /\ UNCHANGED <<volVars, carved>>

\* A journal too large for memory is rewound in batches.  The table is where
\* the batch just done began, so the next batch is the one before it.
RewindsBatch ==
  /\ phase = "done"
  /\ \E n \in 0 .. cut - 1 :
       /\ cut' = n
       /\ rewind(Window(n, cut))
  /\ UNCHANGED <<volVars, carved>>

EngineRuns ==
  /\ EngineNext
  /\ UNCHANGED <<volVars, cut, carved>>

\* The analysis ends when the engine has returned.
Finished == phase = "done" /\ UNCHANGED vars

Next == \/ VolumeRuns \/ Seed \/ SeedCarved
        \/ Rewinds \/ RewindsBatch \/ EngineRuns \/ Finished

Spec == Init /\ [][Next]_vars

-----------------------------------------------------------------------------
(* The ground truth at record i of the window.                              *)
Truth(i) == hist[cut + i + 1]
TrueEvent(i) == journal[cut + i]

\* Files whose RENAME_OLD_NAME was lost with the front of the journal and
\* whose RENAME_NEW_NAME is not among the first i records of the window: no
\* record tells the name they had.
Blind(i) == {k \in Truth(0).renaming : \A j \in 1 .. i : TrueEvent(j).key # k}

TypeOK ==
  /\ VolTypeOK
  /\ phase \in Phases
  /\ IsTable(lookup) /\ IsTable(forward_lookup)
  /\ records \in Seq(UsnRecords)
  /\ pos \in 0 .. Len(records)
  /\ cut \in 0 .. Len(journal)
  /\ carved \in 0 .. MaxCarved

\* Phase 1 takes the table back to the start of the window: every file that
\* was live then has the name and the parent it had then, unless it was being
\* renamed and the old name went with the lost records.
RewoundToStart ==
  phase = "forward" =>
    \A k \in DOMAIN Truth(0).live \ Truth(0).renaming :
      k \in DOMAIN lookup /\ lookup[k] = Truth(0).live[k]

\* While phase 2 replays the window its table agrees, after every record, with
\* the files live at that time.
ForwardAgrees ==
  phase \in {"forward", "done"} =>
    \A k \in DOMAIN Truth(pos).live \ Blind(pos) :
      k \in DOMAIN forward_lookup /\ forward_lookup[k] = Truth(pos).live[k]

\* "resolves to the correct path at each point in time" (README.md): the parent
\* path of every resolved record is the path that directory had when the record
\* was written.
PathsCorrect ==
  \A i \in DOMAIN results :
    LET parent == TrueEvent(i).info.parent
        true   == resolve_path(Truth(i).live, parent)
        got    == results[i].parent_path
    IN  Ancestors(Truth(i).live, parent) \cap Blind(i) = {} =>
          got.root = true.root /\ got.names = true.names

\* "This guarantees complete path resolution for every journal entry"
\* (core/src/rewind.rs): no record's path ends in UNKNOWN or UNRESOLVED.  Asked
\* of windows that do not begin inside a rename: in one that does, a table with
\* the new parent of one directory and the old parents of the others may hold a
\* cycle.
CompleteResolution ==
  Truth(0).renaming = {} =>
    \A i \in DOMAIN results : results[i].parent_path.root = "."

\* Files for which a better witness than a carved copy is at hand: the $MFT
\* still holds them, the window holds their creation, or a rename of theirs.
Anchored(k) ==
  \/ k \in LiveKeys(mft)
  \/ k \notin DOMAIN Truth(0).live
  \/ \E j \in cut + 1 .. Len(journal) :
       journal[j].key = k /\ "RENAME_OLD_NAME" \in journal[j].reason

\* "carved entries never overwrite allocated MFT data" (seed_from_carved), and
\* more: whatever carved copies the table is seeded with, the replayed table
\* is right about every file that has a better witness.
CarvedNeverOutrank ==
  phase \in {"forward", "done"} =>
    \A k \in DOMAIN Truth(pos).live \ Blind(pos) :
      Anchored(k) => k \in DOMAIN forward_lookup
                     /\ forward_lookup[k] = Truth(pos).live[k]
=============================================================================
