------------------------------- MODULE Volume -------------------------------
(***************************************************************************)
(* The NTFS volume that wrote the evidence: its $MFT and its $UsnJrnl:$J.   *)
(* It is not code of this repository (Windows' driver is); it is modelled   *)
(* from how the reader uses what it left behind: EntryKey = (entry,         *)
(* sequence), the sequence of a record moves on when the record is freed,   *)
(* a journal record carries the file's own name, its parent's key and the   *)
(* reasons accumulated since the file was last closed, and a rename leaves  *)
(* two records, RENAME_OLD_NAME and RENAME_NEW_NAME.                        *)
(*                                                                         *)
(* hist is the ground truth the reconstruction is judged by: hist[i + 1] is *)
(* the set of live files, and the renames in flight, after i events.        *)
(***************************************************************************)
EXTENDS EntryKeys, Sequences, FiniteSets

CONSTANTS MaxSeq,     \* bound: sequence numbers handed out per entry
          MaxEvents   \* bound: journal records written

ASSUME VolumeAssumption == MaxSeq \in Nat /\ MaxEvents \in Nat

VARIABLES mft,       \* [Entry -> MFT record]
          acc,       \* reasons accumulated since the file's last close
          renaming,  \* keys between their RENAME_OLD_NAME and RENAME_NEW_NAME
          journal,   \* the $J records ever written, oldest first
          hist       \* ground truth after each journal record

volVars == <<mft, acc, renaming, journal, hist>>

Reasons == {"FILE_CREATE", "FILE_DELETE", "DATA_EXTEND", "CLOSE",
            "RENAME_OLD_NAME", "RENAME_NEW_NAME"}

\* An MFT record: in use or free, and the last $FILE_NAME it held.
Files == [seq : Nat, inUse : BOOLEAN, info : Infos]

UsnRecords == [key : Keys, info : Infos, reason : SUBSET Reasons]

-----------------------------------------------------------------------------
KeyOf(m, e) == EntryKey(e, m[e].seq)
LiveKeys(m) == {KeyOf(m, e) : e \in {x \in Entry : m[x].inUse}}

\* The live files as a table from key to name and parent.
Live(m) == [k \in LiveKeys(m) |-> m[k.entry].info]

\* k and the directories above it: as many steps up as there are entries.
Ancestors(lk, k) ==
  LET up[d \in Nat] ==
        IF d = 0 THEN {k}
        ELSE up[d - 1] \cup {lk[j].parent : j \in up[d - 1] \cap DOMAIN lk}
  IN  up[Cardinality(Entry)]

\* The $MFT with record e allocated to a new file, its file renamed, or freed:
\* a freed record keeps its $FILE_NAME, only the sequence moves on.
Allocated(m, e, i) == [m EXCEPT ![e].inUse = TRUE, ![e].info = i]
Renamed(m, e, i) == [m EXCEPT ![e].info = i]
Freed(m, e) == [m EXCEPT ![e].inUse = FALSE, ![e].seq = @ + 1]

\* p can hold a new name n: it is a directory that exists and n is free in it.
Accepts(p, n) == /\ p \in LiveKeys(mft) \cup {Root}
                 /\ \A e \in Entry : mft[e].inUse => mft[e].info # EntryInfo(n, p)

VolInit ==
  /\ mft = [e \in Entry |-> [seq |-> 1, inUse |-> FALSE,
                             info |-> EntryInfo(NoName, Root)]]
  /\ acc = [e \in Entry |-> {}]
  /\ renaming = {}
  /\ journal = <<>>
  /\ hist = <<[live |-> Live(mft), renaming |-> {}]>>

\* Every event appends one journal record and the ground truth after it.
Log(k, info, reasons) ==
  /\ Len(journal) < MaxEvents
  /\ journal' = Append(journal, [key |-> k, info |-> info, reason |-> reasons])
  /\ hist' = Append(hist, [live |-> Live(mft'), renaming |-> renaming'])

Create(e, p, n) ==
  /\ ~mft[e].inUse
  /\ mft[e].seq <= MaxSeq
  /\ Accepts(p, n)
  /\ mft' = Allocated(mft, e, EntryInfo(n, p))
  /\ acc' = [acc EXCEPT ![e] = {"FILE_CREATE"}]
  /\ UNCHANGED renaming
  /\ Log(KeyOf(mft, e), EntryInfo(n, p), {"FILE_CREATE"})

Write(e) ==
  /\ mft[e].inUse
  /\ "DATA_EXTEND" \notin acc[e]
  /\ KeyOf(mft, e) \notin renaming
  /\ acc' = [acc EXCEPT ![e] = @ \cup {"DATA_EXTEND"}]
  /\ UNCHANGED <<mft, renaming>>
  /\ Log(KeyOf(mft, e), mft[e].info, acc'[e])

Close(e) ==
  /\ mft[e].inUse
  /\ acc[e] # {}
  /\ KeyOf(mft, e) \notin renaming
  /\ acc' = [acc EXCEPT ![e] = {}]
  /\ UNCHANGED <<mft, renaming>>
  /\ Log(KeyOf(mft, e), mft[e].info, acc[e] \cup {"CLOSE"})

RenameOld(e) ==
  /\ mft[e].inUse
  /\ KeyOf(mft, e) \notin renaming
  /\ renaming' = renaming \cup {KeyOf(mft, e)}
  /\ UNCHANGED <<mft, acc>>
  /\ Log(KeyOf(mft, e), mft[e].info, acc[e] \cup {"RENAME_OLD_NAME"})

RenameNew(e, p, n) ==
  /\ mft[e].inUse
  /\ KeyOf(mft, e) \in renaming
  /\ Accepts(p, n)
  /\ KeyOf(mft, e) \notin Ancestors(Live(mft), p)
  /\ mft' = Renamed(mft, e, EntryInfo(n, p))
  /\ acc' = [acc EXCEPT ![e] = @ \cup {"RENAME_NEW_NAME"}]
  /\ renaming' = renaming \ {KeyOf(mft, e)}
  /\ Log(KeyOf(mft, e), EntryInfo(n, p), acc'[e])

Delete(e) ==
  /\ mft[e].inUse
  /\ KeyOf(mft, e) \notin renaming
  /\ \A x \in Entry : mft[x].inUse => mft[x].info.parent # KeyOf(mft, e)
  /\ mft' = Freed(mft, e)
  /\ acc' = [acc EXCEPT ![e] = {}]
  /\ UNCHANGED renaming
  /\ Log(KeyOf(mft, e), mft[e].info, acc[e] \cup {"FILE_DELETE", "CLOSE"})

VolNext ==
  \E e \in Entry :
    \/ \E p \in LiveKeys(mft) \cup {Root}, n \in Name :
         Create(e, p, n) \/ RenameNew(e, p, n)
    \/ Write(e)
    \/ Close(e)
    \/ RenameOld(e)
    \/ Delete(e)

VolTypeOK ==
  /\ mft \in [Entry -> Files]
  /\ acc \in [Entry -> SUBSET Reasons]
  /\ renaming \subseteq LiveKeys(mft)
  /\ journal \in Seq(UsnRecords)
  /\ \A i \in 1 .. Len(hist) : IsTable(hist[i].live)
=============================================================================
