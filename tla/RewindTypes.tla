---------------------------- MODULE RewindTypes -----------------------------
(***************************************************************************)
(* Proof that RewindSystem keeps its types, for every journal version and   *)
(* any carved seeds, and the facts about tables and the $MFT it rests on.   *)
(***************************************************************************)
EXTENDS RewindInv, TLAPS

-----------------------------------------------------------------------------
(* Tables.                                                                  *)

\* HashMap::insert sets one key and keeps the others.
LEMMA InsertFacts ==
  \A lk, k, v : /\ DOMAIN Insert(lk, k, v) = DOMAIN lk \cup {k}
                /\ Insert(lk, k, v)[k] = v
                /\ \A x \in DOMAIN lk \ {k} : Insert(lk, k, v)[x] = lk[x]
BY DEF Insert

\* HashMap::insert adds the key to the domain and no other.
LEMMA InsertDomain ==
  \A lk, k, v : DOMAIN Insert(lk, k, v) = DOMAIN lk \cup {k}
BY InsertFacts, Zenon

\* Entry::or_insert adds a missing key and keeps every key present.
LEMMA OrInsertFacts ==
  \A lk, k, v : /\ DOMAIN OrInsert(lk, k, v) = DOMAIN lk \cup {k}
                /\ k \notin DOMAIN lk => OrInsert(lk, k, v)[k] = v
                /\ \A x \in DOMAIN lk : OrInsert(lk, k, v)[x] = lk[x]
<1> TAKE lk, k, v
<1>1. k \in DOMAIN lk => OrInsert(lk, k, v) = lk
  BY DEF OrInsert
<1>2. k \notin DOMAIN lk => OrInsert(lk, k, v) = Insert(lk, k, v)
  BY DEF OrInsert
<1>3. DOMAIN OrInsert(lk, k, v) = DOMAIN lk \cup {k}
  <2>1. CASE k \in DOMAIN lk
    BY <1>1, <2>1
  <2>2. CASE k \notin DOMAIN lk
    BY <1>2, <2>2, InsertDomain, ZenonT(30)
  <2> QED BY <2>1, <2>2
<1>4. k \notin DOMAIN lk => OrInsert(lk, k, v)[k] = v
  BY <1>2, InsertFacts
<1>5. \A x \in DOMAIN lk : OrInsert(lk, k, v)[x] = lk[x]
  BY <1>1, <1>2, InsertFacts
<1> QED BY <1>3, <1>4, <1>5

\* Entry::or_insert adds the key to the domain and no other.
LEMMA OrInsertDomain ==
  \A lk, k, v : DOMAIN OrInsert(lk, k, v) = DOMAIN lk \cup {k}
BY OrInsertFacts, Zenon

\* Inserting well-typed entries keeps a table a table.
LEMMA InsertType ==
  ASSUME NEW lk, NEW k \in Keys, NEW v \in Infos, IsTable(lk)
  PROVE  IsTable(Insert(lk, k, v)) /\ IsTable(OrInsert(lk, k, v))
<1>1. IsTable(Insert(lk, k, v))
  BY DEF IsTable, Insert
<1> QED BY <1>1 DEF OrInsert

\* Live files: their keys carry the sequence their record has now.
LEMMA LiveFacts ==
  ASSUME NEW m
  PROVE  /\ DOMAIN Live(m) = LiveKeys(m)
         /\ \A k \in LiveKeys(m) : /\ k.entry \in Entry
                                   /\ m[k.entry].inUse
                                   /\ k = EntryKey(k.entry, m[k.entry].seq)
                                   /\ Live(m)[k] = m[k.entry].info
         /\ \A e \in Entry : m[e].inUse => KeyOf(m, e) \in LiveKeys(m)
<1>1. DOMAIN Live(m) = LiveKeys(m)
  BY DEF Live
<1>2. \A e \in Entry : m[e].inUse => KeyOf(m, e) \in LiveKeys(m)
  BY DEF LiveKeys
<1>3. ASSUME NEW k \in LiveKeys(m)
      PROVE  /\ k.entry \in Entry
             /\ m[k.entry].inUse
             /\ k = EntryKey(k.entry, m[k.entry].seq)
             /\ Live(m)[k] = m[k.entry].info
  <2>1. PICK e \in Entry : m[e].inUse /\ k = EntryKey(e, m[e].seq)
    BY DEF LiveKeys, KeyOf
  <2>2. k.entry = e
    BY <2>1 DEF EntryKey
  <2>3. Live(m)[k] = m[k.entry].info
    BY DEF Live
  <2> QED BY <2>1, <2>2, <2>3
<1> QED BY <1>1, <1>2, <1>3

\* The key under which an MFT record is filed is a key.
LEMMA KeyType ==
  ASSUME NEW m \in [Entry -> Files], NEW e \in Entry
  PROVE  KeyOf(m, e) \in Keys
BY DEF KeyOf, EntryKey, Keys, Files

\* The live files of an $MFT form a table, as the engine's lookup is one.
LEMMA LiveType ==
  ASSUME NEW m \in [Entry -> Files]
  PROVE  IsTable(Live(m))
<1>1. \A k \in LiveKeys(m) : k \in Keys /\ Live(m)[k] \in Infos
  BY LiveFacts, KeyType DEF KeyOf, Files
<1> QED BY <1>1, LiveFacts DEF IsTable

\* The root directory's reference, entry 5 and sequence 5, is a key.
LEMMA RootType == Root \in Keys
BY DEF Root, EntryKey, Keys

\* A name and a parent form an EntryInfo.
LEMMA InfoType ==
  ASSUME NEW n \in Name, NEW p \in Keys
  PROVE  EntryInfo(n, p) \in Infos
BY DEF EntryInfo, Infos

-----------------------------------------------------------------------------
(* How the live files change with the $MFT.                                 *)

\* Creating a file in a free record adds its key, and changes no other.
LEMMA CreateLive ==
  ASSUME NEW m \in [Entry -> Files], NEW e \in Entry, ~m[e].inUse,
         NEW i \in Infos
  PROVE  /\ Allocated(m, e, i) \in [Entry -> Files]
         /\ KeyOf(m, e) \notin LiveKeys(m)
         /\ LiveKeys(Allocated(m, e, i)) = LiveKeys(m) \cup {KeyOf(m, e)}
         /\ Live(Allocated(m, e, i))[KeyOf(m, e)] = i
         /\ \A k \in LiveKeys(m) : Live(Allocated(m, e, i))[k] = Live(m)[k]
<1> DEFINE m2 == Allocated(m, e, i)
<1>1. m2 \in [Entry -> Files]
  BY Zenon DEF Files, Allocated
<1>2. m2[e].seq = m[e].seq /\ m2[e].inUse /\ m2[e].info = i
  BY DEF Files, Allocated
<1>3. \A x \in Entry \ {e} : m2[x] = m[x]
  BY DEF Allocated
<1> HIDE DEF m2
<1>4. \A x \in Entry : KeyOf(m2, x) = KeyOf(m, x)
  BY <1>2, <1>3, Zenon DEF KeyOf
<1>5. \A x \in Entry : KeyOf(m, x).entry = x
  BY DEF KeyOf, EntryKey
<1>6. LiveKeys(m2) = LiveKeys(m) \cup {KeyOf(m, e)}
  <2>1. LiveKeys(m2) = {KeyOf(m, x) : x \in {y \in Entry : m2[y].inUse}}
    BY <1>4 DEF LiveKeys
  <2>2. {y \in Entry : m2[y].inUse} = {y \in Entry : m[y].inUse} \cup {e}
    BY <1>2, <1>3
  <2> QED BY <2>1, <2>2, Zenon DEF LiveKeys
<1>7. KeyOf(m, e) \notin LiveKeys(m)
  BY <1>5 DEF LiveKeys
<1>8. Live(m2)[KeyOf(m, e)] = i
  BY <1>2, <1>5, <1>6 DEF Live
<1>9. \A k \in LiveKeys(m) : Live(m2)[k] = Live(m)[k]
  <2>1. \A k \in LiveKeys(m) : k.entry \in Entry \ {e}
    BY <1>5 DEF LiveKeys
  <2> QED BY <1>3, <1>6, <2>1 DEF Live
<1> QED BY <1>1, <1>6, <1>7, <1>8, <1>9 DEF m2

\* Renaming changes the name and the parent of one live file.
LEMMA RenameLive ==
  ASSUME NEW m \in [Entry -> Files], NEW e \in Entry, m[e].inUse,
         NEW i \in Infos
  PROVE  /\ Renamed(m, e, i) \in [Entry -> Files]
         /\ KeyOf(m, e) \in LiveKeys(m)
         /\ LiveKeys(Renamed(m, e, i)) = LiveKeys(m)
         /\ Live(Renamed(m, e, i))[KeyOf(m, e)] = i
         /\ \A k \in LiveKeys(m) \ {KeyOf(m, e)} : Live(Renamed(m, e, i))[k] = Live(m)[k]
<1> DEFINE m2 == Renamed(m, e, i)
<1>1. m2 \in [Entry -> Files]
  BY DEF Files, Renamed
<1>2. m2[e].seq = m[e].seq /\ m2[e].inUse = m[e].inUse /\ m2[e].info = i
  BY Zenon DEF Files, Renamed
<1>3. \A x \in Entry \ {e} : m2[x] = m[x]
  BY DEF Renamed
<1> HIDE DEF m2
<1>4. \A x \in Entry : KeyOf(m2, x) = KeyOf(m, x) /\ m2[x].inUse = m[x].inUse
  BY <1>2, <1>3, Zenon DEF KeyOf
<1>5. \A x \in Entry : KeyOf(m, x).entry = x
  BY DEF KeyOf, EntryKey
<1>6. LiveKeys(m2) = LiveKeys(m)
  BY <1>4 DEF LiveKeys
<1>7. KeyOf(m, e) \in LiveKeys(m)
  BY DEF LiveKeys
<1>8. Live(m2)[KeyOf(m, e)] = i
  BY <1>2, <1>5, <1>6, <1>7 DEF Live
<1>9. \A k \in LiveKeys(m) \ {KeyOf(m, e)} : Live(m2)[k] = Live(m)[k]
  <2>1. \A k \in LiveKeys(m) \ {KeyOf(m, e)} : k.entry \in Entry \ {e}
    BY <1>5 DEF LiveKeys
  <2> QED BY <1>3, <1>6, <2>1 DEF Live
<1> QED BY <1>1, <1>6, <1>7, <1>8, <1>9 DEF m2

\* Deleting frees the record and moves its sequence on: the key is gone.
LEMMA DeleteLive ==
  ASSUME NEW m \in [Entry -> Files], NEW e \in Entry, m[e].inUse
  PROVE  /\ Freed(m, e) \in [Entry -> Files]
         /\ Freed(m, e)[e].seq = m[e].seq + 1 /\ ~Freed(m, e)[e].inUse
         /\ KeyOf(m, e) \in LiveKeys(m)
         /\ LiveKeys(Freed(m, e)) = LiveKeys(m) \ {KeyOf(m, e)}
         /\ \A k \in LiveKeys(Freed(m, e)) : Live(Freed(m, e))[k] = Live(m)[k]
<1> DEFINE m2 == Freed(m, e)
<1>1. m2 \in [Entry -> Files]
  <2>1. m[e].seq + 1 \in Nat
    BY DEF Files
  <2> QED BY <2>1, Zenon DEF Files, Freed
<1>2. m2[e].seq = m[e].seq + 1 /\ ~m2[e].inUse
  BY DEF Files, Freed
<1>3. \A x \in Entry \ {e} : m2[x] = m[x]
  BY DEF Freed
<1> HIDE DEF m2
<1>4. \A x \in Entry \ {e} : KeyOf(m2, x) = KeyOf(m, x)
  BY <1>3, Zenon DEF KeyOf
<1>5. \A x \in Entry : KeyOf(m, x).entry = x
  BY DEF KeyOf, EntryKey
<1>6. LiveKeys(m2) = LiveKeys(m) \ {KeyOf(m, e)}
  <2>1. {y \in Entry : m2[y].inUse} = {y \in Entry \ {e} : m[y].inUse}
    BY <1>2, <1>3
  <2>2. LiveKeys(m2) = {KeyOf(m, x) : x \in {y \in Entry \ {e} : m[y].inUse}}
    BY <1>4, <2>1 DEF LiveKeys
  <2> QED BY <1>5, <2>2, ZenonT(30) DEF LiveKeys
<1>7. KeyOf(m, e) \in LiveKeys(m)
  BY DEF LiveKeys
<1>8. \A k \in LiveKeys(m2) : Live(m2)[k] = Live(m)[k]
  <2>1. \A k \in LiveKeys(m2) : k.entry \in Entry \ {e}
    BY <1>5, <1>6 DEF LiveKeys
  <2> QED BY <1>3, <1>6, <2>1 DEF Live
<1> QED BY <1>1, <1>2, <1>6, <1>7, <1>8 DEF m2

-----------------------------------------------------------------------------
(* Type correctness.                                                        *)

Snapshots == [live : {Live(m) : m \in [Entry -> Files]}, renaming : SUBSET Keys]

\* TypeOK with the fact the sequence operators need about hist.
TInv == TypeOK /\ hist \in Seq(Snapshots)

\* The files in use have keys.
LEMMA LiveKeysType ==
  ASSUME NEW m \in [Entry -> Files]
  PROVE  LiveKeys(m) \subseteq Keys
BY KeyType DEF LiveKeys

\* Logging an event of the right type keeps the journal and the truth typed.
LEMMA LogType ==
  ASSUME journal \in Seq(UsnRecords), hist \in Seq(Snapshots),
         mft' \in [Entry -> Files], renaming' \subseteq LiveKeys(mft'),
         NEW k \in Keys, NEW i \in Infos, NEW w \in SUBSET Reasons,
         Log(k, i, w)
  PROVE  /\ journal' \in Seq(UsnRecords)
         /\ hist' \in Seq(Snapshots)
         /\ \A j \in 1 .. Len(hist') : IsTable(hist'[j].live)
<1>1. journal' \in Seq(UsnRecords)
  BY DEF Log, UsnRecords
<1>2. [live |-> Live(mft'), renaming |-> renaming'] \in Snapshots
  BY LiveKeysType DEF Snapshots
<1>3. hist' \in Seq(Snapshots)
  BY <1>2 DEF Log
<1>4. \A h \in Snapshots : IsTable(h.live)
  BY LiveType DEF Snapshots
<1> QED BY <1>1, <1>3, <1>4

\* Every event of the volume keeps the volume's types.
LEMMA VolumeType ==
  ASSUME VolTypeOK, hist \in Seq(Snapshots), VolNext
  PROVE  VolTypeOK' /\ hist' \in Seq(Snapshots)
<1> USE DEF VolTypeOK
<1>1. PICK e \in Entry :
        \/ \E p \in LiveKeys(mft) \cup {Root}, n \in Name :
             Create(e, p, n) \/ RenameNew(e, p, n)
        \/ Write(e) \/ Close(e) \/ RenameOld(e) \/ Delete(e)
  BY Zenon DEF VolNext
<1>2. KeyOf(mft, e) \in Keys /\ mft[e].info \in Infos /\ acc[e] \subseteq Reasons
  BY KeyType, SMTT(30) DEF Files
<1>3. \A p \in LiveKeys(mft) \cup {Root}, n \in Name : EntryInfo(n, p) \in Infos
  BY LiveKeysType, RootType, InfoType
<1>4. ASSUME NEW p \in LiveKeys(mft) \cup {Root}, NEW n \in Name, Create(e, p, n)
      PROVE  VolTypeOK' /\ hist' \in Seq(Snapshots)
  <2> DEFINE i == EntryInfo(n, p)
  <2>a. i \in Infos /\ ~mft[e].inUse /\ mft' = Allocated(mft, e, i)
    BY <1>3, <1>4 DEF Create
  <2> HIDE DEF i
  <2>1. mft' \in [Entry -> Files] /\ LiveKeys(mft) \subseteq LiveKeys(mft')
    BY <2>a, CreateLive
  <2>2. renaming' \subseteq LiveKeys(mft') /\ acc' \in [Entry -> SUBSET Reasons]
    BY <1>4, <2>1 DEF Create, Reasons
  <2> QED BY <1>2, <1>3, <1>4, <2>1, <2>2, LogType, Zenon DEF Create, Reasons
<1>5. ASSUME NEW p \in LiveKeys(mft) \cup {Root}, NEW n \in Name, RenameNew(e, p, n)
      PROVE  VolTypeOK' /\ hist' \in Seq(Snapshots)
  <2> DEFINE i == EntryInfo(n, p)
  <2>a. i \in Infos /\ mft[e].inUse /\ mft' = Renamed(mft, e, i)
    BY <1>3, <1>5 DEF RenameNew
  <2> HIDE DEF i
  <2>1. mft' \in [Entry -> Files] /\ LiveKeys(mft) = LiveKeys(mft')
    BY <2>a, RenameLive
  <2>2. renaming' \subseteq LiveKeys(mft') /\ acc' \in [Entry -> SUBSET Reasons]
    BY <1>2, <1>5, <2>1 DEF RenameNew, Reasons
  <2> QED BY <1>2, <1>3, <1>5, <2>1, <2>2, LogType, Zenon DEF RenameNew, Reasons
<1>6. CASE Write(e)
  <2>1. acc' \in [Entry -> SUBSET Reasons]
    BY <1>2, <1>6 DEF Write, Reasons
  <2> QED BY <1>2, <1>6, <2>1, LogType DEF Write
<1>7. CASE Close(e)
  <2>1. acc' \in [Entry -> SUBSET Reasons] /\ acc[e] \cup {"CLOSE"} \in SUBSET Reasons
    BY <1>2, <1>7 DEF Close, Reasons
  <2> QED BY <1>2, <1>7, <2>1, LogType DEF Close
<1>8. CASE RenameOld(e)
  <2>1. renaming' \subseteq LiveKeys(mft') /\ acc[e] \cup {"RENAME_OLD_NAME"} \in SUBSET Reasons
    BY <1>2, <1>8, LiveFacts DEF RenameOld, Reasons
  <2>2. mft' \in [Entry -> Files] /\ acc' \in [Entry -> SUBSET Reasons]
    BY <1>8 DEF RenameOld
  <2> QED BY <1>2, <1>8, <2>1, <2>2, LogType DEF RenameOld
<1>9. CASE Delete(e)
  <2>1. mft' \in [Entry -> Files] /\ LiveKeys(mft') = LiveKeys(mft) \ {KeyOf(mft, e)}
    BY <1>9, DeleteLive DEF Delete
  <2>2. /\ renaming' \subseteq LiveKeys(mft')
        /\ acc' \in [Entry -> SUBSET Reasons]
        /\ acc[e] \cup {"FILE_DELETE", "CLOSE"} \in SUBSET Reasons
    BY <1>2, <1>9, <2>1, SMTT(30) DEF Delete, Reasons
  <2> QED BY <1>2, <1>9, <2>1, <2>2, LogType DEF Delete
<1> QED BY <1>1, <1>4, <1>5, <1>6, <1>7, <1>8, <1>9, Zenon

\* Every event of the volume appends one record to the journal.
LEMMA VolumeLogs ==
  ASSUME journal \in Seq(UsnRecords), VolNext
  PROVE  Len(journal') = Len(journal) + 1
<1>1. \A k, i, w : Log(k, i, w) => Len(journal') = Len(journal) + 1
  BY DEF Log
<1> QED BY <1>1 DEF VolNext, Create, Write, Close, RenameOld, RenameNew, Delete

\* A parsed journal record has the type of one, whatever its version.
LEMMA ParseType ==
  ASSUME NEW r \in UsnRecords
  PROVE  parse_usn_record(r) \in UsnRecords
<1>1. \A k \in Keys : file_reference(k) \in Keys
  BY DEF file_reference, EntryKey, Keys
<1>2. r.key \in Keys /\ r.info.parent \in Keys /\ r.info.name \in Name \cup {NoName}
      /\ r.reason \in SUBSET Reasons
  BY DEF UsnRecords, Infos
<1>3. EntryInfo(r.info.name, file_reference(r.info.parent)) \in Infos
  BY <1>1, <1>2 DEF EntryInfo, Infos
<1> QED BY <1>1, <1>2, <1>3 DEF parse_usn_record, UsnRecords

\* A window of the journal is a sequence of records.
LEMMA WindowType ==
  ASSUME journal \in Seq(UsnRecords),
         NEW n \in Nat, NEW top \in Nat, n <= top, top <= Len(journal)
  PROVE  Window(n, top) \in Seq(UsnRecords) /\ Len(Window(n, top)) = top - n
<1>1. \A i \in 1 .. top - n : journal[n + i] \in UsnRecords
  OBVIOUS
<1>2. \A i \in 1 .. top - n : parse_usn_record(journal[n + i]) \in UsnRecords
  BY <1>1, ParseType
<1> HIDE DEF parse_usn_record
<1>3. top - n \in Nat
  OBVIOUS
<1> QED BY <1>2, <1>3 DEF Window

\* The table seed_rewind hands to the engine.
LEMMA SeedType ==
  ASSUME NEW m \in [Entry -> Files]
  PROVE  IsTable(seed_rewind(m))
<1>1. \A e \in Entry : KeyOf(m, e) \in Keys /\ KeyOf(m, e).entry = e
                       /\ m[e].info \in Infos
  BY KeyType DEF KeyOf, EntryKey, Files
<1> QED BY <1>1, ZenonT(30) DEF IsTable, seed_rewind

\* An empty volume and a new engine have the types the invariant names.
LEMMA InitType == Init => TInv
<1> SUFFICES ASSUME Init PROVE TInv
  OBVIOUS
<1> USE DEF Init, VolInit, EngineInit
<1>1. EntryInfo(NoName, Root) \in Infos
  BY RootType DEF EntryInfo, Infos
<1>2. mft \in [Entry -> Files]
  BY <1>1 DEF Files
<1>3. [live |-> Live(mft), renaming |-> {}] \in Snapshots /\ IsTable(Live(mft))
  BY <1>2, LiveType, Zenon DEF Snapshots
<1>4. VolTypeOK /\ hist \in Seq(Snapshots)
  <2>1. hist \in Seq(Snapshots) /\ Len(hist) = 1 /\ hist[1].live = Live(mft)
    BY <1>3
  <2>2. \A i \in 1 .. Len(hist) : IsTable(hist[i].live)
    BY <1>3, <2>1
  <2>3. acc \in [Entry -> SUBSET Reasons] /\ renaming \subseteq LiveKeys(mft)
        /\ journal \in Seq(UsnRecords)
    OBVIOUS
  <2> QED BY <1>2, <2>1, <2>2, <2>3, Zenon DEF VolTypeOK
<1>5. IsTable(EmptyTable)
  BY DEF IsTable, EmptyTable
<1> QED BY <1>4, <1>5, SystemAssumption DEF TInv, TypeOK, Phases

\* One step of the engine on its own.
LEMMA EngineType ==
  ASSUME TypeOK, EngineNext
  PROVE  /\ phase' \in Phases
         /\ IsTable(lookup') /\ IsTable(forward_lookup')
         /\ records' = records
         /\ pos' \in 0 .. Len(records)
<1> USE DEF TypeOK, Phases
<1>1. CASE ReverseStep
  <2>1. pos \in 1 .. Len(records) /\ records[pos] \in UsnRecords
    BY <1>1 DEF ReverseStep
  <2>2. IsTable(lookup')
    BY <1>1, <2>1, InsertType, SMTT(30) DEF ReverseStep, Learn, UsnRecords
  <2> QED BY <1>1, <2>1, <2>2 DEF ReverseStep
<1>2. CASE StartForward
  BY <1>2 DEF StartForward
<1>3. CASE ForwardStep
  <2>1. pos + 1 \in 1 .. Len(records) /\ records[pos + 1] \in UsnRecords
    BY <1>3 DEF ForwardStep
  <2>2. IsTable(forward_lookup')
    BY <1>3, <2>1, InsertType, Zenon DEF ForwardStep, Replay, UsnRecords
  <2> QED BY <1>3, <2>1, <2>2 DEF ForwardStep
<1>4. CASE Return
  BY <1>4 DEF Return
<1> QED BY <1>1, <1>2, <1>3, <1>4 DEF EngineNext

\* Every event of the volume and every step of the engine keeps the types.
LEMMA NextType == TInv /\ [Next]_vars => TInv'
<1> SUFFICES ASSUME TInv, [Next]_vars PROVE TInv'
  OBVIOUS
<1> USE DEF TInv
<1>1. CASE VolumeRuns
  <2>1. VolTypeOK' /\ hist' \in Seq(Snapshots)
    BY <1>1, VolumeType DEF VolumeRuns, TypeOK
  <2>2. Len(journal') = Len(journal) + 1
    BY <1>1, VolumeLogs DEF VolumeRuns, TypeOK, VolTypeOK
  <2> QED BY <1>1, <2>1, <2>2 DEF VolumeRuns, TypeOK, VolTypeOK, engineVars
<1>2. CASE Seed
  BY <1>2, SeedType DEF Seed, from_mft, TypeOK, VolTypeOK, volVars, Phases
<1>3. CASE SeedCarved
  <2>1. PICK c \in CarvedEntries : seed_from_carved(c[1], c[2])
    BY <1>3 DEF SeedCarved
  <2>2. c[1] \in Keys /\ c[2] \in Infos
    BY SMTT(30) DEF CarvedEntries, TypeOK, VolTypeOK, IsTable
  <2>3. IsTable(lookup')
    BY <2>1, <2>2, InsertType DEF seed_from_carved, TypeOK
  <2> QED BY <1>3, <2>1, <2>3, SystemAssumption
          DEF SeedCarved, seed_from_carved, TypeOK, VolTypeOK, volVars
<1>4. CASE Rewinds
  <2>1. PICK n \in 0 .. Len(journal) : cut' = n /\ rewind(Window(n, Len(journal)))
    BY <1>4 DEF Rewinds
  <2>a. journal \in Seq(UsnRecords) /\ Len(journal) \in Nat
    BY DEF TypeOK, VolTypeOK
  <2>b. Window(n, Len(journal)) \in Seq(UsnRecords)
    BY <2>a, WindowType
  <2>2. records' \in Seq(UsnRecords) /\ Len(records') = pos' /\ pos' \in Nat
    BY <2>1, <2>b DEF rewind
  <2> QED BY <1>4, <2>1, <2>2
          DEF Rewinds, rewind, TypeOK, VolTypeOK, volVars, Phases
<1>5. CASE RewindsBatch
  <2>1. PICK n \in 0 .. cut - 1 : cut' = n /\ rewind(Window(n, cut))
    BY <1>5 DEF RewindsBatch
  <2>a. n \in Nat /\ cut \in Nat /\ n <= cut /\ cut <= Len(journal)
        /\ journal \in Seq(UsnRecords)
    BY DEF TypeOK, VolTypeOK
  <2>b. Window(n, cut) \in Seq(UsnRecords)
    BY <2>a, WindowType
  <2>2. records' \in Seq(UsnRecords) /\ Len(records') = pos' /\ pos' \in Nat
    BY <2>1, <2>b DEF rewind
  <2> QED BY <1>5, <2>1, <2>2
          DEF RewindsBatch, rewind, TypeOK, VolTypeOK, volVars, Phases
<1>6. CASE EngineRuns
  BY <1>6, EngineType, SMTT(30) DEF EngineRuns, TypeOK, VolTypeOK, volVars
<1>7. CASE UNCHANGED vars
  BY <1>7 DEF vars, volVars, engineVars, TypeOK, VolTypeOK
<1> QED BY <1>1, <1>2, <1>3, <1>4, <1>5, <1>6, <1>7 DEF Next, Finished

\* Type correctness of the volume and the engine, for either journal version
\* and any number of carved seeds.
THEOREM TypeCorrect == Spec => []TypeOK
<1>1. TInv => TypeOK
  BY DEF TInv
<1> QED BY <1>1, InitType, NextType, PTL DEF Spec
=============================================================================
