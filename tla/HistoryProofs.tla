--------------------------- MODULE HistoryProofs ----------------------------
(***************************************************************************)
(* Proof that the journal explains the volume: every event of the volume    *)
(* keeps HistOK.                                                            *)
(***************************************************************************)
EXTENDS RewindTypes

-----------------------------------------------------------------------------
(* The journal explains the volume.                                         *)

Now == [live |-> Live(mft), renaming |-> renaming]

\* An event of the volume logs a record that explains it, never takes a
\* sequence back, and gives a new file a key that was free.
LEMMA VolumeExplains ==
  ASSUME VolTypeOK, VolNext
  PROVE  /\ \E r \in UsnRecords : /\ journal' = Append(journal, r)
                                  /\ Explains(Now, r, Now')
         /\ hist' = Append(hist, Now')
         /\ \A x \in Entry : /\ mft[x].seq <= mft'[x].seq
                             /\ mft'[x].seq = mft[x].seq /\ mft[x].inUse
                                  => mft'[x].inUse
         /\ \A k \in LiveKeys(mft') \ LiveKeys(mft) :
              k.entry \in Entry /\ k.sequence = mft[k.entry].seq
              /\ ~mft[k.entry].inUse
<1> DEFINE Goal(r) ==
         /\ journal' = Append(journal, r)
         /\ Explains(Now, r, Now')
         /\ hist' = Append(hist, Now')
         /\ \A x \in Entry : /\ mft[x].seq <= mft'[x].seq
                             /\ mft'[x].seq = mft[x].seq /\ mft[x].inUse
                                  => mft'[x].inUse
         /\ \A k \in LiveKeys(mft') \ LiveKeys(mft) :
              k.entry \in Entry /\ k.sequence = mft[k.entry].seq
              /\ ~mft[k.entry].inUse
<1> DEFINE Rec(k, i, w) == [key |-> k, info |-> i, reason |-> w]
<1>1. PICK e \in Entry :
        \/ \E p \in LiveKeys(mft) \cup {Root}, n \in Name :
             Create(e, p, n) \/ RenameNew(e, p, n)
        \/ Write(e) \/ Close(e) \/ RenameOld(e) \/ Delete(e)
  BY DEF VolNext
<1> DEFINE k == KeyOf(mft, e)
<1>2. /\ mft \in [Entry -> Files]
      /\ k \in Keys /\ mft[e].info \in Infos /\ acc[e] \subseteq Reasons
      /\ mft[e].seq \in Nat /\ k.entry = e /\ k.sequence = mft[e].seq
      /\ \A x \in Entry : mft[x].seq \in Nat
  BY KeyType, SMTT(30) DEF VolTypeOK, Files, KeyOf, EntryKey
<1>3. \A p \in LiveKeys(mft) \cup {Root}, n \in Name : EntryInfo(n, p) \in Infos
  BY LiveKeysType, RootType, InfoType DEF VolTypeOK
<1>4. mft[e].inUse => k \in LiveKeys(mft) /\ Live(mft)[k] = mft[e].info
  BY <1>2, LiveFacts
<1> HIDE DEF k
<1>5. ASSUME NEW p \in LiveKeys(mft) \cup {Root}, NEW n \in Name, Create(e, p, n)
      PROVE  \E r \in UsnRecords : Goal(r)
  <2> DEFINE i == EntryInfo(n, p)
             r == Rec(k, i, {"FILE_CREATE"})
  <2>1. i \in Infos /\ ~mft[e].inUse /\ mft' = Allocated(mft, e, i)
        /\ renaming' = renaming /\ Log(k, i, {"FILE_CREATE"})
    BY <1>3, <1>5 DEF Create, k
  <2> HIDE DEF i
  <2>2. /\ k \notin LiveKeys(mft)
        /\ LiveKeys(mft') = LiveKeys(mft) \cup {k}
        /\ Live(mft')[k] = i
        /\ \A j \in LiveKeys(mft) : Live(mft')[j] = Live(mft)[j]
    BY <1>2, <2>1, CreateLive DEF k
  <2>3. \A x \in Entry : mft'[x].seq = mft[x].seq
                         /\ (mft[x].inUse => mft'[x].inUse)
    BY <1>2, <2>1 DEF Allocated, Files
  <2>4. Explains(Now, r, Now')
    BY <2>1, <2>2, LiveFacts DEF Explains, SameExcept, Now
  <2>5. r \in UsnRecords
    BY <1>2, <2>1 DEF UsnRecords, Reasons
  <2>6. journal' = Append(journal, r) /\ hist' = Append(hist, Now')
    BY <2>1 DEF Log, Now
  <2>7. \A j \in LiveKeys(mft') \ LiveKeys(mft) : j = k
    BY <2>2
  <2>8. Goal(r)
    BY <1>2, <2>1, <2>3, <2>4, <2>6, <2>7
  <2> QED BY <2>5, <2>8
<1>6. ASSUME NEW p \in LiveKeys(mft) \cup {Root}, NEW n \in Name, RenameNew(e, p, n)
      PROVE  \E r \in UsnRecords : Goal(r)
  <2> DEFINE i == EntryInfo(n, p)
             r == Rec(k, i, acc'[e])
  <2>1. i \in Infos /\ mft[e].inUse /\ mft' = Renamed(mft, e, i)
        /\ k \in renaming /\ renaming' = renaming \ {k} /\ Log(k, i, acc'[e])
    BY <1>3, <1>6 DEF RenameNew, k
  <2>a. "RENAME_NEW_NAME" \in acc'[e] /\ acc'[e] \subseteq Reasons
    BY <1>2, <1>6 DEF RenameNew, VolTypeOK, Reasons
  <2> HIDE DEF i
  <2>2. /\ k \in LiveKeys(mft)
        /\ LiveKeys(mft') = LiveKeys(mft)
        /\ Live(mft')[k] = i
        /\ \A j \in LiveKeys(mft) \ {k} : Live(mft')[j] = Live(mft)[j]
    BY <1>2, <2>1, RenameLive DEF k
  <2>3. \A x \in Entry : mft'[x].seq = mft[x].seq
                         /\ (mft[x].inUse => mft'[x].inUse)
    BY <1>2, <2>1 DEF Renamed, Files
  <2>4. Explains(Now, r, Now')
    BY <2>1, <2>2, <2>a, LiveFacts, ZenonT(30) DEF Explains, SameExcept, Now
  <2>5. r \in UsnRecords
    BY <1>2, <2>1, <2>a DEF UsnRecords
  <2>6. journal' = Append(journal, r) /\ hist' = Append(hist, Now')
    BY <2>1 DEF Log, Now
  <2>8. Goal(r)
    BY <1>2, <2>2, <2>3, <2>4, <2>6
  <2> QED BY <2>5, <2>8
<1>7. ASSUME mft[e].inUse, k \notin renaming, UNCHANGED <<mft, renaming>>,
             NEW w \in SUBSET Reasons, Log(k, mft[e].info, w)
      PROVE  \E r \in UsnRecords : Goal(r)
  <2> DEFINE r == Rec(k, mft[e].info, w)
  <2>1. Explains(Now, r, Now')
    BY <1>4, <1>7, LiveFacts DEF Explains, SameExcept, Now
  <2>2. r \in UsnRecords
    BY <1>2 DEF UsnRecords
  <2>3. journal' = Append(journal, r) /\ hist' = Append(hist, Now')
    BY <1>7 DEF Log, Now
  <2>a. \A x \in Entry : mft'[x] = mft[x] /\ mft[x].seq <= mft[x].seq
    BY <1>2, <1>7
  <2>b. LiveKeys(mft') \ LiveKeys(mft) = {}
    BY <1>7
  <2>4. Goal(r)
    BY <2>1, <2>3, <2>a, <2>b
  <2> QED BY <2>2, <2>4, ZenonT(30)
<1>8. CASE Write(e)
  <2>1. acc'[e] \in SUBSET Reasons
    BY <1>2, <1>8 DEF Write, VolTypeOK, Reasons
  <2> QED BY <1>7, <1>8, <2>1 DEF Write, k
<1>9. CASE Close(e)
  <2>1. acc[e] \cup {"CLOSE"} \in SUBSET Reasons
    BY <1>2 DEF Reasons
  <2> QED BY <1>7, <1>9, <2>1 DEF Close, k
<1>10. CASE RenameOld(e)
  <2> DEFINE w == acc[e] \cup {"RENAME_OLD_NAME"}
             r == Rec(k, mft[e].info, w)
  <2>1. mft[e].inUse /\ k \notin renaming /\ renaming' = renaming \cup {k}
        /\ mft' = mft /\ Log(k, mft[e].info, w)
    BY <1>10 DEF RenameOld, k
  <2>2. Explains(Now, r, Now')
    BY <1>4, <2>1, LiveFacts DEF Explains, SameExcept, Now
  <2>3. r \in UsnRecords
    BY <1>2 DEF UsnRecords, Reasons
  <2>4. journal' = Append(journal, r) /\ hist' = Append(hist, Now')
    BY <2>1 DEF Log, Now
  <2>a. \A x \in Entry : mft'[x] = mft[x] /\ mft[x].seq <= mft[x].seq
    BY <1>2, <2>1
  <2>b. LiveKeys(mft') \ LiveKeys(mft) = {}
    BY <2>1
  <2>5. Goal(r)
    BY <2>2, <2>4, <2>a, <2>b
  <2> QED BY <2>3, <2>5, Zenon
<1>11. CASE Delete(e)
  <2> DEFINE w == acc[e] \cup {"FILE_DELETE", "CLOSE"}
             r == Rec(k, mft[e].info, w)
  <2>1. mft[e].inUse /\ k \notin renaming /\ renaming' = renaming
        /\ mft' = Freed(mft, e) /\ Log(k, mft[e].info, w)
    BY <1>11 DEF Delete, k
  <2>2. /\ LiveKeys(mft') = LiveKeys(mft) \ {k}
        /\ \A j \in LiveKeys(mft') : Live(mft')[j] = Live(mft)[j]
        /\ mft'[e].seq = mft[e].seq + 1
    BY <1>2, <2>1, DeleteLive DEF k
  <2>3. \A x \in Entry \ {e} : mft'[x] = mft[x]
    BY <1>2, <2>1, SMTT(30) DEF Freed
  <2>4. Explains(Now, r, Now')
    BY <1>4, <2>1, <2>2, LiveFacts DEF Explains, SameExcept, Now
  <2>5. r \in UsnRecords
    BY <1>2 DEF UsnRecords, Reasons
  <2>6. journal' = Append(journal, r) /\ hist' = Append(hist, Now')
    BY <2>1 DEF Log, Now
  <2>7. \A x \in Entry : mft[x].seq <= mft'[x].seq
          /\ (mft'[x].seq = mft[x].seq /\ mft[x].inUse => mft'[x].inUse)
    <3> SUFFICES ASSUME NEW x \in Entry
                 PROVE  mft[x].seq <= mft'[x].seq
                        /\ (mft'[x].seq = mft[x].seq /\ mft[x].inUse => mft'[x].inUse)
      OBVIOUS
    <3>1. CASE x = e BY <1>2, <2>2, <3>1
    <3>2. CASE x # e BY <1>2, <2>3, <3>2
    <3> QED BY <3>1, <3>2
  <2>8. Goal(r)
    BY <2>2, <2>4, <2>6, <2>7
  <2> QED BY <2>5, <2>8
<1>12. PICK r \in UsnRecords : Goal(r)
  BY <1>1, <1>5, <1>6, <1>8, <1>9, <1>10, <1>11, ZenonT(30)
<1> QED BY <1>12

\* A record in use has a name.
LEMMA LiveNamed ==
  ASSUME VolTypeOK, VolNext, \A e \in Entry : mft[e].inUse => mft[e].info.name \in Name
  PROVE  \A e \in Entry : mft'[e].inUse => mft'[e].info.name \in Name
<1>1. PICK e \in Entry :
        \/ \E p \in LiveKeys(mft) \cup {Root}, n \in Name :
             Create(e, p, n) \/ RenameNew(e, p, n)
        \/ Write(e) \/ Close(e) \/ RenameOld(e) \/ Delete(e)
  BY DEF VolNext
<1>2. mft \in [Entry -> Files]
  BY DEF VolTypeOK
<1>3. ASSUME NEW p, NEW n \in Name, Create(e, p, n) \/ RenameNew(e, p, n)
      PROVE  \A x \in Entry : mft'[x].inUse => mft'[x].info.name \in Name
  <2>1. mft'[e].info = EntryInfo(n, p) /\ \A x \in Entry \ {e} : mft'[x] = mft[x]
    BY <1>2, <1>3 DEF Create, RenameNew, Allocated, Renamed, Files
  <2>2. mft'[e].info.name = n
    BY <2>1 DEF EntryInfo
  <2> QED BY <2>1, <2>2
<1>4. CASE Write(e) \/ Close(e) \/ RenameOld(e)
  BY <1>4 DEF Write, Close, RenameOld
<1>5. CASE Delete(e)
  <2>1. ~mft'[e].inUse /\ \A x \in Entry \ {e} : mft'[x] = mft[x]
    BY <1>2, <1>5, SMTT(30) DEF Delete, Freed, Files
  <2> QED BY <2>1
<1> QED BY <1>1, <1>3, <1>4, <1>5, Zenon

\* The fit of journal and ground truth survives every event of the volume.
LEMMA HistStep ==
  ASSUME TInv, HistOK, VolNext
  PROVE  HistOK'
<1> DEFINE N == Len(hist)
<1>1. VolTypeOK /\ hist \in Seq(Snapshots) /\ journal \in Seq(UsnRecords)
      /\ mft \in [Entry -> Files] /\ mft' \in [Entry -> Files]
  BY VolumeType DEF TInv, TypeOK, VolTypeOK
<1>2. PICK r \in UsnRecords : journal' = Append(journal, r) /\ Explains(Now, r, Now')
  BY <1>1, VolumeExplains
<1>3. hist' = Append(hist, Now')
  BY <1>1, VolumeExplains
<1>4. \A x \in Entry : /\ mft[x].seq \in Nat /\ mft'[x].seq \in Nat
                       /\ mft[x].seq <= mft'[x].seq
                       /\ mft'[x].seq = mft[x].seq /\ mft[x].inUse => mft'[x].inUse
  BY <1>1, VolumeExplains DEF Files
<1>5. \A k \in LiveKeys(mft') \ LiveKeys(mft) :
        k.entry \in Entry /\ k.sequence = mft[k.entry].seq /\ ~mft[k.entry].inUse
  BY <1>1, VolumeExplains
<1>6. /\ N = Len(journal) + 1 /\ N \in Nat /\ Len(journal) \in Nat
      /\ hist[N] = Now
  <2>1. N = Len(journal) + 1 /\ hist[N] = Now
    BY DEF HistOK, Now
  <2>2. N \in Nat /\ Len(journal) \in Nat
    BY <1>1
  <2> QED BY <2>1, <2>2
<1>7. /\ Len(hist') = N + 1 /\ hist'[N + 1] = Now'
      /\ \A i \in 1 .. N : hist'[i] = hist[i]
  BY <1>1, <1>3, <1>6
<1>8. /\ Len(journal') = N /\ journal'[N] = r
      /\ \A i \in 1 .. Len(journal) : journal'[i] = journal[i]
  BY <1>1, <1>2, <1>6
<1>9. DOMAIN Now'.live = LiveKeys(mft') /\ DOMAIN hist[N].live = LiveKeys(mft)
  <2>1. Now'.live = Live(mft') /\ hist[N].live = Live(mft)
    BY <1>6 DEF Now
  <2> QED BY <2>1, LiveFacts
<1>10. \A i \in 1 .. Len(journal') : Explains(hist'[i], journal'[i], hist'[i + 1])
  <2>1. \A i \in 1 .. Len(journal) : Explains(hist'[i], journal'[i], hist'[i + 1])
    BY <1>6, <1>7, <1>8 DEF HistOK
  <2>2. Explains(hist'[N], journal'[N], hist'[N + 1])
    BY <1>2, <1>6, <1>7, <1>8
  <2> QED BY <1>6, <1>8, <2>1, <2>2
<1>11. \A i \in 1 .. Len(hist') : \A k \in DOMAIN hist'[i].live :
         /\ k.entry \in Entry
         /\ k.sequence <= mft'[k.entry].seq
         /\ k.sequence = mft'[k.entry].seq => mft'[k.entry].inUse
  <2> SUFFICES ASSUME NEW i \in 1 .. Len(hist'), NEW k \in DOMAIN hist'[i].live
               PROVE  /\ k.entry \in Entry
                      /\ k.sequence <= mft'[k.entry].seq
                      /\ k.sequence = mft'[k.entry].seq => mft'[k.entry].inUse
    OBVIOUS
  <2>1. CASE i = N + 1
    <3>1. k \in LiveKeys(mft')
      BY <1>7, <1>9, <2>1
    <3>2. k.entry \in Entry /\ mft'[k.entry].inUse
          /\ k = EntryKey(k.entry, mft'[k.entry].seq)
      BY <3>1, LiveFacts
    <3>3. k.sequence = mft'[k.entry].seq
      BY <3>2 DEF EntryKey
    <3> QED BY <1>4, <3>2, <3>3
  <2>2. CASE i # N + 1
    <3>1. i \in 1 .. N /\ k \in DOMAIN hist[i].live
      BY <1>6, <1>7, <2>2
    <3>2. k.entry \in Entry /\ k.sequence <= mft[k.entry].seq
          /\ (k.sequence = mft[k.entry].seq => mft[k.entry].inUse)
      BY <3>1 DEF HistOK
    <3>3. k \in Keys
      BY <1>1, <3>1 DEF VolTypeOK, IsTable
    <3>4. k.sequence \in Nat
      BY <3>3 DEF Keys
    <3> QED BY <1>4, <3>2, <3>4, SMTT(30)
  <2> QED BY <2>1, <2>2
<1>12. \A i \in 1 .. Len(hist') : \A m \in i .. Len(hist') : \A j \in i .. m :
         DOMAIN hist'[i].live \cap DOMAIN hist'[m].live \subseteq DOMAIN hist'[j].live
  <2> SUFFICES ASSUME NEW i \in 1 .. N + 1, NEW m \in i .. N + 1, NEW j \in i .. m,
                      NEW k, k \in DOMAIN hist'[i].live, k \in DOMAIN hist'[m].live
               PROVE  k \in DOMAIN hist'[j].live
    BY <1>7
  <2>1. CASE m # N + 1
    <3>1. i \in 1 .. N /\ m \in i .. N /\ m \in 1 .. N /\ j \in 1 .. N
      BY <1>6, <2>1
    <3>2. k \in DOMAIN hist[i].live \cap DOMAIN hist[m].live
      BY <1>7, <3>1
    <3>3. k \in DOMAIN hist[j].live
      BY <3>1, <3>2 DEF HistOK
    <3> QED BY <1>7, <3>1, <3>3
  <2>2. CASE j = m
    BY <2>2
  <2>3. CASE m = N + 1 /\ j # m
    <3>1. i \in 1 .. N /\ j \in i .. N /\ j \in 1 .. N /\ N \in i .. N
      BY <1>6, <2>3
    <3>2. k \in DOMAIN hist[i].live /\ k \in LiveKeys(mft')
      BY <1>7, <1>9, <2>3, <3>1
    <3>3. ~(k.entry \in Entry /\ k.sequence = mft[k.entry].seq /\ ~mft[k.entry].inUse)
      BY <3>1, <3>2 DEF HistOK
    <3>4. k \in DOMAIN hist[N].live
      BY <1>5, <1>9, <3>2, <3>3
    <3>5. k \in DOMAIN hist[j].live
      BY <3>1, <3>2, <3>4 DEF HistOK
    <3> QED BY <1>7, <3>1, <3>5
  <2> QED BY <2>1, <2>2, <2>3
<1>13. hist'[Len(hist')] = [live |-> Live(mft'), renaming |-> renaming']
  BY <1>6, <1>7, SMTT(30) DEF Now
<1>14. \A e \in Entry : mft'[e].inUse => mft'[e].info.name \in Name
  BY <1>1, LiveNamed DEF HistOK
<1> QED BY <1>6, <1>7, <1>8, <1>10, <1>11, <1>12, <1>13, <1>14 DEF HistOK
=============================================================================
