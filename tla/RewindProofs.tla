---------------------------- MODULE RewindProofs ----------------------------
(***************************************************************************)
(* Proof that, for version 2 records and a table seeded from the $MFT alone, *)
(* both passes of the Rewind engine agree with the volume.                  *)
(***************************************************************************)
EXTENDS HistoryProofs

-----------------------------------------------------------------------------
(* One iteration of each pass.                                              *)

\* A table right about every file of h that is not half-way through a rename.
Agrees(lk, h) ==
  \A k \in DOMAIN h.live \ h.renaming : k \in DOMAIN lk /\ lk[k] = h.live[k]

\* Learning and replaying a record touch only the record's key.
LEMMA LearnFacts ==
  \A lk, r : /\ DOMAIN Learn(lk, r) = DOMAIN lk \cup {r.key}
             /\ "RENAME_OLD_NAME" \in r.reason \/ r.key \notin DOMAIN lk
                  => Learn(lk, r)[r.key] = r.info
             /\ \A x \in DOMAIN lk :
                  x # r.key \/ "RENAME_OLD_NAME" \notin r.reason
                    => Learn(lk, r)[x] = lk[x]
<1> TAKE lk, r
<1> DEFINE old == "RENAME_OLD_NAME" \in r.reason
<1>1. old => Learn(lk, r) = Insert(lk, r.key, r.info)
  BY DEF Learn
<1>2. ~old => Learn(lk, r) = OrInsert(lk, r.key, r.info)
  BY DEF Learn
<1> HIDE DEF old
<1>3. DOMAIN Learn(lk, r) = DOMAIN lk \cup {r.key}
  <2>1. CASE old
    <3>1. DOMAIN Insert(lk, r.key, r.info) = DOMAIN lk \cup {r.key}
      BY InsertDomain, Zenon
    <3> QED BY <1>1, <2>1, <3>1
  <2>2. CASE ~old
    <3>1. DOMAIN OrInsert(lk, r.key, r.info) = DOMAIN lk \cup {r.key}
      BY OrInsertDomain, Zenon
    <3> QED BY <1>2, <2>2, <3>1
  <2> QED BY <2>1, <2>2
<1>4. old \/ r.key \notin DOMAIN lk => Learn(lk, r)[r.key] = r.info
  BY <1>1, <1>2, InsertFacts, OrInsertFacts
<1>5. \A x \in DOMAIN lk : x # r.key \/ ~old => Learn(lk, r)[x] = lk[x]
  BY <1>1, <1>2, InsertFacts, OrInsertFacts
<1> QED BY <1>3, <1>4, <1>5 DEF old

\* The parts of LearnFacts.
LEMMA LearnOwn ==
  \A lk, r : "RENAME_OLD_NAME" \in r.reason \/ r.key \notin DOMAIN lk
               => Learn(lk, r)[r.key] = r.info
BY LearnFacts, Zenon

\* Phase 1 leaves every other entry of the table alone.
LEMMA LearnOther ==
  \A lk, r : \A x \in DOMAIN lk : x # r.key \/ "RENAME_OLD_NAME" \notin r.reason
                                   => Learn(lk, r)[x] = lk[x]
BY LearnFacts, Zenon

\* Phase 1 adds the record's key to the table and no other.
LEMMA LearnDomain ==
  \A lk, r : DOMAIN Learn(lk, r) = DOMAIN lk \cup {r.key}
BY LearnFacts, Zenon

\* Phase 2 touches only the record's key: RENAME_NEW_NAME and FILE_CREATE
\* overwrite it, any other record only fills a gap.
LEMMA ReplayFacts ==
  \A lk, r : /\ DOMAIN Replay(lk, r) = DOMAIN lk \cup {r.key}
             /\ (\/ "RENAME_NEW_NAME" \in r.reason
                 \/ "FILE_CREATE" \in r.reason
                 \/ r.key \notin DOMAIN lk
                 \/ lk[r.key] = r.info) => Replay(lk, r)[r.key] = r.info
             /\ \A x \in DOMAIN lk \ {r.key} : Replay(lk, r)[x] = lk[x]
<1> TAKE lk, r
<1> DEFINE new == "RENAME_NEW_NAME" \in r.reason \/ "FILE_CREATE" \in r.reason
<1>1. new => Replay(lk, r) = Insert(lk, r.key, r.info)
  BY DEF Replay
<1>2. ~new => Replay(lk, r) = OrInsert(lk, r.key, r.info)
  BY DEF Replay
<1> HIDE DEF new
<1>3. DOMAIN Replay(lk, r) = DOMAIN lk \cup {r.key}
  <2>1. CASE new
    <3>1. DOMAIN Insert(lk, r.key, r.info) = DOMAIN lk \cup {r.key}
      BY InsertDomain, Zenon
    <3> QED BY <1>1, <2>1, <3>1
  <2>2. CASE ~new
    <3>1. DOMAIN OrInsert(lk, r.key, r.info) = DOMAIN lk \cup {r.key}
      BY OrInsertDomain, Zenon
    <3> QED BY <1>2, <2>2, <3>1
  <2> QED BY <2>1, <2>2
<1>4. new \/ r.key \notin DOMAIN lk \/ lk[r.key] = r.info
        => Replay(lk, r)[r.key] = r.info
  <2>1. CASE new
    BY <1>1, <2>1, InsertFacts
  <2>2. CASE ~new
    BY <1>2, <2>2, OrInsertFacts
  <2> QED BY <2>1, <2>2
<1>5. \A x \in DOMAIN lk \ {r.key} : Replay(lk, r)[x] = lk[x]
  BY <1>1, <1>2, InsertFacts, OrInsertFacts
<1> QED BY <1>3, <1>4, <1>5 DEF new

\* The parts of ReplayFacts.
LEMMA ReplayOwn ==
  \A lk, r : (\/ "RENAME_NEW_NAME" \in r.reason
              \/ "FILE_CREATE" \in r.reason
              \/ r.key \notin DOMAIN lk
              \/ lk[r.key] = r.info) => Replay(lk, r)[r.key] = r.info
BY ReplayFacts, Zenon

\* Phase 2 leaves every other entry of the table alone.
LEMMA ReplayOther ==
  \A lk, r : \A x \in DOMAIN lk \ {r.key} : Replay(lk, r)[x] = lk[x]
BY ReplayFacts, Zenon

\* Phase 2 adds the record's key to the table and no other.
LEMMA ReplayDomain ==
  \A lk, r : DOMAIN Replay(lk, r) = DOMAIN lk \cup {r.key}
BY ReplayFacts, Zenon

\* Phase 1, one record back: a table right after the record becomes one right
\* before it, unless the table holds a file the record deletes.
LEMMA LearnStep ==
  ASSUME NEW a, NEW r, NEW b, NEW lk, Explains(a, r, b), Agrees(lk, b),
         r.key \in DOMAIN lk /\ r.key \in DOMAIN a.live => r.key \in DOMAIN b.live
  PROVE  Agrees(Learn(lk, r), a)
<1> SUFFICES ASSUME NEW k \in DOMAIN a.live \ a.renaming
             PROVE  k \in DOMAIN Learn(lk, r) /\ Learn(lk, r)[k] = a.live[k]
  BY DEF Agrees
<1> SUFFICES Learn(lk, r)[k] = a.live[k] /\ (k \in DOMAIN lk \/ k = r.key)
  BY LearnDomain, ZenonT(30)
<1>1. CASE k # r.key
  <2>1. k \in DOMAIN b.live \ b.renaming /\ b.live[k] = a.live[k]
    BY <1>1 DEF Explains, SameExcept
  <2>2. k \in DOMAIN lk /\ lk[k] = b.live[k]
    BY <2>1 DEF Agrees
  <2> QED BY <1>1, <2>1, <2>2, LearnOther
<1>2. CASE k = r.key
  <2>1. /\ a.live[k] = r.info
        /\ k \in DOMAIN b.live => b.live[k] = r.info
        /\ k \in b.renaming => "RENAME_OLD_NAME" \in r.reason
    BY <1>2 DEF Explains
  <2>2. CASE "RENAME_OLD_NAME" \in r.reason \/ k \notin DOMAIN lk
    BY <1>2, <2>1, <2>2, LearnOwn
  <2>3. CASE "RENAME_OLD_NAME" \notin r.reason /\ k \in DOMAIN lk
    <3>1. k \in DOMAIN b.live \ b.renaming
      BY <1>2, <2>1, <2>3
    <3>2. lk[k] = r.info
      BY <2>1, <3>1 DEF Agrees
    <3> QED BY <1>2, <2>1, <2>3, <3>2, LearnOther
  <2> QED BY <2>2, <2>3
<1> QED BY <1>1, <1>2

\* A table right about every live file outside B.
RightOutside(B, lk, live) ==
  \A k \in DOMAIN live \ B : k \in DOMAIN lk /\ lk[k] = live[k]

\* Phase 2, one record on: a table right about every file outside B stays so,
\* and the record's own file leaves B.
LEMMA ReplayStep ==
  \A a, r, b, lk, B :
    /\ Explains(a, r, b)
    /\ B \subseteq a.renaming
    /\ RightOutside(B, lk, a.live)
    => /\ RightOutside(B \ {r.key}, Replay(lk, r), b.live)
       /\ B \ {r.key} \subseteq b.renaming
<1> USE DEF RightOutside
<1> TAKE a, r, b, lk, B
<1> HAVE Explains(a, r, b) /\ B \subseteq a.renaming /\ RightOutside(B, lk, a.live)
<1>1. B \ {r.key} \subseteq b.renaming
  BY DEF Explains
<1>2. ASSUME NEW k \in DOMAIN b.live \ (B \ {r.key})
      PROVE  k \in DOMAIN Replay(lk, r) /\ Replay(lk, r)[k] = b.live[k]
  <2> SUFFICES Replay(lk, r)[k] = b.live[k] /\ (k \in DOMAIN lk \/ k = r.key)
    <3>1. DOMAIN Replay(lk, r) = DOMAIN lk \cup {r.key}
      BY ReplayDomain, ZenonT(30)
    <3> QED BY <3>1
  <2>1. CASE k # r.key
    <3>1. k \in DOMAIN a.live \ B /\ b.live[k] = a.live[k]
      BY <2>1 DEF Explains, SameExcept
    <3>2. k \in DOMAIN lk \ {r.key} /\ lk[k] = a.live[k]
      BY <2>1, <3>1
    <3> QED BY <3>1, <3>2, ReplayOther
  <2>2. CASE k = r.key
    <3>1. b.live[k] = r.info
      BY <2>2 DEF Explains
    <3>2. \/ "RENAME_NEW_NAME" \in r.reason
          \/ "FILE_CREATE" \in r.reason
          \/ k \in DOMAIN a.live \ a.renaming /\ a.live[k] = r.info
      BY <2>2 DEF Explains
    <3>3. \/ "RENAME_NEW_NAME" \in r.reason
          \/ "FILE_CREATE" \in r.reason
          \/ lk[r.key] = r.info
      BY <2>2, <3>2
    <3>4. Replay(lk, r)[r.key] = r.info
      BY <3>3, ReplayOwn
    <3> QED BY <2>2, <3>1, <3>4
  <2> QED BY <2>1, <2>2
<1> QED BY <1>1, <1>2

-----------------------------------------------------------------------------
(* The two passes agree with the volume.                                    *)

\* A version 2 record parses to what the volume wrote.
LEMMA ParseV2 ==
  ASSUME Version = 2, NEW r \in UsnRecords
  PROVE  parse_usn_record(r) = r
<1>1. r = [key |-> r.key, info |-> r.info, reason |-> r.reason]
      /\ r.info \in Infos
  BY DEF UsnRecords
<1>2. r.info = [name |-> r.info.name, parent |-> r.info.parent]
  BY <1>1 DEF Infos
<1> QED BY <1>1, <1>2 DEF parse_usn_record, file_reference, EntryInfo

\* Facts about hist that every step of the engine uses.
LEMMA HistFacts ==
  ASSUME TInv, HistOK
  PROVE  /\ Len(journal) \in Nat /\ Len(hist) = Len(journal) + 1
         /\ hist[Len(journal) + 1] = Now
         /\ \A i \in 1 .. Len(journal) : /\ journal[i] \in UsnRecords
                                         /\ Explains(hist[i], journal[i], hist[i + 1])
<1>1. journal \in Seq(UsnRecords)
  BY DEF TInv, TypeOK, VolTypeOK
<1>2. Len(journal) \in Nat /\ \A i \in 1 .. Len(journal) : journal[i] \in UsnRecords
  BY <1>1
<1>3. Len(hist) = Len(journal) + 1 /\ hist[Len(hist)] = Now
  BY DEF HistOK, Now
<1>4. \A i \in 1 .. Len(journal) : Explains(hist[i], journal[i], hist[i + 1])
  BY DEF HistOK
<1> QED BY <1>2, <1>3, <1>4

\* The $MFT as seed: right about every live file, and its free records hold
\* keys no file ever had.
LEMMA SeedOK ==
  ASSUME TInv, HistOK
  PROVE  /\ Agrees(seed_rewind(mft), Now)
         /\ \A k \in DOMAIN seed_rewind(mft) : \A i \in 1 .. Len(hist) :
              k \in DOMAIN hist[i].live => k \in DOMAIN Now.live
<1> DEFINE sd == seed_rewind(mft)
           Named == {e \in Entry : mft[e].info.name # NoName}
<1>1. mft \in [Entry -> Files]
  BY DEF TInv, TypeOK, VolTypeOK
<1>2. DOMAIN sd = {KeyOf(mft, e) : e \in Named}
      /\ \A k \in DOMAIN sd : sd[k] = mft[k.entry].info
  BY ZenonT(30) DEF seed_rewind
<1>3. DOMAIN Now.live = LiveKeys(mft) /\ Now.live = Live(mft)
  BY LiveFacts DEF Now
<1> HIDE DEF sd
<1>4. ASSUME NEW k \in DOMAIN Now.live \ Now.renaming
      PROVE  k \in DOMAIN sd /\ sd[k] = Now.live[k]
  <2>1. /\ k.entry \in Entry /\ mft[k.entry].inUse
        /\ k = KeyOf(mft, k.entry) /\ Now.live[k] = mft[k.entry].info
    BY <1>3, LiveFacts DEF KeyOf
  <2>2. mft[k.entry].info.name # NoName
    BY <2>1, EntryAssumption DEF HistOK
  <2>3. k \in DOMAIN sd
    BY <1>2, <2>1, <2>2
  <2> QED BY <1>2, <2>1, <2>3
<1>5. ASSUME NEW k \in DOMAIN sd, NEW i \in 1 .. Len(hist), k \in DOMAIN hist[i].live
      PROVE  k \in DOMAIN Now.live
  <2>1. PICK e \in Entry : k = KeyOf(mft, e)
    BY <1>2
  <2>2. k.entry = e /\ k.sequence = mft[e].seq
    BY <2>1 DEF KeyOf, EntryKey
  <2>3. mft[e].inUse
    BY <1>5, <2>2 DEF HistOK
  <2> QED BY <1>3, <2>1, <2>3, LiveFacts
<1> QED BY <1>4, <1>5 DEF Agrees, sd

\* Init establishes the inductive invariant.
LEMMA InitIInv == Init => IInv
<1> SUFFICES ASSUME Init PROVE IInv
  OBVIOUS
<1> USE DEF Init, VolInit, EngineInit
<1>1. \A e \in Entry : ~mft[e].inUse
  OBVIOUS
<1>2. Len(journal) = 0 /\ Len(hist) = 1 /\ hist[1] = Now
  BY DEF Now
<1>3. DOMAIN hist[1].live = {}
  BY <1>1, <1>2, LiveFacts, ZenonT(30) DEF Now, LiveKeys
<1>4. HistOK
  <2>1. /\ Len(hist) = Len(journal) + 1
        /\ hist[Len(hist)] = [live |-> Live(mft), renaming |-> renaming]
    BY <1>2 DEF Now
  <2>2. \A i \in 1 .. Len(hist) : DOMAIN hist[i].live = {}
    BY <1>2, <1>3
  <2>3. \A i \in 1 .. Len(journal) : FALSE
    BY <1>2
  <2> QED BY <1>1, <2>1, <2>2, <2>3 DEF HistOK
<1> QED BY <1>4 DEF IInv, WindowOK, LookupOK, BlindOK, ForwardAgrees

\* Level, phase by phase.
LEMMA LevelFacts ==
  /\ phase \in {"new", "seeded"} => Level = Len(journal)
  /\ phase = "reverse" => Level = cut + pos
  /\ phase \in {"forward", "done"} => Level = cut
BY DEF Level

\* The state of the table at a level of the volume's life.
TableAt(h, lk, n) ==
  /\ Agrees(lk, h[n + 1])
  /\ \A k \in DOMAIN lk : \A i \in 1 .. n + 1 :
       k \in DOMAIN h[i].live => k \in DOMAIN h[n + 1].live

\* LookupOK says the engine's lookup is right at its level.
LEMMA LookupIsTableAt == LookupOK <=> (phase # "new" => TableAt(hist, lookup, Level))
BY DEF LookupOK, TableAt, Agrees

\* Phase 1 takes the table one level down.
LEMMA TableDown ==
  ASSUME TInv, HistOK, NEW n \in 1 .. Len(journal)
  PROVE  \A lk : TableAt(hist, lk, n) => TableAt(hist, Learn(lk, journal[n]), n - 1)
<1> TAKE lk
<1> HAVE TableAt(hist, lk, n)
<1> DEFINE r == journal[n]
           a == hist[n]
           b == hist[n + 1]
<1>1. Explains(a, r, b) /\ Agrees(lk, b)
  BY HistFacts DEF TableAt
<1>2. n \in 1 .. n + 1 /\ n - 1 + 1 = n /\ Len(hist) = Len(journal) + 1
      /\ n \in Nat /\ Len(journal) \in Nat
  BY HistFacts
<1>3. \A k \in DOMAIN lk : \A i \in 1 .. n + 1 :
        k \in DOMAIN hist[i].live => k \in DOMAIN b.live
  BY DEF TableAt
<1>4. r.key \in DOMAIN lk /\ r.key \in DOMAIN a.live => r.key \in DOMAIN b.live
  BY <1>2, <1>3
<1>5. DOMAIN Learn(lk, r) = DOMAIN lk \cup {r.key}
  BY LearnDomain, ZenonT(30)
<1>6. \A i \in 1 .. n : DOMAIN hist[i].live \cap DOMAIN b.live \subseteq DOMAIN a.live
  <2>1. \A i \in 1 .. n : i \in 1 .. Len(hist) /\ n + 1 \in i .. Len(hist) /\ n \in i .. n + 1
    BY <1>2
  <2> QED BY <2>1 DEF HistOK
<1> HIDE DEF a, b, r
<1>7. Agrees(Learn(lk, r), a)
  BY <1>1, <1>4, LearnStep
<1>8. ASSUME NEW k \in DOMAIN Learn(lk, r), NEW i \in 1 .. n, k \in DOMAIN hist[i].live
      PROVE  k \in DOMAIN a.live
  <2>1. CASE k \in DOMAIN lk
    <3>1. k \in DOMAIN b.live
      BY <1>2, <1>3, <1>8, <2>1
    <3> QED BY <1>6, <1>8, <3>1
  <2>2. CASE k = r.key
    <3>1. k \in DOMAIN a.live \/ k \in DOMAIN b.live
      BY <1>1, <2>2 DEF Explains
    <3> QED BY <1>6, <1>8, <3>1
  <2> QED BY <1>5, <2>1, <2>2
<1> QED BY <1>2, <1>7, <1>8 DEF TableAt, a, r

\* Only the volume writes what HistOK speaks of.
LEMMA HistKept ==
  ASSUME HistOK, UNCHANGED volVars
  PROVE  HistOK'
<1>1. mft' = mft /\ journal' = journal /\ hist' = hist /\ renaming' = renaming
  BY DEF volVars
<1> QED BY <1>1 DEF HistOK

\* A call of rewind on the records from level n up to the table's own level.
LEMMA RewindCall ==
  ASSUME Version = 2, TInv, IInv, NEW n \in Nat, NEW top \in Nat,
         n <= top, top <= Len(journal), TableAt(hist, lookup, top),
         cut' = n, rewind(Window(n, top)), UNCHANGED volVars
  PROVE  IInv'
<1>1. journal \in Seq(UsnRecords) /\ Len(journal) \in Nat
  BY DEF TInv, TypeOK, VolTypeOK
<1>2. Len(Window(n, top)) = top - n
  BY <1>1, WindowType
<1>3. \A i \in 1 .. top - n : Window(n, top)[i] = journal[n + i]
  <2>1. \A i \in 1 .. top - n : journal[n + i] \in UsnRecords
    BY <1>1
  <2>2. \A i \in 1 .. top - n : parse_usn_record(journal[n + i]) = journal[n + i]
    BY <2>1, ParseV2
  <2> QED BY <2>2, ZenonT(30) DEF Window
<1>4. /\ phase' = "reverse" /\ records' = Window(n, top) /\ pos' = top - n
      /\ cut' = n /\ lookup' = lookup
  BY <1>2 DEF rewind
<1>5. journal' = journal /\ hist' = hist
  BY DEF volVars
<1>6. Level' = top
  BY <1>4 DEF Level
<1>7. WindowOK'
  BY <1>1, <1>2, <1>3, <1>4, <1>5 DEF WindowOK
<1>8. LookupOK'
  BY <1>4, <1>5, <1>6 DEF LookupOK, TableAt, Agrees
<1>9. BlindOK' /\ ForwardAgrees'
  BY <1>4 DEF BlindOK, ForwardAgrees
<1>10. HistOK'
  BY HistKept DEF IInv
<1> QED BY <1>7, <1>8, <1>9, <1>10 DEF IInv

\* The record at position p of the window and the truth around it.
LEMMA WindowFacts ==
  ASSUME TInv, IInv, phase \in {"reverse", "forward", "done"},
         NEW p \in 1 .. Len(records)
  PROVE  /\ cut \in Nat /\ cut + p \in 1 .. Len(journal)
         /\ records[p] = journal[cut + p]
         /\ Explains(Truth(p - 1), records[p], Truth(p))
<1>1. /\ cut \in Nat /\ records \in Seq(UsnRecords) /\ Len(journal) \in Nat
      /\ cut + Len(records) <= Len(journal) /\ records[p] = journal[cut + p]
  BY DEF TInv, TypeOK, VolTypeOK, IInv, WindowOK
<1>2. cut + p \in 1 .. Len(journal) /\ p \in Nat /\ cut + (p - 1) + 1 = cut + p
  BY <1>1
<1>3. Explains(hist[cut + p], journal[cut + p], hist[cut + p + 1])
  BY <1>2, HistFacts DEF IInv
<1> QED BY <1>1, <1>2, <1>3 DEF Truth

\* A file stops being blind at the first record of its own.
LEMMA BlindStep ==
  ASSUME NEW p \in Nat
  PROVE  Blind(p + 1) = Blind(p) \ {TrueEvent(p + 1).key}
<1>1. 1 .. p + 1 = (1 .. p) \cup {p + 1}
  OBVIOUS
<1> QED BY <1>1 DEF Blind

\* Before any record of the window, the files of unknown name are those that
\* were being renamed.
LEMMA BlindStart == Blind(0) = Truth(0).renaming
<1>1. 1 .. 0 = {}
  OBVIOUS
<1> QED BY <1>1 DEF Blind

\* Every step of the engine keeps the inductive invariant.
LEMMA EngineIInv ==
  ASSUME TInv, IInv, EngineNext, UNCHANGED <<volVars, cut, carved>>
  PROVE  IInv'
<1>1. /\ pos \in 0 .. Len(records) /\ Len(records) \in Nat /\ cut \in Nat
      /\ phase \in Phases
  BY DEF TInv, TypeOK
<1>2. hist' = hist /\ journal' = journal /\ cut' = cut /\ HistOK'
  BY HistKept DEF IInv, volVars
<1>3. records' = records
  BY DEF EngineNext, ReverseStep, StartForward, ForwardStep, Return
<1>4. CASE ReverseStep
  <2>1. /\ phase = "reverse" /\ phase' = "reverse" /\ pos \in 1 .. Len(records)
        /\ pos' = pos - 1 /\ lookup' = Learn(lookup, records[pos])
    BY <1>1, <1>4 DEF ReverseStep
  <2>2. cut + pos \in 1 .. Len(journal) /\ records[pos] = journal[cut + pos]
    BY <2>1, WindowFacts
  <2>3. TableAt(hist, lookup, cut + pos)
    BY <2>1, LevelFacts, LookupIsTableAt DEF IInv
  <2>4. TableAt(hist, lookup', cut + pos - 1)
    <3> DEFINE n == cut + pos
    <3>1. n \in 1 .. Len(journal) /\ HistOK /\ TableAt(hist, lookup, n)
      BY <2>2, <2>3 DEF IInv
    <3>2. lookup' = Learn(lookup, journal[n])
      BY <2>1, <2>2
    <3> HIDE DEF n
    <3>3. \A lk : TableAt(hist, lk, n) => TableAt(hist, Learn(lk, journal[n]), n - 1)
      BY <3>1, TableDown
    <3>4. TableAt(hist, lookup', n - 1)
      BY <3>1, <3>2, <3>3
    <3> QED BY <1>1, <3>4 DEF n
  <2>5. Level' = cut + pos - 1
    BY <1>1, <1>2, <2>1, SMTT(30) DEF Level
  <2>6. LookupOK'
    BY <1>2, <2>4, <2>5 DEF LookupOK, TableAt, Agrees
  <2>7. WindowOK' /\ BlindOK' /\ ForwardAgrees'
    BY <1>2, <1>3, <2>1 DEF IInv, WindowOK, BlindOK, ForwardAgrees
  <2> QED BY <1>2, <2>6, <2>7 DEF IInv
<1>5. CASE StartForward
  <2>1. /\ phase = "reverse" /\ phase' = "forward" /\ pos = 0 /\ pos' = 0
        /\ lookup' = lookup /\ forward_lookup' = lookup
    BY <1>5 DEF StartForward
  <2>2. Level = cut /\ Level' = cut
    BY <1>1, <1>2, <2>1 DEF Level
  <2>3. TableAt(hist, lookup, cut)
    BY <2>1, <2>2, LookupIsTableAt DEF IInv
  <2>4. LookupOK'
    BY <1>2, <2>1, <2>2, <2>3 DEF LookupOK, TableAt, Agrees
  <2>5. Truth(0) = hist[cut + 1] /\ Truth(0)' = Truth(0) /\ Blind(0)' = Blind(0)
    BY <1>1, <1>2 DEF Truth, Blind, TrueEvent
  <2>6. ForwardAgrees' /\ BlindOK'
    BY <2>1, <2>3, <2>5, BlindStart DEF ForwardAgrees, BlindOK, TableAt, Agrees
  <2>7. WindowOK'
    BY <1>2, <1>3, <2>1 DEF IInv, WindowOK
  <2> QED BY <1>2, <2>4, <2>6, <2>7 DEF IInv
<1>6. CASE ForwardStep
  <2> DEFINE r == records[pos + 1]
  <2>1. /\ phase = "forward" /\ phase' = "forward" /\ pos + 1 \in 1 .. Len(records)
        /\ pos' = pos + 1 /\ lookup' = lookup
        /\ forward_lookup' = Replay(forward_lookup, r)
    BY <1>1, <1>6 DEF ForwardStep
  <2>2. r = journal[cut + (pos + 1)] /\ Explains(Truth(pos), r, Truth(pos + 1))
    <3> DEFINE p == pos + 1
    <3>1. p \in 1 .. Len(records) /\ p - 1 = pos
      BY <1>1, <2>1
    <3> HIDE DEF p
    <3>2. records[p] = journal[cut + p] /\ Explains(Truth(p - 1), records[p], Truth(p))
      BY <2>1, <3>1, WindowFacts
    <3> QED BY <3>1, <3>2 DEF p
  <2>3. Blind(pos + 1) = Blind(pos) \ {r.key}
    BY <1>1, <2>2, BlindStep DEF TrueEvent
  <2>4. /\ Blind(pos) \subseteq Truth(pos).renaming
        /\ RightOutside(Blind(pos), forward_lookup, Truth(pos).live)
    BY <2>1 DEF IInv, BlindOK, ForwardAgrees, RightOutside
  <2> HIDE DEF r
  <2>5. /\ Blind(pos + 1) \subseteq Truth(pos + 1).renaming
        /\ RightOutside(Blind(pos + 1), Replay(forward_lookup, r), Truth(pos + 1).live)
    <3> DEFINE B == Blind(pos)
               a == Truth(pos)
               b == Truth(pos + 1)
    <3>1. Explains(a, r, b) /\ B \subseteq a.renaming
          /\ RightOutside(B, forward_lookup, a.live)
      BY <2>2, <2>4
    <3> HIDE DEF a, b, B
    <3>2. /\ RightOutside(B \ {r.key}, Replay(forward_lookup, r), b.live)
          /\ B \ {r.key} \subseteq b.renaming
      BY <3>1, ReplayStep, ZenonT(30)
    <3> QED BY <2>3, <3>2 DEF a, b, B
  <2>6. Truth(pos)' = Truth(pos + 1) /\ Blind(pos)' = Blind(pos + 1)
    BY <1>2, <2>1 DEF Truth, Blind, TrueEvent
  <2>7. ForwardAgrees' /\ BlindOK'
    BY <2>1, <2>5, <2>6 DEF ForwardAgrees, BlindOK, RightOutside
  <2>8. LookupOK'
    BY <1>2, <2>1 DEF IInv, LookupOK, Level
  <2>9. WindowOK'
    BY <1>2, <1>3, <2>1 DEF IInv, WindowOK
  <2> QED BY <1>2, <2>7, <2>8, <2>9 DEF IInv
<1>7. CASE Return
  <2>1. /\ phase = "forward" /\ phase' = "done" /\ pos' = pos /\ lookup' = lookup
        /\ forward_lookup' = forward_lookup
    BY <1>7 DEF Return
  <2>2. Truth(pos)' = Truth(pos) /\ Blind(pos)' = Blind(pos)
    BY <1>2, <2>1 DEF Truth, Blind, TrueEvent
  <2>3. ForwardAgrees' /\ BlindOK'
    BY <2>1, <2>2 DEF IInv, ForwardAgrees, BlindOK
  <2>4. LookupOK' /\ WindowOK'
    BY <1>2, <1>3, <2>1 DEF IInv, LookupOK, Level, WindowOK
  <2> QED BY <1>2, <2>3, <2>4 DEF IInv
<1> QED BY <1>4, <1>5, <1>6, <1>7 DEF EngineNext

\* Every step of the volume, the caller and the engine keeps the inductive
\* invariant.
LEMMA NextIInv ==
  ASSUME Version = 2, MaxCarved = 0
  PROVE  TInv /\ IInv /\ [Next]_vars => IInv'
<1> SUFFICES ASSUME TInv, IInv, [Next]_vars PROVE IInv'
  OBVIOUS
<1>1. CASE VolumeRuns
  <2>1. phase' = "new" /\ HistOK'
    BY <1>1, HistStep DEF VolumeRuns, engineVars, IInv
  <2> QED BY <2>1 DEF IInv, WindowOK, LookupOK, BlindOK, ForwardAgrees
<1>2. CASE Seed
  <2>1. phase' = "seeded" /\ lookup' = seed_rewind(mft) /\ hist' = hist
        /\ journal' = journal
    BY <1>2 DEF Seed, from_mft, volVars
  <2>2. HistOK'
    BY <1>2, HistKept DEF Seed, IInv
  <2>3. /\ Len(journal) \in Nat /\ Len(hist) = Len(journal) + 1
        /\ hist[Len(journal) + 1] = Now
    BY HistFacts DEF IInv
  <2>4. TableAt(hist, seed_rewind(mft), Len(journal))
    BY <2>3, SeedOK DEF TableAt, IInv
  <2>5. Level' = Len(journal)
    BY <2>1 DEF Level
  <2>6. LookupOK'
    BY <2>1, <2>4, <2>5 DEF LookupOK, TableAt, Agrees
  <2> QED BY <2>1, <2>2, <2>6 DEF IInv, WindowOK, BlindOK, ForwardAgrees
<1>3. CASE SeedCarved
  BY <1>3 DEF SeedCarved, TInv, TypeOK
<1>4. CASE Rewinds
  <2>1. PICK n \in 0 .. Len(journal) : cut' = n /\ rewind(Window(n, Len(journal)))
    BY <1>4 DEF Rewinds
  <2>2. TableAt(hist, lookup, Len(journal)) /\ UNCHANGED volVars
    BY <1>4, LevelFacts, LookupIsTableAt DEF Rewinds, IInv
  <2>3. Len(journal) \in Nat /\ n \in Nat /\ n <= Len(journal)
    BY HistFacts DEF IInv
  <2> QED BY <2>1, <2>2, <2>3, RewindCall
<1>5. CASE RewindsBatch
  <2>1. PICK n \in 0 .. cut - 1 : cut' = n /\ rewind(Window(n, cut))
    BY <1>5 DEF RewindsBatch
  <2>2. TableAt(hist, lookup, cut) /\ UNCHANGED volVars
    BY <1>5, LevelFacts, LookupIsTableAt DEF RewindsBatch, IInv
  <2>3. cut \in Nat /\ n \in Nat /\ n <= cut /\ cut <= Len(journal)
    BY DEF TInv, TypeOK
  <2> QED BY <2>1, <2>2, <2>3, RewindCall
<1>6. CASE EngineRuns
  BY <1>6, EngineIInv DEF EngineRuns
<1>7. CASE UNCHANGED vars
  <2>1. HistOK'
    BY <1>7, HistKept DEF IInv, vars
  <2> QED BY <1>7, <2>1 DEF IInv, vars, volVars, engineVars, WindowOK, LookupOK, Level,
                           BlindOK, ForwardAgrees, Truth, Blind, TrueEvent
<1> QED BY <1>1, <1>2, <1>3, <1>4, <1>5, <1>6, <1>7 DEF Next, Finished

\* The inductive invariant holds: the journal explains the volume, and the
\* engine's table is right at its level throughout phase 1.
THEOREM Inductive ==
  ASSUME Version = 2, MaxCarved = 0
  PROVE  Spec => []IInv
<1>1. Init => TInv /\ IInv
  BY InitType, InitIInv
<1>2. (TInv /\ IInv) /\ [Next]_vars => (TInv /\ IInv)'
  BY NextType, NextIInv
<1> QED BY <1>1, <1>2, PTL DEF Spec

\* Phase 1 of rewind takes the table back to the start of the window, for
\* every volume history, every window and every split into batches.
THEOREM RewindReachesStart ==
  ASSUME Version = 2, MaxCarved = 0
  PROVE  Spec => []RewoundToStart
<1>1. TypeOK /\ IInv => RewoundToStart
  <2> SUFFICES ASSUME TypeOK, IInv, phase = "forward" PROVE RewoundToStart
    BY DEF RewoundToStart
  <2>1. Agrees(lookup, hist[cut + 1])
    BY LevelFacts, LookupIsTableAt DEF IInv, TableAt
  <2>2. Truth(0) = hist[cut + 1]
    BY DEF Truth, TypeOK
  <2> QED BY <2>1, <2>2 DEF RewoundToStart, Agrees
<1> QED BY <1>1, TypeCorrect, Inductive, PTL

\* Phase 2 of rewind resolves every record against the files live when the
\* record was written.
THEOREM ReplayAgrees ==
  ASSUME Version = 2, MaxCarved = 0
  PROVE  Spec => []ForwardAgrees
<1>1. IInv => ForwardAgrees
  BY DEF IInv
<1> QED BY <1>1, Inductive, PTL
=============================================================================
