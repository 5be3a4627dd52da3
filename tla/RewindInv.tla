----------------------------- MODULE RewindInv ------------------------------
(***************************************************************************)
(* Why the two passes of the Rewind engine are right: the inductive         *)
(* invariant behind RewoundToStart and ForwardAgrees, for journals of       *)
(* version 2 records and tables seeded from the $MFT alone.                 *)
(***************************************************************************)
EXTENDS RewindSystem

\* Two tables that differ at k at most.
SameExcept(a, b, k) ==
  /\ DOMAIN a \ {k} = DOMAIN b \ {k}
  /\ \A j \in DOMAIN a \ {k} : b[j] = a[j]

\* Journal record r explains how the volume went from a to b: only r.key
\* changed, by a create, an event that keeps the name, or half a rename.
Explains(a, r, b) ==
  LET k == r.key
  IN  /\ SameExcept(a.live, b.live, k)
      /\ a.renaming \ {k} = b.renaming \ {k}
      /\ \/ /\ k \notin DOMAIN a.live
            /\ k \in DOMAIN b.live /\ b.live[k] = r.info
            /\ "FILE_CREATE" \in r.reason
         \/ /\ k \in DOMAIN a.live \ a.renaming /\ a.live[k] = r.info
            /\ k \in DOMAIN b.live => b.live[k] = r.info
            /\ k \in b.renaming => "RENAME_OLD_NAME" \in r.reason
         \/ /\ k \in a.renaming \ b.renaming
            /\ k \in DOMAIN b.live /\ b.live[k] = r.info
            /\ "RENAME_NEW_NAME" \in r.reason

\* The journal and the ground truth fit together.  A key is live for one
\* stretch of time: the sequence of a record moves on when it is freed.
HistOK ==
  /\ Len(hist) = Len(journal) + 1
  /\ hist[Len(hist)] = [live |-> Live(mft), renaming |-> renaming]
  /\ \A e \in Entry : mft[e].inUse => mft[e].info.name \in Name
  /\ \A i \in 1 .. Len(journal) : Explains(hist[i], journal[i], hist[i + 1])
  /\ \A i \in 1 .. Len(hist) : \A k \in DOMAIN hist[i].live :
       /\ k.entry \in Entry
       /\ k.sequence <= mft[k.entry].seq
       /\ k.sequence = mft[k.entry].seq => mft[k.entry].inUse
  /\ \A i \in 1 .. Len(hist) : \A m \in i .. Len(hist) : \A j \in i .. m :
       DOMAIN hist[i].live \cap DOMAIN hist[m].live \subseteq DOMAIN hist[j].live

\* The records under work are a stretch of the journal.
WindowOK ==
  phase \notin {"new", "seeded"} =>
    /\ cut + Len(records) <= Len(journal)
    /\ \A i \in 1 .. Len(records) : records[i] = journal[cut + i]

\* How many events of the volume's life the engine's table has behind it.
Level == CASE phase \in {"new", "seeded"} -> Len(journal)
           [] phase = "reverse" -> cut + pos
           [] OTHER -> cut

\* The table is right about every file live at its level and not half-way
\* through a rename, and holds no file deleted before its level: or_insert
\* would keep such a file's stale entry when its FILE_DELETE record comes up.
LookupOK ==
  phase # "new" =>
    LET now == hist[Level + 1]
    IN  /\ \A k \in DOMAIN now.live \ now.renaming :
             k \in DOMAIN lookup /\ lookup[k] = now.live[k]
        /\ \A k \in DOMAIN lookup : \A i \in 1 .. Level + 1 :
             k \in DOMAIN hist[i].live => k \in DOMAIN now.live

\* A file of unknown name is one still between the halves of its rename.
BlindOK ==
  phase \in {"forward", "done"} => Blind(pos) \subseteq Truth(pos).renaming

\* The inductive invariant of the engine and the volume.
IInv == HistOK /\ WindowOK /\ LookupOK /\ BlindOK /\ ForwardAgrees
=============================================================================
