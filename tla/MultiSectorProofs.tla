------------------------- MODULE MultiSectorProofs -------------------------
(***************************************************************************)
(* Proofs about MultiSector, for any blocks, contents, number of sectors   *)
(* and any driver that picks a fresh update sequence number.               *)
(***************************************************************************)
EXTENDS MultiSector, TLAPS

(***************************************************************************)
(* The inductive invariant: types, and what the tails tell of the sectors. *)
(***************************************************************************)
Inv == BlocksOK /\ SectorsTold

LEMMA FirstSector == 1 \in SectorNo /\ SectorNo # {}
BY SectorAssumption DEF SectorNo

LEMMA WholeIsContent == ASSUME NEW c \in Content PROVE Whole(c) \in WholeContents
BY FirstSector DEF Whole, WholeContents

(***************************************************************************)
(* A block whose sectors are all of one write is shown as that write.      *)
(***************************************************************************)
LEMMA OneWriteShown ==
  ASSUME NEW s, NEW c \in Content, NEW u,
         s = [i \in SectorNo |-> [data |-> c, usn |-> u, tail |-> u]]
  PROVE  Shown(s) = Whole(c)
<1>1. Matches(s)
  BY FirstSector DEF Matches
<1>2. apply_fixup(s) = Whole(c)
  BY FirstSector DEF apply_fixup, Whole
<1> QED BY <1>1, <1>2 DEF Shown

LEMMA InitInv == Init => Inv
<1> SUFFICES ASSUME NEW first \in [Block -> Content], NEW u \in [Block -> Usn],
                    BlockInit(first, u)
             PROVE  Inv
  BY DEF Init
<1>1. BlocksOK
  BY DEF BlockInit, BlocksOK, Sector, Writes
<1>2. SectorsTold
  BY DEF BlockInit, SectorsTold
<1> QED BY <1>1, <1>2 DEF Inv

(***************************************************************************)
(* Every step keeps it: a prepared write has a number of its own, and the  *)
(* sectors that carry the number are the ones that have been written.      *)
(***************************************************************************)
LEMMA StepInv == Inv /\ [Next]_blockVars => Inv'
<1> SUFFICES ASSUME Inv, [Next]_blockVars PROVE Inv'
  OBVIOUS
<1>1. CASE UNCHANGED blockVars
  BY <1>1 DEF Inv, BlocksOK, SectorsTold, blockVars
<1>2. ASSUME NEW b \in Block, NEW c \in Content, NEW u \in Usn, Protect(b, c, u)
      PROVE  Inv'
  <2>1. BlocksOK'
    BY <1>2 DEF Inv, BlocksOK, Protect, Writes
  <2>2. SectorsTold'
    BY <1>2 DEF Inv, BlocksOK, SectorsTold, Protect, Fresh
  <2> QED BY <2>1, <2>2 DEF Inv
<1>3. ASSUME NEW b \in Block, NEW i \in SectorNo, WriteSector(b, i)
      PROVE  Inv'
  <2> DEFINE new == [data |-> pending[b].data, usn |-> pending[b].usn, tail |-> pending[b].usn]
  <2>1. /\ pending[b] \in Writes
        /\ new \in Sector
        /\ disk' = [disk EXCEPT ![b][i] = new]
        /\ pending' = [pending EXCEPT ![b].todo = @ \ {i}]
        /\ i \in pending[b].todo
    BY <1>3 DEF Inv, BlocksOK, WriteSector, Writes, Sector
  <2>2. BlocksOK'
    BY <2>1 DEF Inv, BlocksOK, Writes
  <2>3. ASSUME NEW d \in Block, d # b
        PROVE  disk'[d] = disk[d] /\ pending'[d] = pending[d]
    BY <2>1, <2>3 DEF Inv, BlocksOK
  <2>4. /\ \A j \in SectorNo : disk'[b][j] = IF j = i THEN new ELSE disk[b][j]
        /\ pending'[b].todo = pending[b].todo \ {i}
        /\ pending'[b].data = pending[b].data
        /\ pending'[b].usn = pending[b].usn
    BY <2>1 DEF Inv, BlocksOK, Writes
  <2>5. \A j \in SectorNo : IF j \in pending[b].todo THEN disk[b][j].tail # pending[b].usn
                            ELSE disk[b][j] = new
    BY <2>1 DEF Inv, SectorsTold
  <2>6. \A j, k \in SectorNo :
          disk'[b][j].tail = disk'[b][k].tail => disk'[b][j] = disk'[b][k]
    BY <2>4, <2>5 DEF Inv, SectorsTold
  <2>7. \A j \in SectorNo : disk'[b][j].usn = disk'[b][j].tail
    BY <2>4 DEF Inv, SectorsTold
  <2>8. \A j \in SectorNo : IF j \in pending'[b].todo
                            THEN disk'[b][j].tail # pending'[b].usn
                            ELSE disk'[b][j] = new
    BY <2>4, <2>5
  <2>9. SectorsTold'
    BY <2>3, <2>4, <2>6, <2>7, <2>8 DEF Inv, SectorsTold
  <2> QED BY <2>2, <2>9 DEF Inv
<1>4. ASSUME LosePower PROVE Inv'
  <2>1. \A d \in Block : pending'[d] = [pending[d] EXCEPT !.todo = {}] /\ disk'[d] = disk[d]
    BY <1>4 DEF LosePower
  <2>2. BlocksOK'
    BY <1>4 DEF Inv, BlocksOK, LosePower, Writes
  <2>3. \A d \in Block : pending'[d].todo = {}
    <3> TAKE d \in Block
    <3>1. pending[d] \in Writes
      BY DEF Inv, BlocksOK
    <3> QED BY <2>1, <3>1 DEF Writes
  <2>4. SectorsTold'
    <3> SUFFICES ASSUME NEW d \in Block
                 PROVE  /\ \A i, j \in SectorNo :
                             disk'[d][i].tail = disk'[d][j].tail => disk'[d][i] = disk'[d][j]
                        /\ \A i \in SectorNo : disk'[d][i].usn = disk'[d][i].tail
      BY <2>3 DEF SectorsTold
    <3>1. disk'[d] = disk[d]
      BY <2>1
    <3>2. /\ \A i, j \in SectorNo :
               disk[d][i].tail = disk[d][j].tail => disk[d][i] = disk[d][j]
          /\ \A i \in SectorNo : disk[d][i].usn = disk[d][i].tail
      BY DEF Inv, SectorsTold
    <3> QED BY <3>1, <3>2
  <2> QED BY <2>2, <2>4 DEF Inv
<1> QED BY <1>1, <1>2, <1>3, <1>4 DEF Next

(***************************************************************************)
(* The invariant holds in every state the driver can bring about.          *)
(***************************************************************************)
THEOREM TailsTellWrites == Spec => []Inv
BY InitInv, StepInv, PTL DEF Spec

(***************************************************************************)
(* A block that matches shows a whole content.                             *)
(***************************************************************************)
LEMMA MatchIsWhole == ASSUME Inv, NEW b \in Block, Matches(disk[b])
                      PROVE  disk[b][1].data \in Content /\ Shown(disk[b]) = Whole(disk[b][1].data)
<1>1. \A i \in SectorNo : disk[b][i] = disk[b][1]
  <2> TAKE i \in SectorNo
  <2>1. disk[b][i].tail = disk[b][1].usn /\ disk[b][1].usn = disk[b][1].tail
    BY FirstSector DEF Inv, SectorsTold, Matches
  <2>2. disk[b][i].tail = disk[b][1].tail => disk[b][i] = disk[b][1]
    BY FirstSector DEF Inv, SectorsTold
  <2> QED BY <2>1, <2>2
<1>2. disk[b][1].data \in Content
  BY FirstSector DEF Inv, BlocksOK, Sector
<1>3. apply_fixup(disk[b]) = Whole(disk[b][1].data)
  BY <1>1 DEF apply_fixup, Whole
<1> QED BY <1>2, <1>3 DEF Shown

(***************************************************************************)
(* No torn write passes apply_fixup.                                       *)
(***************************************************************************)
THEOREM TornWritesRefused == Spec => []NeverMixes
<1>1. Inv => NeverMixes
  BY MatchIsWhole, WholeIsContent DEF NeverMixes, Shown
<1> QED BY <1>1, TailsTellWrites, PTL

(***************************************************************************)
(* The reader's view implements atomic blocks: refinement.                 *)
(***************************************************************************)
AbsShown == [b \in Block |-> Shown(disk[b])]
AbsWriting == [b \in Block |-> IF pending[b].todo = {} THEN None ELSE Whole(pending[b].data)]

LEMMA InitAtomic == Init => Atomic!Init
<1> SUFFICES ASSUME NEW first \in [Block -> Content], NEW u \in [Block -> Usn],
                    BlockInit(first, u)
             PROVE  Atomic!Init
  BY DEF Init
<1>1. \A b \in Block : Shown(disk[b]) \in WholeContents
  <2> TAKE b \in Block
  <2>1. disk[b] = [i \in SectorNo |-> [data |-> first[b], usn |-> u[b], tail |-> u[b]]]
    BY DEF BlockInit
  <2>2. first[b] \in Content
    OBVIOUS
  <2> QED BY <2>1, <2>2, OneWriteShown, WholeIsContent
<1>2. \A b \in Block : pending[b].todo = {}
  BY DEF BlockInit
<1> QED BY <1>1, <1>2 DEF Atomic!Init

LEMMA StepAtomic == Inv /\ Inv' /\ [Next]_blockVars => [Atomic!Next]_(Atomic!vars)
<1> SUFFICES ASSUME Inv, Inv', [Next]_blockVars PROVE [Atomic!Next]_(Atomic!vars)
  OBVIOUS
<1>1. CASE UNCHANGED blockVars
  BY <1>1 DEF blockVars, Atomic!vars
<1>2. ASSUME NEW b \in Block, NEW c \in Content, NEW u \in Usn, Protect(b, c, u)
      PROVE  Atomic!Begin(b)
  <2>1. AbsShown' = AbsShown
    BY <1>2 DEF Protect, AbsShown
  <2>2. pending[b].todo = {} /\ pending' = [pending EXCEPT ![b] = [data |-> c, usn |-> u, todo |-> SectorNo]]
    BY <1>2 DEF Protect
  <2>3. AbsWriting[b] = None
    BY <2>2 DEF AbsWriting
  <2>4. AbsWriting' = [AbsWriting EXCEPT ![b] = Whole(c)]
    BY <2>2, FirstSector DEF AbsWriting, Inv, BlocksOK
  <2>5. AbsWriting'[b] = Whole(c)
    BY <2>4 DEF AbsWriting
  <2> QED BY <2>1, <2>3, <2>4, <2>5, WholeIsContent DEF Atomic!Begin, AbsShown, AbsWriting
<1>3. ASSUME NEW b \in Block, NEW i \in SectorNo, WriteSector(b, i)
      PROVE  Atomic!Disturb(b) \/ Atomic!Finish(b)
  <2>1. i \in pending[b].todo /\ pending' = [pending EXCEPT ![b].todo = @ \ {i}]
    BY <1>3 DEF WriteSector
  <2>2. \A d \in Block \ {b} : disk'[d] = disk[d] /\ pending'[d] = pending[d]
    BY <1>3 DEF WriteSector, Inv, BlocksOK
  <2>3. pending'[b].data = pending[b].data /\ pending[b].data \in Content
        /\ pending'[b].usn = pending[b].usn /\ pending'[b].todo = pending[b].todo \ {i}
    BY <2>1 DEF Inv, BlocksOK, Writes
  <2>4. AbsWriting[b] = Whole(pending[b].data) /\ AbsWriting[b] # None
    BY <2>1, <2>3, WholeIsContent, ContentAssumption DEF AbsWriting
  <2>5. disk'[b][i] = [data |-> pending[b].data, usn |-> pending[b].usn, tail |-> pending[b].usn]
    BY <1>3 DEF WriteSector, Inv, BlocksOK
  <2>6. AbsShown' = [AbsShown EXCEPT ![b] = Shown(disk'[b])]
    BY <2>2 DEF AbsShown
  <2>7. CASE pending'[b].todo = {}
    <3>1. \A j \in SectorNo \ {i} : disk'[b][j] = disk[b][j]
      BY <1>3 DEF WriteSector, Inv, BlocksOK
    <3>2. \A j \in SectorNo : disk'[b][j] =
            [data |-> pending[b].data, usn |-> pending[b].usn, tail |-> pending[b].usn]
      BY <2>1, <2>3, <2>5, <2>7, <3>1 DEF Inv, SectorsTold
    <3>3. disk'[b] \in [SectorNo -> Sector]
      BY DEF Inv, BlocksOK
    <3>4. disk'[b] = [j \in SectorNo |->
            [data |-> pending[b].data, usn |-> pending[b].usn, tail |-> pending[b].usn]]
      BY <3>2, <3>3
    <3>5. Shown(disk'[b]) = AbsWriting[b]
      BY <3>4, <2>3, <2>4, OneWriteShown
    <3>6. AbsWriting' = [AbsWriting EXCEPT ![b] = None]
      BY <2>2, <2>7 DEF AbsWriting
    <3> QED BY <2>4, <2>6, <3>5, <3>6 DEF Atomic!Finish, AbsShown, AbsWriting
  <2>8. CASE pending'[b].todo # {}
    <3>1. PICK j \in pending'[b].todo : TRUE
      BY <2>8
    <3>2. j \in SectorNo /\ disk'[b][j].tail # disk'[b][i].tail
      BY <3>1, <2>3, <2>5 DEF Inv, BlocksOK, SectorsTold, Writes
    <3>3. ~Matches(disk'[b])
      BY <3>2 DEF Matches
    <3>4. Shown(disk'[b]) = Unreadable
      BY <3>3 DEF Shown
    <3>5. AbsWriting' = AbsWriting
      BY <2>1, <2>2, <2>3, <2>8 DEF AbsWriting
    <3> QED BY <2>4, <2>6, <3>4, <3>5 DEF Atomic!Disturb, AbsShown, AbsWriting
  <2> QED BY <2>7, <2>8
<1>4. ASSUME LosePower PROVE Atomic!Crash
  <2>1. \A d \in Block : pending'[d].todo = {}
    BY <1>4 DEF LosePower, Inv, BlocksOK, Writes
  <2>2. AbsWriting' = [b \in Block |-> None]
    BY <2>1 DEF AbsWriting
  <2>3. AbsShown' = AbsShown
    BY <1>4 DEF LosePower, AbsShown
  <2> QED BY <2>2, <2>3 DEF Atomic!Crash, AbsShown, AbsWriting
<1> QED BY <1>1, <1>2, <1>3, <1>4 DEF Next, Atomic!Next

(***************************************************************************)
(* Blocks protected by update sequence numbers and read through            *)
(* apply_fixup behave as atomic blocks.                                    *)
(***************************************************************************)
THEOREM ReadsAreAtomic == Spec => AtomicBlocks
<1>1. Spec => Atomic!Init
  BY InitAtomic DEF Spec
<1>2. Spec => [][Atomic!Next]_(Atomic!vars)
  BY StepAtomic, TailsTellWrites, PTL DEF Spec
<1> QED BY <1>1, <1>2 DEF AtomicBlocks, Atomic!Spec
=============================================================================
