---------------------------- MODULE MultiSector ----------------------------
(***************************************************************************)
(* Multi-sector blocks and apply_fixup (core/src/record.rs).  The driver   *)
(* puts an update sequence number (USN) into the last word of every        *)
(* sector and keeps the displaced words, with the number, in the update    *)
(* sequence array of the first sector.  Sectors reach the disk one by one, *)
(* in any order; power may be lost between two of them.                    *)
(***************************************************************************)
EXTENDS Integers

CONSTANTS Block,               \* the blocks of the volume
          Content,             \* what a block can hold
          Sectors,             \* sectors per block
          Usn,                 \* the update sequence numbers
          Unreadable, None

(***************************************************************************)
(* 2^16 numbers and two to eight sectors: there is always a number that is *)
(* in no tail of the block.                                                *)
(***************************************************************************)
ASSUME SectorAssumption == Sectors \in Nat \ {0, 1}
VARIABLES disk,                \* disk[b][i]: sector i of block b
          pending              \* the write of a block that is going on

blockVars == <<disk, pending>>

SectorNo == 1..Sectors

(***************************************************************************)
(* A sector: the part of content `data' it holds, the word at its end, and *)
(* (read in the first sector only) the number at the head of the update    *)
(* sequence array; the array's other words are the ends of `data'.         *)
(***************************************************************************)
Sector == [data : Content, usn : Usn, tail : Usn]
Writes == [data : Content, usn : Usn, todo : SUBSET SectorNo]

(***************************************************************************)
(* A buffer in memory: body and last word of every sector, each named by   *)
(* the content it comes from.                                              *)
(***************************************************************************)
Whole(c) == [i \in SectorNo |-> [body |-> c, tail |-> c]]

WholeContents == {w \in [SectorNo -> [body : Content, tail : Content]] :
                    \A i \in SectorNo : w[i].body = w[1].body /\ w[i].tail = w[1].body}

ASSUME ContentAssumption == Unreadable \notin WholeContents /\ None \notin WholeContents

(***************************************************************************)
(* apply_fixup: every tail must be the number in the first sector; then    *)
(* the tails are restored from the array, which is the first sector's.     *)
(***************************************************************************)
Matches_AllButLast(s) == \A i \in SectorNo \ {Sectors} : s[i].tail = s[1].usn

Matches(s) == \A i \in SectorNo : s[i].tail = s[1].usn

apply_fixup(s) == [i \in SectorNo |-> [body |-> s[i].data, tail |-> s[1].data]]

(***************************************************************************)
(* What a caller of apply_fixup makes of a block.                          *)
(***************************************************************************)
Shown(s) == IF Matches(s) THEN apply_fixup(s) ELSE Unreadable

BlockInit(first, u) ==
  /\ disk = [b \in Block |->
               [i \in SectorNo |-> [data |-> first[b], usn |-> u[b], tail |-> u[b]]]]
  /\ pending = [b \in Block |-> [data |-> first[b], usn |-> u[b], todo |-> {}]]

(***************************************************************************)
(* The driver (external) prepares a block: its number is in no tail of the *)
(* block on disk, so that sectors of different writes can be told apart.   *)
(***************************************************************************)
Fresh(b, u) == \A i \in SectorNo : disk[b][i].tail # u

Protect(b, c, u) ==
  /\ pending[b].todo = {}
  /\ Fresh(b, u)
  /\ pending' = [pending EXCEPT ![b] = [data |-> c, usn |-> u, todo |-> SectorNo]]
  /\ UNCHANGED disk

WriteSector(b, i) ==
  /\ i \in pending[b].todo
  /\ disk' = [disk EXCEPT ![b][i] =
                [data |-> pending[b].data, usn |-> pending[b].usn, tail |-> pending[b].usn]]
  /\ pending' = [pending EXCEPT ![b].todo = @ \ {i}]

LosePower ==
  /\ pending' = [b \in Block |-> [pending[b] EXCEPT !.todo = {}]]
  /\ UNCHANGED disk

Init == \E first \in [Block -> Content], u \in [Block -> Usn] : BlockInit(first, u)

Next == \/ \E b \in Block, c \in Content, u \in Usn : Protect(b, c, u)
        \/ \E b \in Block, i \in SectorNo : WriteSector(b, i)
        \/ LosePower

Spec == Init /\ [][Next]_blockVars

BlocksOK == /\ disk \in [Block -> [SectorNo -> Sector]]
            /\ pending \in [Block -> Writes]

(***************************************************************************)
(* A block that apply_fixup accepts is, word for word, a content that was  *)
(* written as one: no torn write gets through.                             *)
(***************************************************************************)
NeverMixes == \A b \in Block :
  Shown(disk[b]) \in WholeContents \cup {Unreadable}

(***************************************************************************)
(* What holds of sectors: two with the same tail come from one write, and  *)
(* the sectors of the write going on are the ones that carry its number.   *)
(***************************************************************************)
SectorsTold ==
  \A b \in Block :
    /\ \A i, j \in SectorNo :
         disk[b][i].tail = disk[b][j].tail => disk[b][i] = disk[b][j]
    /\ \A i \in SectorNo : disk[b][i].usn = disk[b][i].tail
    /\ pending[b].todo # {} =>
         \A i \in SectorNo :
           IF i \in pending[b].todo
           THEN disk[b][i].tail # pending[b].usn
           ELSE disk[b][i] = [data |-> pending[b].data, usn |-> pending[b].usn,
                              tail |-> pending[b].usn]

(***************************************************************************)
(* The reader's view implements atomic blocks: a block shows its content,  *)
(* or it is refused from the first sector of a write to the last.          *)
(***************************************************************************)
Atomic == INSTANCE AtomicBlock
  WITH Content <- WholeContents,
       shown   <- [b \in Block |-> Shown(disk[b])],
       writing <- [b \in Block |->
                     IF pending[b].todo = {} THEN None ELSE Whole(pending[b].data)]

AtomicBlocks == Atomic!Spec
=============================================================================
