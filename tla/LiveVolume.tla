----------------------------- MODULE LiveVolume -----------------------------
(***************************************************************************)
(* A volume at work, imaged at any moment: a directory whose index lies in *)
(* its record and in index buffers, file records, and the $MFT record with *)
(* its mirror, all multi-sector blocks.  The driver (external: how NTFS    *)
(* writes what the readers read) changes them in memory and writes them    *)
(* out later; power may be lost at any moment.  The readers are            *)
(* directory_entries and resolve_path (core/src/fs.rs), read_dir, lookup   *)
(* and hardlinks (vfs.rs), MftData::parse (mft.rs), carve_mft_entries      *)
(* (carve.rs), compare_mft_mirror (mftmirr.rs) and the forensic audit.     *)
(***************************************************************************)
EXTENDS Integers, Sequences, FiniteSets, MultiSector

CONSTANTS Files,               \* blocks that hold file records
          BufOrder,            \* the index buffers, in the order of the stream
          Names,               \* names a file can be created with
          LinkNames,           \* names a file can be linked by
          Alias,               \* the 8.3 name that comes with a name, or None
          Fold,                \* a name without its case
          MarkSets,            \* what else a new file's record may hold
          ForgedTimes,         \* creation times set by hand: whole seconds
          LongNames, Garbled,
          NodeCap,             \* entries per index node
          MaxOps,              \* operations of the driver
          Backlog,             \* blocks not yet written when one begins
          InFlight             \* blocks being written at a time

Rec == INSTANCE Records

VARIABLES mem,                 \* the driver's current contents
          dirty,               \* blocks changed and not yet being written
          inuse,               \* index buffers that belong to the index
          ever,                \* entries the directory has had
          forged,              \* files whose $SI was set by hand
          ops, off

vars == <<disk, pending, mem, dirty, inuse, ever, forged, ops, off>>

Bufs == {BufOrder[i] : i \in DOMAIN BufOrder}
Blocks == {"dir", "mft", "mirr"} \cup Files \cup Bufs

AnyName == Names \cup LinkNames \cup {Alias[n] : n \in Names}
Entry == [name : AnyName, file : Files, seq : 0..MaxOps + 1]
Ticks == 0..(2 * MaxOps + 5)

Blank == [entries |-> None]
FileContent == [seq : 0..MaxOps + 1, used : BOOLEAN, marks : MarkSets, left : BOOLEAN, si : Ticks,
                names : Seq([name : AnyName, ns : 0..3, created : Ticks])]
DirContent == [root : SUBSET Entry, large : BOOLEAN]
BufContent == [entries : SUBSET Entry] \cup {Blank}
MftContent == [version : 0..MaxOps]
Contents == FileContent \cup DirContent \cup BufContent \cup MftContent

(***************************************************************************)
(* At first one file has a name, whose entry lies in a buffer of the index *)
(* or in the directory's record; other records have never been used.       *)
(***************************************************************************)
OldFile == CHOOSE f \in Files : TRUE
OldName == CHOOSE n \in Names : Alias[n] = n
OldEntry(f, n) == [name |-> n, file |-> f, seq |-> 1]

FirstContent(f, n, B) == [b \in Blocks |->
  CASE b = "dir" -> [root |-> IF B = {} THEN {OldEntry(f, n)} ELSE {}, large |-> B # {}]
    [] b \in Files -> [seq |-> IF b = f THEN 1 ELSE 0, used |-> b = f,
                       names |-> IF b = f THEN <<Rec!NameAttr(n, Rec!WIN32_AND_DOS, 3)>>
                                 ELSE <<>>,
                       marks |-> {}, left |-> FALSE, si |-> IF b = f THEN 3 ELSE 0]
    [] b \in Bufs -> IF b \in B THEN [entries |-> {OldEntry(f, n)}] ELSE Blank
    [] OTHER -> [version |-> 0]]

VolumeInit ==
  \E B \in {{}, {BufOrder[1]}} :
    /\ mem = FirstContent(OldFile, OldName, B)
    /\ BlockInit(mem, [b \in Blocks |-> CHOOSE u \in Usn : TRUE])
    /\ inuse = B
    /\ ever = {OldEntry(OldFile, OldName)}
    /\ dirty = {} /\ forged = {}
    /\ ops = 0
    /\ off = FALSE

-----------------------------------------------------------------------------
(***************************************************************************)
(* The driver's operations, on memory.                                     *)
(***************************************************************************)
Busy == dirty \cup {b \in Blocks : pending[b].todo # {}}

Live == mem["dir"].root \cup UNION {mem[b].entries : b \in inuse}
Now == 2 * ops + 5             \* odd: the clock never shows a whole second

Change(new, used) ==
  /\ inuse' = used
  /\ mem' = [b \in Blocks |-> IF b \in DOMAIN new THEN new[b] ELSE mem[b]]
  /\ dirty' = dirty \cup DOMAIN new
  /\ ever' = ever \cup Live'
  /\ ops' = ops + 1
  /\ UNCHANGED <<disk, pending, off>>

Ready == ~off /\ ops < MaxOps /\ Cardinality(Busy) <= Backlog

(***************************************************************************)
(* A node of the index with entries E; each node keeps its shape.          *)
(***************************************************************************)
NodeEntries(p) == IF p = "dir" THEN mem["dir"].root ELSE mem[p].entries
WithEntries(p, E) == IF p = "dir" THEN [mem["dir"] EXCEPT !.root = E] ELSE [entries |-> E]

EntriesOf(f, names, seq) ==
  {[name |-> names[i].name, file |-> f, seq |-> seq] : i \in DOMAIN names}

NewNames(n) ==
  IF Alias[n] = n THEN <<Rec!NameAttr(n, Rec!WIN32_AND_DOS, Now)>>
  ELSE <<Rec!NameAttr(Alias[n], Rec!DOS, Now), Rec!NameAttr(n, Rec!WIN32, Now)>>

Insert(p, f, content, E) ==
  /\ Cardinality(NodeEntries(p) \cup E) <= NodeCap
  /\ \A e \in E : \A l \in Live : e.name # l.name
  /\ Change([b \in {p, f} |-> IF b = f THEN content ELSE WithEntries(p, NodeEntries(p) \cup E)],
            inuse)

Create(f, n, marks, p) ==
  /\ Ready /\ ~mem[f].used /\ p \in inuse \cup {"dir"}
  /\ LET c == [seq |-> mem[f].seq + 1, used |-> TRUE, names |-> NewNames(n), marks |-> marks,
               left |-> FALSE, si |-> Now]
     IN  Insert(p, f, c, EntriesOf(f, c.names, c.seq))
  /\ forged' = forged \ {f}

Link(f, n, p) ==
  /\ Ready /\ mem[f].used /\ p \in inuse \cup {"dir"}
  /\ Insert(p, f, [mem[f] EXCEPT !.names = Append(@, Rec!NameAttr(n, Rec!POSIX, mem[f].si))],
            {[name |-> n, file |-> f, seq |-> mem[f].seq]})
  /\ UNCHANGED forged

(***************************************************************************)
(* Entries E go; the nodes that held them are rewritten.                   *)
(***************************************************************************)
Take(f, content, E) ==
  LET nodes == {p \in inuse \cup {"dir"} : NodeEntries(p) \cap E # {}} IN
  Change([b \in nodes \cup {f} |->
            IF b = f THEN content ELSE WithEntries(b, NodeEntries(b) \ E)],
         inuse)

Unlink(f, i) ==
  /\ Ready /\ mem[f].used
  /\ i \in DOMAIN mem[f].names /\ mem[f].names[i].ns = Rec!POSIX
  /\ Take(f, [mem[f] EXCEPT !.names = SubSeq(@, 1, i - 1) \o SubSeq(@, i + 1, Len(@)),
                            !.left = TRUE],
          EntriesOf(f, <<mem[f].names[i]>>, mem[f].seq))
  /\ UNCHANGED forged

Remove(f) ==
  /\ Ready /\ mem[f].used
  /\ Take(f, [mem[f] EXCEPT !.used = FALSE], EntriesOf(f, mem[f].names, mem[f].seq))
  /\ UNCHANGED forged

Forge(f, t) ==
  /\ Ready /\ mem[f].used /\ t < mem[f].si
  /\ Change([b \in {f} |-> [mem[f] EXCEPT !.si = t]], inuse)
  /\ forged' = forged \cup {f}

(***************************************************************************)
(* The index grows into a buffer, and shrinks again: a buffer that leaves  *)
(* the index is not rewritten.                                             *)
(***************************************************************************)
MoveOut(b) ==
  /\ Ready /\ b \in Bufs \ inuse /\ mem["dir"].root # {}
  /\ Change([d \in {"dir", b} |-> IF d = b THEN [entries |-> mem["dir"].root]
                                  ELSE [root |-> {}, large |-> TRUE]],
            inuse \cup {b})
  /\ UNCHANGED forged

MoveIn(b) ==
  /\ Ready /\ b \in inuse
  /\ Cardinality(mem["dir"].root \cup mem[b].entries) <= NodeCap
  /\ Change([d \in {"dir"} |-> [root |-> mem["dir"].root \cup mem[b].entries, large |-> TRUE]],
            inuse \ {b})
  /\ UNCHANGED forged

(***************************************************************************)
(* A change of the $MFT record goes to the record and to its mirror.       *)
(***************************************************************************)
ChangeMft ==
  /\ Ready
  /\ Change([b \in {"mft", "mirr"} |-> [version |-> mem[b].version + 1]], inuse)
  /\ UNCHANGED forged

(***************************************************************************)
(* Writing out: the mirror gets the very image of the record.              *)
(***************************************************************************)
Twins(b) == IF b = "mft" THEN {"mft", "mirr"} ELSE {b}

Flush(b) ==
  /\ ~off /\ b \in dirty
  /\ Cardinality({d \in Blocks : pending[d].todo # {}}) < InFlight
  /\ b = "mirr" => "mft" \notin dirty
  /\ Protect(b, mem[b], IF b = "mirr" THEN pending["mft"].usn
                        ELSE CHOOSE u \in Usn : \A t \in Twins(b) : Fresh(t, u))
  /\ dirty' = dirty \ {b}
  /\ UNCHANGED <<mem, inuse, ever, forged, ops, off>>

SectorOut(b, i) ==
  /\ ~off /\ WriteSector(b, i)
  /\ UNCHANGED <<mem, dirty, inuse, ever, forged, ops, off>>

PowerLoss ==
  /\ ~off /\ LosePower
  /\ off' = TRUE
  /\ UNCHANGED <<mem, dirty, inuse, ever, forged, ops>>

VolumeNext ==
  \/ \E f \in Files :
       \/ \E p \in Bufs \cup {"dir"} :
            \/ \E n \in Names, marks \in MarkSets : Create(f, n, marks, p)
            \/ \E n \in LinkNames : Link(f, n, p)
       \/ \E i \in 1..MaxOps : Unlink(f, i)
       \/ Remove(f)
       \/ \E t \in ForgedTimes : Forge(f, t)
  \/ \E b \in Bufs : MoveOut(b) \/ MoveIn(b)
  \/ ChangeMft
  \/ \E b \in Blocks : Flush(b) \/ \E i \in SectorNo : SectorOut(b, i)
  \/ PowerLoss

VolumeSpec == VolumeInit /\ [][VolumeNext]_vars
=============================================================================
