-------------------------------- MODULE Disk --------------------------------
(***************************************************************************)
(* A volume as NTFS lays it out: MFT records, the clusters of the streams   *)
(* they describe and the cluster bitmap.  The driver that writes it is not  *)
(* code of this repository; it is modelled from what fs.rs, attribute.rs    *)
(* and attribute_list.rs of core/src expect to find.                        *)
(*                                                                         *)
(* A record takes one cluster, a cluster holds Units units of data.  A      *)
(* stream whose run list outgrows a record continues in extension records   *)
(* that the $ATTRIBUTE_LIST of the base record names.  The $MFT is the      *)
(* stream of record 0 and grows like any other.                             *)
(***************************************************************************)
EXTENDS Integers, Sequences, FiniteSets, SequencesExt, FiniteSetsExt

CONSTANTS Clusters,     \* number of clusters of the volume
          FirstRecords, \* records the $MFT is formatted with
          Units,        \* units of data in a cluster
          RunsPerAttr,  \* runs that fit in one attribute
          AttrsPerExt,  \* $DATA attributes that fit in an extension record
          MaxOps        \* bound: operations of the driver

ASSUME DiskAssumption ==
  /\ {Clusters, FirstRecords, Units, RunsPerAttr, AttrsPerExt} \subseteq Nat \ {0}
  /\ MaxOps \in Nat /\ FirstRecords <= Clusters

VARIABLES rec,      \* the MFT records, by number
          mftAt,    \* the clusters they are in
          disk,     \* what the other clusters hold
          bitmap,   \* allocated clusters
          truth,    \* per live file and stream: its size and cells
          ops

diskVars == <<rec, mftAt, disk, bitmap, truth, ops>>

Unnamed == "unnamed"
Hole == -1
Zero == [owner |-> -1, seq |-> 0, stream |-> Unnamed, vcn |-> 0]
MFT == 0
Streams == {Unnamed, "ads"}

\* A $DATA attribute: of a resident one content, of others runs.  size is the
\* size of the stream and meaningful where start_vcn is 0.
Resident(s, content) == [name |-> s, resident |-> TRUE, start_vcn |-> 0,
                         size |-> Len(content), runs |-> <<>>, content |-> content]
NonResident(s, vcn, size, runs) == [name |-> s, resident |-> FALSE, start_vcn |-> vcn,
                                    size |-> size, runs |-> runs, content |-> <<>>]

\* names: the $FILE_NAMEs.  list: the $ATTRIBUTE_LIST, empty when there is none.
\* data: the $DATA attributes in the order of the record.
Record(seq, names, data) == [file |-> TRUE, in_use |-> TRUE, seq |-> seq,
                             names |-> names, list |-> <<>>, data |-> data]
Blank == [Record(1, <<>>, <<>>) EXCEPT !.file = FALSE, !.in_use = FALSE]

\* The unit at offset j of cell c; zeros are all the same.
UnitOf(c, j) == IF c = Zero THEN <<Zero, 0>> ELSE <<c, j>>
\* The contents of a stream of the given cells.
Contents(cells, size) == [j \in 1 .. size |-> UnitOf(cells[(j - 1) \div Units + 1], (j - 1) % Units)]
\* What the driver writes to a cluster: whose data it is, and which.
Cell(n, s, vcn) == [owner |-> n, seq |-> rec[n].seq, stream |-> s, vcn |-> vcn]

DiskInit ==
  /\ mftAt = [i \in 1 .. FirstRecords |-> i - 1]
  /\ rec = [n \in 0 .. FirstRecords - 1 |->
              IF n = MFT
              THEN Record(1, <<[name |-> "$MFT", ns |-> "WIN32"]>>,
                          <<NonResident(Unnamed, 0, FirstRecords * Units,
                                        <<[lcn |-> 0, length |-> FirstRecords]>>)>>)
              ELSE Blank]
  /\ disk = [c \in 0 .. Clusters - 1 |-> Zero]
  /\ bitmap = 0 .. FirstRecords - 1
  /\ truth = [n \in {} |-> 0]
  /\ ops = 0

-----------------------------------------------------------------------------
Free == {n \in DOMAIN rec : n # MFT /\ ~rec[n].in_use}
Live == DOMAIN truth
ExtsOf(n) == {rec[n].list[i].rn : i \in DOMAIN rec[n].list} \ {n}

Win32(x) == [name |-> x, ns |-> "WIN32"]
Names == {<<Win32("long")>>, <<[name |-> "short", ns |-> "DOS"], Win32("long")>>}

Create(n, names) ==
  LET cell == Cell(n, Unnamed, 0)
  IN  /\ n \in Free
      /\ rec' = [rec EXCEPT ![n] = Record(@.seq, names, <<Resident(Unnamed, <<UnitOf(cell, 0)>>)>>)]
      /\ truth' = [m \in Live \cup {n} |->
                     IF m = n THEN [s \in {Unnamed} |-> [size |-> 1, cells |-> <<cell>>]]
                     ELSE truth[m]]
      /\ UNCHANGED <<mftAt, disk, bitmap>>

AddStream(n) ==
  LET cell == Cell(n, "ads", 0)
  IN  /\ n \in Live /\ "ads" \notin DOMAIN truth[n]
      /\ rec' = [rec EXCEPT ![n].data = Append(@, Resident("ads", <<UnitOf(cell, 0)>>))]
      /\ truth' = [truth EXCEPT ![n] = [s \in Streams |->
                     IF s = "ads" THEN [size |-> 1, cells |-> <<cell>>] ELSE @[s]]]
      /\ UNCHANGED <<mftAt, disk, bitmap>>

\* Where the attributes of a stream are: record number and place in it.
Places(n, s) == {p \in ({n} \cup ExtsOf(n)) \X (1 .. AttrsPerExt + 2) :
                   /\ p[2] \in DOMAIN rec[p[1]].data
                   /\ rec[p[1]].data[p[2]].name = s}
AttrAt(p) == rec[p[1]].data[p[2]]
LastPlace(n, s) == CHOOSE p \in Places(n, s) :
                     \A q \in Places(n, s) : AttrAt(q).start_vcn <= AttrAt(p).start_vcn
FirstPlace(n, s) == CHOOSE p \in Places(n, s) : AttrAt(p).start_vcn = 0

\* Records n may put one more attribute in.
Room(n) == {e \in ExtsOf(n) : Len(rec[e].data) < AttrsPerExt} \cup Free

\* The records r with attribute a of file n added to extension record e, named
\* in the list; the first entry of a list is the base record's own.
Extended(r, n, e, a) ==
  LET entry(m, x) == [rn |-> m, name |-> x.name, start_vcn |-> x.start_vcn]
      old == IF r[n].list # <<>> THEN r[n].list
             ELSE [i \in DOMAIN r[n].data |-> entry(n, r[n].data[i])]
  IN  [r EXCEPT ![n].list = Append(old, entry(e, a)),
                ![e] = IF e \in ExtsOf(n) THEN [@ EXCEPT !.data = Append(@, a)]
                       ELSE Record(@.seq, <<>>, <<a>>)]

Unallocated == (0 .. Clusters - 1) \ bitmap
Lowest(S) == IF S = {} THEN {} ELSE {Min(S)}

\* Clusters for a stream whose last run is r: the next one or one elsewhere.
Allocations(r) ==
  LET next == Unallocated \cap {r.lcn + r.length}
  IN  next \cup Lowest(Unallocated \ next)

Adjacent(r, lcn) == IF r.lcn = Hole THEN lcn = Hole ELSE lcn = r.lcn + r.length

\* The attribute with one more cluster in its runs.
Longer(a, lcn) ==
  IF a.runs # <<>> /\ Adjacent(Last(a.runs), lcn)
  THEN [a EXCEPT !.runs[Len(a.runs)].length = @ + 1]
  ELSE [a EXCEPT !.runs = Append(@, [lcn |-> lcn, length |-> 1])]

\* The ways to record that stream s of n, now of the given size, has lcn as
\* its cluster vcn.
Recorded(n, s, vcn, lcn, size) ==
  LET p == LastPlace(n, s)
      f == FirstPlace(n, s)
      sized == IF AttrAt(p).resident
               THEN [rec EXCEPT ![f[1]].data[f[2]] = NonResident(s, 0, size, <<>>)]
               ELSE [rec EXCEPT ![f[1]].data[f[2]].size = size]
      longer == Longer(sized[p[1]].data[p[2]], lcn)
  IN  IF Len(longer.runs) <= RunsPerAttr
      THEN {[sized EXCEPT ![p[1]].data[p[2]] = longer]}
      ELSE {Extended(sized, n, e, Longer(NonResident(s, vcn, 0, <<>>), lcn)) : e \in Room(n)}

\* Stream s of n grows by a cluster or a hole, of which `slack` units are not
\* used yet.  A resident stream moves out of its record.
Grow(n, s, lcn, slack) ==
  LET a == AttrAt(LastPlace(n, s))
      vcn == IF a.resident THEN 0 ELSE Len(truth[n][s].cells)
      size == (vcn + 1) * Units - slack
      cell == IF lcn = Hole THEN Zero ELSE Cell(n, s, vcn)
  IN  /\ n \in Live /\ s \in DOMAIN truth[n]
      /\ lcn \in IF a.resident THEN Lowest(Unallocated)
                 ELSE Allocations(Last(a.runs)) \cup {Hole}
      /\ rec' \in Recorded(n, s, vcn, lcn, size)
      /\ bitmap' = bitmap \cup ({lcn} \ {Hole})
      /\ disk' = IF lcn = Hole THEN disk ELSE [disk EXCEPT ![lcn] = cell]
      /\ truth' = [truth EXCEPT ![n][s] =
                     [size |-> size, cells |-> Append(SubSeq(@.cells, 1, vcn), cell)]]
      /\ UNCHANGED mftAt

\* The $MFT grows by a record.
GrowMft(lcn) ==
  /\ lcn \in Allocations(Last(AttrAt(LastPlace(MFT, Unnamed)).runs))
  /\ \E r \in Recorded(MFT, Unnamed, Len(mftAt), lcn, (Len(mftAt) + 1) * Units) :
       rec' = [n \in 0 .. Len(mftAt) |-> IF n = Len(mftAt) THEN Blank ELSE r[n]]
  /\ mftAt' = Append(mftAt, lcn)
  /\ bitmap' = bitmap \cup {lcn}
  /\ UNCHANGED <<disk, truth>>

\* The base record is full: the first $DATA attribute of a stream moves out.
Spread(n, s) ==
  LET p == FirstPlace(n, s)
  IN  /\ n \in Live /\ s \in DOMAIN truth[n] /\ p[1] = n
      /\ \E e \in Room(n) :
           LET out == Extended(rec, n, e, AttrAt(p))
           IN  rec' = [out EXCEPT ![n].data = RemoveAt(@, p[2]),
                                  ![n].list = SelectSeq(@, LAMBDA x :
                                     ~(x.rn = n /\ x.name = s))]
      /\ UNCHANGED <<mftAt, disk, bitmap, truth>>

\* The records of a deleted file keep what they hold; the clusters are free.
Delete(n) ==
  LET gone == {n} \cup ExtsOf(n)
  IN  /\ n \in Live
      /\ rec' = [m \in DOMAIN rec |-> IF m \in gone THEN [rec[m] EXCEPT !.in_use = FALSE, !.seq = @ + 1]
                                      ELSE rec[m]]
      /\ bitmap' = {c \in bitmap : ~(disk[c].owner = n /\ disk[c].seq = rec[n].seq)}
      /\ truth' = [m \in Live \ {n} |-> truth[m]]
      /\ UNCHANGED <<mftAt, disk>>

DiskNext ==
  /\ ops < MaxOps
  /\ ops' = ops + 1
  /\ \/ \E n \in Free, x \in Names : Create(n, x)
     \/ \E n \in Live : AddStream(n)
     \/ \E n \in Live, s \in Streams, c \in {Hole} \cup 0 .. Clusters - 1, k \in 0 .. 1 : Grow(n, s, c, k)
     \/ \E c \in 0 .. Clusters - 1 : GrowMft(c)
     \/ \E n \in Live, s \in Streams : Spread(n, s)
     \/ \E n \in Live : Delete(n)
=============================================================================
