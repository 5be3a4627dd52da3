------------------------------ MODULE VfsViews ------------------------------
(***************************************************************************)
(* The FileSystem trait of core/src/vfs.rs over NtfsFs: what its views say  *)
(* of streams, extents, slack, free space and deleted files, against what   *)
(* is on the volume.                                                        *)
(***************************************************************************)
EXTENDS NtfsFs

vars == <<diskVars, mft_runs>>

Init == DiskInit /\ mft_runs = NotOpen

Next == \/ mft_runs = NotOpen /\ DiskNext /\ UNCHANGED mft_runs
        \/ open
        \/ mft_runs # NotOpen /\ UNCHANGED vars

Spec == Init /\ [][Next]_vars

-----------------------------------------------------------------------------
\* A node's id.  Only its entry is used: the sequence number is not compared.
FileId(entry, seq) == [entry |-> entry, seq |-> seq]
entry_of(ino) == ino.entry

\* Only the default stream's id is a name of its own.
Default == -1
stream_name(stream) == IF stream = Default THEN Ok(Unnamed) ELSE Err

\* The $DATA attributes of the base record: all that meta, data_streams,
\* read_at and slack look at.
DataIn(result) == IF result.ok THEN result.val.data ELSE <<>>
BaseData(n) == DataIn(read_record(n))

\* The streams listed; the id of a named one is its place among the named.
Listed(data) ==
  LET NamedBefore(i) == Cardinality({j \in 1 .. i - 1 : data[j].name # Unnamed})
  IN  [i \in DOMAIN data |->
         [name |-> data[i].name, size |-> data[i].size,
          id |-> IF data[i].name = Unnamed THEN Default ELSE NamedBefore(i)]]
data_streams(ino) == Listed(BaseData(entry_of(ino)))

\* The stream an id stands for: the default one, or the id-th named.
StreamOf_AllCounted(n, id) ==
  IF id = Default \/ id + 1 \notin DOMAIN BaseData(n) THEN Unnamed ELSE BaseData(n)[id + 1].name

StreamOf(n, id) ==
  IF id = Default THEN stream_name(id).val
  ELSE SelectSeq(BaseData(n), LAMBDA a : a.name # Unnamed)[id + 1].name

From(data, off) == IF data.ok THEN SubSeq(data.val, off + 1, Len(data.val)) ELSE <<>>
read_at(ino, stream, off, len) ==
  From(read_data_by_record(entry_of(ino), StreamOf(entry_of(ino), stream), off + len), off)

\* Extents and slack are told of the default stream only.
Told(name, view) == IF name.ok THEN Ok(view) ELSE Err
extents(ino, stream) == Told(stream_name(stream), Expand(runs_by_record(entry_of(ino), Unnamed).val))

SlackOf_OverHole(own, runs) ==
  LET Upto(i) == Len(Expand(SubSeq(runs, 1, i))) * Units
      at == SelectInSeq([i \in DOMAIN runs |-> i], LAMBDA i : Upto(i) > own[1].size)
  IN  IF own = <<>> \/ own[1].resident \/ at = 0 THEN {}
      ELSE {(Max({runs[at].lcn, 0}) * Units) + k :
              k \in (own[1].size - Upto(at - 1)) .. (runs[at].length * Units - 1)}

\* The unit addresses of the slack: the rest of the run with the stream's end.
SlackOf(own, runs) ==
  LET Upto(i) == Len(Expand(SubSeq(runs, 1, i))) * Units
      at == SelectInSeq([i \in DOMAIN runs |-> i], LAMBDA i : Upto(i) > own[1].size)
  IN  IF own = <<>> \/ own[1].resident \/ at = 0 \/ runs[at].lcn = Hole THEN {}
      ELSE {(runs[at].lcn * Units) + k :
              k \in (own[1].size - Upto(at - 1)) .. (runs[at].length * Units - 1)}
slack(ino, stream) ==
  Told(stream_name(stream), SlackOf(SelectSeq(BaseData(entry_of(ino)), LAMBDA a : a.name = Unnamed),
                                    runs_by_record(entry_of(ino), Unnamed).val))

\* The maximal runs of free clusters, as pairs of start and length.
free_runs ==
  {r \in (0 .. Clusters - 1) \X (1 .. Clusters) :
     /\ r[1] + r[2] <= Clusters
     /\ \A c \in r[1] .. r[1] + r[2] - 1 : c \notin bitmap
     /\ (r[1] - 1) \in bitmap \cup {-1}
     /\ (r[1] + r[2]) \in bitmap \cup {Clusters}}
unallocated == UNION {r[1] .. r[1] + r[2] - 1 : r \in free_runs}

namespace_rank(ns) == CASE ns = "WIN32_AND_DOS" -> 3 [] ns = "WIN32" -> 2
                        [] ns = "POSIX" -> 1 [] OTHER -> 0

\* max_by_key: of several names of the highest rank, the last.
best_file_name(r) ==
  LET rank(i) == namespace_rank(r.names[i].ns)
      best == {i \in DOMAIN r.names : \A j \in DOMAIN r.names : rank(j) <= rank(i)}
  IN  r.names[Max(best)].name

\* The size in build_meta: of the unnamed $DATA in the base record, or 0.
meta_size(n) ==
  LET own == SelectSeq(BaseData(n), LAMBDA a : a.name = Unnamed)
  IN  IF own = <<>> THEN 0 ELSE own[1].size

mft_record_count_FirstRun == IF BaseData(MFT) = <<>> THEN 0 ELSE BaseData(MFT)[1].runs[1].length
mft_record_count == meta_size(MFT) \div Units

\* Records whose header parses and which are not in use, and which hold a name.
deleted_nodes ==
  LET read == {[entry |-> n, record |-> read_record(n)] : n \in 0 .. mft_record_count - 1}
      Recoverable(r) == r.ok /\ ~r.val.in_use /\ r.val.names # <<>>
  IN  {[id |-> FileId(x.entry, x.record.val.seq), name |-> best_file_name(x.record.val)] :
         x \in {x \in read : Recoverable(x.record)}}

-----------------------------------------------------------------------------
Opened == mft_runs # NotOpen

Assembled == mft_runs.ok /\ Expand(mft_runs.val) = mftAt

\* open assembles the whole $MFT, so that record n is found where it is for
\* every n, provided every extension record of the $MFT lies in the $MFT's
\* first fragment, through which bootstrap_mft_runs reads them all.
MftAssembledFromFirst ==
  Opened /\ (\A n \in ExtsOf(MFT) : n < rec[MFT].data[1].runs[1].length) => Assembled

\* A read of a live file's stream returns its contents and nothing else, cut
\* off at any cap, however its attributes are spread over records, its runs
\* over fragments, and whatever it shares the volume with.
ReadsContents ==
  mft_runs.ok =>
    \A n \in Live : \A s \in DOMAIN truth[n] : \A cap \in 0 .. truth[n][s].size + 1 :
      read_data_by_record(n, s, cap)
        = Ok(Contents(truth[n][s].cells, Min({cap, truth[n][s].size})))

\* The id a lookup gives.
IdOf(n) == FileId(n, rec[n].seq)

Honoured(n, listed) ==
  \A i \in DOMAIN listed :
    LET st == listed[i]
        t == truth[n][st.name]
    IN  /\ st.size = t.size
        /\ st.id = Default => meta_size(n) = t.size
        /\ extents(IdOf(n), st.id).ok <=> st.id = Default
        /\ \A j \in DOMAIN listed : listed[j].name = st.name => i = j
        /\ \A off \in 0 .. t.size, len \in 1 .. Units :
             read_at(IdOf(n), st.id, off, len)
               = SubSeq(Contents(t.cells, t.size), off + 1, Min({off + len, t.size}))

\* The streams data_streams lists are each listed once, with their sizes (the
\* default one's is that of build_meta), and
\* read_at honours their ids, at every window: "Resolving it back to the on-disk
\* name here is what makes an enumerated stream readable" (vfs.rs).  extents
\* answers for the default stream and refuses the others.
HandlesHonoured ==
  mft_runs.ok => \A n \in Live : Honoured(n, data_streams(IdOf(n)))

ClustersOf(p) == ToSet(IF p[2] = Unnamed THEN extents(IdOf(p[1]), Default).val
                       ELSE Expand(runs_by_record(p[1], p[2]).val))

\* Every cluster is the $MFT's, or in the runs of exactly one live stream
\* (those of a default stream told by extents), or reported unallocated.
ExtentsPartition ==
  mft_runs.ok =>
    LET streams == {p \in Live \X Streams : p[2] \in DOMAIN truth[p[1]]}
        clusters == [p \in streams |-> ClustersOf(p) \ {Hole}]
    IN  /\ ToSet(mftAt) \cup unallocated \cup UNION Range(clusters) = 0 .. Clusters - 1
        /\ ToSet(mftAt) \cap unallocated = {}
        /\ \A p \in streams : clusters[p] \cap (ToSet(mftAt) \cup unallocated) = {}
        /\ \A p, q \in streams : p # q => clusters[p] \cap clusters[q] = {}

\* The addresses of a stream's units from..to - 1 that are on the disk.
Addresses(n, s, from, to) ==
  UNION {{c * Units + (j % Units) : c \in {c \in bitmap : /\ disk[c] # Zero
                                                       /\ disk[c] = truth[n][s].cells[j \div Units + 1]}} :
         j \in from .. to - 1}

\* Slack is what is allocated to the stream behind its end, all of it when the
\* base record holds the stream's head, and never a unit of contents.
SlackBehindEnd ==
  mft_runs.ok =>
    \A n \in Live :
      LET t == truth[n][Unnamed]
          p == FirstPlace(n, Unnamed)
          behind == Addresses(n, Unnamed, t.size, Len(t.cells) * Units)
          told == slack(IdOf(n), Default).val
      IN  /\ told \subseteq behind
          /\ p[1] = n /\ ~AttrAt(p).resident => told = behind

\* extents, slack and unallocated account for the space of the volume: no
\* cluster twice or not at all, no unit of contents taken for slack.
SpaceAccounted == ExtentsPartition /\ SlackBehindEnd

\* Every file deleted whose record was not used again is recovered, under its
\* long name, and no other: also from a later fragment of the $MFT.
DeletedFound ==
  mft_runs.ok =>
    deleted_nodes = {[id |-> IdOf(n), name |-> "long"] :
                       n \in {n \in DOMAIN rec : ~rec[n].in_use /\ rec[n].names # <<>>}}
=============================================================================
