---------------------------- MODULE LiveReaders ----------------------------
(***************************************************************************)
(* The readers of LiveVolume, on the disk as it is at any moment, and what *)
(* they promise.                                                           *)
(***************************************************************************)
EXTENDS LiveVolume

Failed == Unreadable

(***************************************************************************)
(* read_record: the block after apply_fixup; a caller reads its content.   *)
(***************************************************************************)
read_record(b) == Shown(disk[b])
Readable(b) == read_record(b) # Failed
Held(b) == read_record(b)[1].body

-----------------------------------------------------------------------------
(***************************************************************************)
(* directory_entries: the root's entries, then, in a large index, those of *)
(* every buffer that begins with INDX, whether or not it is in use; one    *)
(* torn buffer fails the listing.  A list of nodes, each a set of entries. *)
(***************************************************************************)
Indx(b) == disk[b][1].data # Blank

parse_index_buffer(b) == Held(b).entries

IndexBuffers_InFull(d) == IF d.large THEN SelectSeq(Tail(BufOrder), Indx) ELSE <<>>

IndexBuffers(d) == IF d.large THEN SelectSeq(BufOrder, Indx) ELSE <<>>

ListedNodes(d, bufs) ==
  IF \E i \in DOMAIN bufs : ~Readable(bufs[i]) THEN Failed
  ELSE <<d.root>> \o [i \in DOMAIN bufs |-> parse_index_buffer(bufs[i])]

directory_entries ==
  IF ~Readable("dir") THEN Failed
  ELSE ListedNodes(Held("dir"), IndexBuffers(Held("dir")))

Listed == UNION {directory_entries[i] : i \in DOMAIN directory_entries}

(***************************************************************************)
(* The entries a search by name may end at: those of the first node that   *)
(* has one.  lookup compares exactly, resolve_path without case.           *)
(***************************************************************************)
FirstHits(nodes, names) ==
  LET Hits(i) == {e \in nodes[i] : e.name \in names}
      at == {i \in DOMAIN nodes : Hits(i) # {}}
  IN  IF at = {} THEN {} ELSE Hits(CHOOSE i \in at : \A j \in at : i <= j)

lookup(n) == FirstHits(directory_entries, {n})
resolve_path(n) == FirstHits(directory_entries, {m \in AnyName : Fold[m] = Fold[n]})

(***************************************************************************)
(* read_dir asks the record an entry names, whatever its sequence number,  *)
(* for a special kind; a record that cannot be read makes it a file.       *)
(***************************************************************************)
DirEntryKind(e) ==
  IF Readable(e.file) /\ Rec!special_kind(Held(e.file)) # None
  THEN Rec!special_kind(Held(e.file)) ELSE "File"

(***************************************************************************)
(* MftData::parse skips a record that apply_fixup refuses; the carver does *)
(* not apply it and reads the header and the names off the raw sectors.    *)
(***************************************************************************)
MftData(f) == IF Readable(f) THEN Rec!MftEntry(Held(f)) ELSE None
get_by_entry(f) == MftData(f)
get_by_key(f, seq) == IF MftData(f) # None /\ MftData(f).seq = seq THEN MftData(f) ELSE None

carve_mft_entries(f) == Rec!try_carve_entry(disk[f][1].data)

MftCarvingStats ==
  LET carved == {f \in Files : carve_mft_entries(f) # None}
  IN  [candidates_examined |-> Cardinality(Files), entries_carved |-> Cardinality(carved),
       rejected |-> Cardinality(Files \ carved)]

audit_record(f) == Rec!audit_components(Held(f))

(***************************************************************************)
(* compare_mft_mirror on raw sectors: which of the four records match, and *)
(* where they differ.  The driver here changes only the first.             *)
(***************************************************************************)
MIRROR_NAMES == <<"$MFT", "$MFTMirr", "$LogFile", "$Volume">>

Differing(i) == IF i = 1 THEN {s \in SectorNo : disk["mft"][s] # disk["mirr"][s]} ELSE {}
MirrorComparison(diff) ==
  [matches |-> [i \in DOMAIN diff |-> diff[i] = {}], diff_offsets |-> diff,
   is_consistent |-> \A i \in DOMAIN diff : diff[i] = {}]
compare_mft_mirror == MirrorComparison([i \in DOMAIN MIRROR_NAMES |-> Differing(i)])

mismatched_names(c) == {MIRROR_NAMES[i] : i \in {i \in DOMAIN c.matches : ~c.matches[i]}}
ArtifactAnomaly(code, severity, records) == [code |-> code, severity |-> severity, records |-> records]
audit_mft_mirror ==
  IF compare_mft_mirror.is_consistent THEN {}
  ELSE {ArtifactAnomaly("NTFS-MFTMIRR-MISMATCH", "High", mismatched_names(compare_mft_mirror))}

-----------------------------------------------------------------------------
Settled == ~off /\ Busy = {}

(***************************************************************************)
(* The record an entry names knows the entry: it is in use, with the       *)
(* entry's sequence number and name.                                       *)
(***************************************************************************)
Confirmed(e) ==
  /\ Held(e.file).used /\ Held(e.file).seq = e.seq
  /\ \E i \in DOMAIN Held(e.file).names : Held(e.file).names[i].name = e.name

(***************************************************************************)
(* directory_entries does not consult the index's bitmap, so it also lists *)
(* what is left in buffers that have been given up.  On a volume at rest   *)
(* nothing that lives is missing and nothing listed was never there; the   *)
(* listed entries that live are exactly those their records confirm; a     *)
(* name that lives is found with its own kind, by lookup unless a leftover  *)
(* bears it, by resolve_path unless another name differs only in case.     *)
(***************************************************************************)
ListingExact ==
  /\ directory_entries # Failed => Listed \subseteq ever
  /\ Settled =>
       /\ directory_entries # Failed
       /\ Live \subseteq Listed
       /\ \A e \in Listed : e \in Live <=> Confirmed(e)
       /\ \A e \in Live :
            /\ DirEntryKind(e) = Rec!build_meta(mem[e.file]).kind
            /\ lookup(e.name) # {e} => \E h \in lookup(e.name) : ~Confirmed(h)
            /\ resolve_path(e.name) # {e} =>
                 \E h \in resolve_path(e.name) :
                   ~Confirmed(h) \/ (h.name # e.name /\ Fold[h.name] = Fold[e.name])

(***************************************************************************)
(* Index and records tell the same links: on a volume at rest the hard     *)
(* links of a file's record are its entries in the directory without the   *)
(* 8.3 aliases.  The three ways to choose a name never choose the alias of *)
(* a longer one, and choose the same for a file that has one link.  The    *)
(* reference of a listed entry finds a record in use in the parsed $MFT    *)
(* when and only when the file it was made for lives.                      *)
(***************************************************************************)
NameSet(names) == {names[i].name : i \in DOMAIN names}

ChosenNames(c) == {Rec!MftBestName(c.names).name, Rec!best_file_name(c.names).name,
                   Rec!CarveBestName(c.names).name}

NamesAgree ==
  \A f \in Files :
    /\ Settled /\ mem[f].used =>
         /\ NameSet(Rec!hardlinks(Held(f))) =
              {e.name : e \in {e \in Live : e.file = f}}
                \ {n \in AnyName : \E i \in DOMAIN mem[f].names :
                                     mem[f].names[i] = Rec!NameAttr(n, Rec!DOS, mem[f].names[i].created)}
         /\ ChosenNames(Held(f)) \subseteq NameSet(Rec!hardlinks(Held(f)))
         /\ Len(Rec!hardlinks(Held(f))) = 1 => Cardinality(ChosenNames(Held(f))) = 1
    /\ Readable(f) /\ Held(f).names # <<>> =>
         /\ MftData(f) # None
         /\ carve_mft_entries(f).seq = MftData(f).seq
         /\ carve_mft_entries(f).name \in {MftData(f).name, Garbled}
    /\ Settled => \A e \in {e \in Listed : e.file = f} :
         /\ e \in Live => get_by_entry(f) = get_by_key(f, e.seq)
         /\ (get_by_key(f, e.seq) # None /\ get_by_key(f, e.seq).used)
              <=> \E live \in Live : live.file = f /\ live.seq = e.seq
    /\ Settled => MftCarvingStats.entries_carved = Cardinality({g \in Files : MftData(g) # None})

(***************************************************************************)
(* What the audit says of a record that can be read, and of the mirror:    *)
(* a record is called deleted when its file is, forged when and only when  *)
(* its creation time was set back, and the mirror differs only while a     *)
(* change of the $MFT record is on its way to the two, or was when power   *)
(* was lost; two that can be read and do not say the same are reported.    *)
(***************************************************************************)
Codes(f) == {a.code : a \in audit_record(f)}

=============================================================================
