------------------------------ MODULE Structures ------------------------------
(***************************************************************************)
(* The variable-length structures of NTFS metadata and the loops that walk *)
(* them: attributes (core/src/attribute.rs), $ATTRIBUTE_LIST entries       *)
(* (core/src/attribute_list.rs), directory index entries with their        *)
(* embedded $FILE_NAME (core/src/index.rs, file_name.rs), and the checks   *)
(* of the update sequence array (core/src/record.rs); and what is taken    *)
(* from them: the volume's label (vfs.rs), $STANDARD_INFORMATION           *)
(* (standard_information.rs), and the records of a raw region (carve.rs,   *)
(* forensic/src/lib.rs).                                                   *)
(*                                                                         *)
(* A buffer is a sequence of cells of eight bytes, the alignment of all    *)
(* these structures; every length, offset and minimum below is the code's, *)
(* in cells.  A cell is what the loop would decode if it read a header     *)
(* there: a header the volume really has at that place, or, within a body, *)
(* whatever those bytes happen to spell.                                   *)
(***************************************************************************)
EXTENDS Integers, SequencesExt

CONSTANT None

\* Ok(found) and Err(..).
Found(found) == [ok |-> TRUE, found |-> found]
Refused      == [ok |-> FALSE, found |-> <<>>]

-----------------------------------------------------------------------------
(* Attributes: 0x10, 0x18 and 0x40 bytes. *)
HEADER_MIN      == 2
RESIDENT_MIN    == 3
NONRESIDENT_MIN == 8

\* An attribute header; name and content are where they claim to end, counted
\* from the header (0: no name).
Attribute(type_code, length, name, non_resident, content) ==
  [type_code |-> type_code, length |-> length, name |-> name,
   non_resident |-> non_resident, content |-> content]

\* A check that forgets the attribute's own bounds.
AttributeOkLoose(cells, pos, h) ==
  /\ pos + HEADER_MIN - 1 <= Len(cells)
  /\ h.length >= HEADER_MIN
  /\ pos + h.length - 1 <= Len(cells)

\* The tests a header at pos must pass before it is taken.
AttributeOk(cells, pos, h) ==
  /\ pos + HEADER_MIN - 1 <= Len(cells)
  /\ h.length >= HEADER_MIN
  /\ pos + h.length - 1 <= Len(cells)
  /\ h.name <= h.length
  /\ IF h.non_resident THEN NONRESIDENT_MIN <= h.length
                       ELSE RESIDENT_MIN <= h.length /\ h.content <= h.length

RECURSIVE WalkAttributes(_, _, _)

WalkAttributes(cells, pos, found) ==
  IF pos > Len(cells) \/ cells[pos].type_code = "END"
    THEN Found(found)
  ELSE IF AttributeOk(cells, pos, cells[pos])
    THEN WalkAttributes(cells, pos + cells[pos].length,
                        Append(found, [at |-> pos, header |-> cells[pos]]))
    ELSE Refused

parse_attributes(cells, first_attr_offset) == WalkAttributes(cells, first_attr_offset, <<>>)

\* The cells of a resident value; None for a non-resident attribute.
resident_content(a) == IF a.header.non_resident THEN None ELSE a.at + a.header.content - 1

\* The place of the label: the first $VOLUME_NAME, if it is resident and holds
\* anything (its value, if any, begins behind the header).
LabelIn(named) ==
  IF \/ named = <<>> \/ named[1].header.non_resident
     \/ named[1].header.content = RESIDENT_MIN
    THEN None ELSE named[1].at
volume_label(parsed) ==
  IF parsed.ok THEN LabelIn(SelectSeq(parsed.found, LAMBDA a : a.header.type_code = "VOLUME_NAME"))
  ELSE None

-----------------------------------------------------------------------------
(* $STANDARD_INFORMATION: 0x30 bytes, 0x48 from version 3 on. *)
SI_MIN == 6
SI_V3  == 9

StandardInformation(content) ==
  IF Len(content) < SI_MIN
    THEN None
    ELSE [created |-> content[1], modified |-> content[2], mft_modified |-> content[3],
          accessed |-> content[4], file_attributes |-> content[5],
          security_id |-> IF Len(content) >= SI_V3 THEN content[7] ELSE None,
          usn |-> IF Len(content) >= SI_V3 THEN content[9] ELSE None]

-----------------------------------------------------------------------------
(* Records in a raw region, as the signature (or none) at each 512 bytes.  *)
(* The carver looks at every 1024 bytes for FILE, the audit's at every     *)
(* record_size for FILE or BAAD.                                           *)
CARVE_STEP == 2

carve_file_records(region, record_size) ==
  IF record_size = 0 THEN {}
  ELSE { i \in DOMAIN region : (i - 1) % record_size = 0 /\ region[i] \in {"FILE", "BAAD"} }

carve_candidates(region) ==
  { i \in DOMAIN region : /\ (i - 1) % CARVE_STEP = 0 /\ region[i] = "FILE"
                          /\ i + CARVE_STEP - 1 <= Len(region) }

-----------------------------------------------------------------------------
(* $ATTRIBUTE_LIST entries: 0x1A bytes, padded to 0x20. *)
LIST_ENTRY_MIN == 4

AttributeListEntry(id, length, name) == [id |-> id, length |-> length, name |-> name]

RECURSIVE WalkList(_, _, _)

WalkList(cells, pos, found) ==
  IF pos + LIST_ENTRY_MIN - 1 > Len(cells)
    THEN Found(found)
  ELSE IF /\ cells[pos].length >= LIST_ENTRY_MIN
          /\ pos + cells[pos].length - 1 <= Len(cells)
          /\ cells[pos].name <= cells[pos].length
    THEN WalkList(cells, pos + cells[pos].length,
                  Append(found, [at |-> pos, header |-> cells[pos]]))
    ELSE Refused

parse_list(cells) == WalkList(cells, 1, <<>>)

-----------------------------------------------------------------------------
(* Index entries: 0x10 bytes of header, a VCN of 8 at the very end. *)
ENTRY_MIN        == 2
INDEX_HEADER_LEN == 2
ROOT_HEADER_LEN  == 2
FN_MIN           == 9

\* An index entry; stream is the length of its $FILE_NAME and name where the
\* name inside that stream claims to end.
IndexEntry(id, length, stream, name, last, subnode) ==
  [id |-> id, length |-> length, stream |-> stream, name |-> name,
   last |-> last, subnode |-> subnode]

\* FileName::parse on a stream.
FileNameOk(h) == FN_MIN <= h.stream /\ h.name <= h.stream

EntryOk(pos, end, h) ==
  /\ h.length >= ENTRY_MIN
  /\ pos + h.length <= end
  /\ h.subnode => h.length >= ENTRY_MIN + 1
  /\ ~ h.last => ENTRY_MIN + h.stream <= h.length /\ FileNameOk(h)

RECURSIVE WalkEntries(_, _, _, _)

WalkEntries(cells, pos, end, found) ==
  IF pos + ENTRY_MIN > end
    THEN Found(found)
  ELSE IF ~ EntryOk(pos, end, cells[pos])
    THEN Refused
  ELSE IF cells[pos].last
    THEN Found(Append(found, [at |-> pos, header |-> cells[pos]]))
    ELSE WalkEntries(cells, pos + cells[pos].length, end,
                     Append(found, [at |-> pos, header |-> cells[pos]]))

parse_entries(cells, start, end) ==
  IF end > Len(cells) + 1 \/ start > end THEN Refused ELSE WalkEntries(cells, start, end, <<>>)

\* The index header at base: first_entry and total_size count from base.
parse_index_header(cells, base, first_entry, total_size) ==
  IF \/ base + INDEX_HEADER_LEN > Len(cells) + 1
     \/ first_entry < INDEX_HEADER_LEN
     \/ base + total_size > Len(cells) + 1
     \/ first_entry > total_size
    THEN Refused
    ELSE parse_entries(cells, base + first_entry, base + total_size)

\* IndexRoot::parse: the root header, then the index header.
IndexRoot(cells, first_entry, total_size) ==
  IF Len(cells) < ROOT_HEADER_LEN + INDEX_HEADER_LEN
    THEN Refused
    ELSE parse_index_header(cells, 1 + ROOT_HEADER_LEN, first_entry, total_size)

-----------------------------------------------------------------------------
(* The update sequence array, in bytes. *)
RECORD_HEADER_LEN == 48

\* apply_fixup's tests before it touches the buffer.
FixupAccepted(len, sector_size, usa_offset, usa_count) ==
  /\ len >= RECORD_HEADER_LEN
  /\ sector_size >= 2
  /\ usa_count # 0
  /\ usa_offset + 2 * usa_count <= len
  /\ (usa_count - 1) * sector_size <= len

\* The bytes it then reads and writes.
FixupTouches(sector_size, usa_offset, usa_count) ==
  (usa_offset .. usa_offset + 2 * usa_count - 1)
    \cup UNION { { i * sector_size - 2, i * sector_size - 1 } : i \in 1 .. usa_count - 1 }

=============================================================================
