------------------------------ MODULE UsnFields ------------------------------
(***************************************************************************)
(* What is taken for a USN record: the field checks of the parsers         *)
(* (core/src/usn/record.rs), of the extractor that scans $LogFile data     *)
(* (core/src/logfile/usn_extractor.rs) and of the carver                   *)
(* (core/src/usn/carver.rs).                                               *)
(*                                                                         *)
(* A buffer is a sequence of cells of eight bytes, the alignment of the    *)
(* records; a cell is the header a scan would decode there.  Lengths and   *)
(* offsets in a header are in bytes.                                       *)
(***************************************************************************)
EXTENDS Integers, SequencesExt

CONSTANT None

USN_V2_MIN_SIZE     == 60
USN_V3_MIN_SIZE     == 76
USN_MAX_RECORD_SIZE == 65536

Header(version, length, name_at, name_len, time, entry, sequence) ==
  [version |-> version, length |-> length, name_at |-> name_at, name_len |-> name_len,
   time |-> time, entry |-> entry, sequence |-> sequence]

\* Times in ticks, PER_SECOND to the second; the distances between the dates
\* the code knows are scaled down.
PER_SECOND    == 4
EPOCH_DIFF    == 12
FILETIME_2000 == 24
FILETIME_2030 == 36

filetime_to_datetime(ft) ==
  IF ft <= 0 \/ ft - EPOCH_DIFF < 0 THEN None
  ELSE [secs |-> (ft - EPOCH_DIFF) \div PER_SECOND, sub |-> (ft - EPOCH_DIFF) % PER_SECOND]

Epoch == [secs |-> 0, sub |-> 0]
timestamp(ft) == IF filetime_to_datetime(ft) = None THEN Epoch ELSE filetime_to_datetime(ft)

\* A name is the bytes it was read from, in whole characters; <<>>: none.
filename(h, given) ==
  IF h.name_at + h.name_len <= given /\ h.name_len >= 2
    THEN <<h.name_at, h.name_len - (h.name_len % 2)>> ELSE <<>>

UsnRecord(h, sequence, given) ==
  [major_version |-> h.version, mft_entry |-> h.entry, mft_sequence |-> sequence,
   timestamp |-> timestamp(h.time), filename |-> filename(h, given)]

\* A parser is given the first `given' bytes from the header on.
parse_usn_record_v2(h, given) ==
  IF \/ given < USN_V2_MIN_SIZE
     \/ h.length \notin USN_V2_MIN_SIZE .. USN_MAX_RECORD_SIZE
     \/ h.length > given
    THEN None ELSE UsnRecord(h, h.sequence, given)

\* A version 3 record has no sequence number.
parse_usn_record_v3(h, given) ==
  IF \/ given < USN_V3_MIN_SIZE
     \/ h.length \notin USN_V3_MIN_SIZE .. USN_MAX_RECORD_SIZE
    THEN None ELSE UsnRecord(h, 0, given)

\* The bytes of a buffer from cell pos on, and the cells a record takes up.
BytesFrom(cells, pos) == 8 * (Len(cells) + 1 - pos)
CellsOf(length) == (length + 7) \div 8

-----------------------------------------------------------------------------
try_parse_usn_at(cells, pos) ==
  IF \/ USN_V2_MIN_SIZE > BytesFrom(cells, pos)
     \/ cells[pos].length \notin USN_V2_MIN_SIZE .. USN_MAX_RECORD_SIZE
     \/ cells[pos].length > BytesFrom(cells, pos)
     \/ cells[pos].version # 2
    THEN None ELSE parse_usn_record_v2(cells[pos], cells[pos].length)

Hit(pos, h, record) == [at |-> pos, length |-> h.length, record |-> record]

RECURSIVE ScanFrom(_, _, _)
ScanFrom(cells, pos, found) ==
  IF USN_V2_MIN_SIZE > BytesFrom(cells, pos)
    THEN found
  ELSE IF try_parse_usn_at(cells, pos) # None
    THEN ScanFrom(cells, pos + CellsOf(cells[pos].length),
                  Append(found, Hit(pos, cells[pos], try_parse_usn_at(cells, pos))))
    ELSE ScanFrom(cells, pos + 1, found)

scan_for_usn_records(cells) == ScanFrom(cells, 1, <<>>)

-----------------------------------------------------------------------------
CarvingStats == [candidates_examined |-> 0, records_carved |-> 0,
                 rejected_timestamp |-> 0, rejected_structure |-> 0]

is_valid_timestamp(ft) == ft \in FILETIME_2000 .. FILETIME_2030

\* The name must lie right behind the header, whole, within the record.
NameSound(h, min) ==
  /\ h.name_at = min
  /\ h.name_at + h.name_len <= h.length
  /\ h.name_len # 0 /\ h.name_len % 2 = 0

\* try_carve_v2 and try_carve_v3: what becomes of a candidate.
Verdict(h, min, record) ==
  IF ~ NameSound(h, min) THEN "rejected_structure"
  ELSE IF ~ is_valid_timestamp(h.time) THEN "rejected_timestamp"
  ELSE IF record = None THEN "rejected_structure"
  ELSE "records_carved"

MinOf(version) == IF version = 2 THEN USN_V2_MIN_SIZE ELSE USN_V3_MIN_SIZE
Parsed(h) == IF h.version = 2 THEN parse_usn_record_v2(h, h.length)
                              ELSE parse_usn_record_v3(h, h.length)

Candidate(cells, pos) ==
  /\ cells[pos].length # 0
  /\ cells[pos].version \in {2, 3}
  /\ cells[pos].length \in MinOf(cells[pos].version) .. USN_MAX_RECORD_SIZE
  /\ cells[pos].length <= BytesFrom(cells, pos)

RECURSIVE CarveFrom(_, _, _, _)
Carved(cells, pos, found, stats, verdict) ==
  IF verdict = "records_carved"
    THEN CarveFrom(cells, pos + CellsOf(cells[pos].length),
                   Append(found, Hit(pos, cells[pos], Parsed(cells[pos]))), stats)
    ELSE CarveFrom(cells, pos + 1, found, [stats EXCEPT ![verdict] = @ + 1])

CarveFrom(cells, pos, found, stats) ==
  IF pos > Len(cells)
    THEN [found |-> found, stats |-> [stats EXCEPT !.records_carved = Len(found)]]
  ELSE IF Candidate(cells, pos)
    THEN Carved(cells, pos, found, [stats EXCEPT !.candidates_examined = @ + 1],
                Verdict(cells[pos], MinOf(cells[pos].version), Parsed(cells[pos])))
    ELSE CarveFrom(cells, pos + 1, found, stats)

carve_usn_records(cells) == CarveFrom(cells, 1, <<>>, CarvingStats)

-----------------------------------------------------------------------------
(***************************************************************************)
(* Record pages whose log records may be damaged.  The data area of a page *)
(* is a sequence of cells, seen in two ways: `log' is what the walk over   *)
(* log records would decode at each cell, `usn' what a scan for USN        *)
(* records would.  Regions of redo and undo data are whole cells.          *)
(***************************************************************************)
LOG_RECORD_HEADER_MIN == 64
LFS_HEADER            == 48

\* lsn = 0: the first eight bytes are zero.
LogHeader(lsn, client_data_length, redo, undo) ==
  [lsn |-> lsn, client_data_length |-> client_data_length, redo |-> redo, undo |-> undo]
Region(offset, length) == [offset |-> offset, length |-> length]
NoRegion == Region(0, 0)

LogFileUsnRecord(lsn, source, hit) == [lsn |-> lsn, source |-> source, record |-> hit.record]

\* The USN records in the cells from `start' to `end'.
Embedded(page, start, end, lsn, source) ==
  LET hits == scan_for_usn_records(SubSeq(page.usn, start, end))
  IN  [i \in DOMAIN hits |-> LogFileUsnRecord(lsn, source, hits[i])]

RegionStart(pos, region) == pos + (LFS_HEADER + region.offset) \div 8

OfRegion(page, pos, region, lsn, source) ==
  LET start == RegionStart(pos, region)
  IN  IF /\ region.length >= USN_V2_MIN_SIZE /\ region.offset > 0
         /\ region.length <= BytesFrom(page.usn, start)
        THEN Embedded(page, start, start + region.length \div 8 - 1, lsn, source)
        ELSE <<>>

\* The undo data is scanned unless it is the region of the redo data.
OfLogRecord(page, pos, h) ==
  OfRegion(page, pos, h.redo, h.lsn, "RedoData")
    \o (IF h.undo = h.redo THEN <<>> ELSE OfRegion(page, pos, h.undo, h.lsn, "UndoData"))

\* A record without client data may be padding: the next cell is tried.
StepOver(h) ==
  IF h.client_data_length = 0 THEN 1 ELSE CellsOf(LFS_HEADER + h.client_data_length)

RECURSIVE WalkLogRecords(_, _, _)
WalkLogRecords(page, pos, found) ==
  IF LOG_RECORD_HEADER_MIN > BytesFrom(page.log, pos) \/ page.log[pos].lsn = 0
    THEN [end |-> pos, found |-> found]
    ELSE WalkLogRecords(page, pos + StepOver(page.log[pos]),
                        found \o OfLogRecord(page, pos, page.log[pos]))

\* What is behind the last log record is scanned as slack; a walk that left the
\* page leaves none.
extract_from_rcrd_page(page, page_lsn) ==
  LET walk == WalkLogRecords(page, 1, <<>>)
  IN  walk.found \o Embedded(page, walk.end, Len(page.usn), page_lsn, "PageSlack")
=============================================================================
