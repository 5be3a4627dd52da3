---------------------------- MODULE UsnExtractor ----------------------------
(***************************************************************************)
(* core/src/logfile/usn_extractor.rs: the USN records embedded in the       *)
(* record pages of a $LogFile.                                              *)
(***************************************************************************)
EXTENDS Activity

Found(lsn, source, i) == [lsn |-> lsn, source |-> source, record |-> written[i]]

\* The first place of a page that holds no log record; the page may be full.
EndOfRecords(page) == Min({i \in 1 .. PageUnits : page[i] = NoRecord} \cup {PageUnits + 1})

OfRecord_UndoToo(lsn) ==
  [i \in 1 .. (IF Undo(lsn) # NoRecord THEN 2 ELSE 1) |-> Found(lsn, "RedoData", lsn)]

\* The redo data of a log record, and its undo data unless that is the same
\* region.
OfRecord(lsn) ==
  <<Found(lsn, "RedoData", Redo(lsn))>>
    \o (IF Undo(lsn) \notin {NoRecord, Redo(lsn)} THEN <<Found(lsn, "UndoData", Undo(lsn))>>
        ELSE <<>>)

\* The log records of a page, then whatever the rest of it still holds.  The
\* word of the page header that slack is reported under is meant to be the
\* page's last LSN; on disk it is the place of the next record, as
\* parse_log_records reads it.
extract_from_rcrd_page(page) ==
  LET end == EndOfRecords(page)
      rest == SelectSeq(SubSeq(page, end, PageUnits), LAMBDA x : x # NoRecord)
      page_lsn == end
  IN  FlattenSeq([i \in 1 .. end - 1 |-> OfRecord(page[i])])
        \o [i \in DOMAIN rest |-> Found(page_lsn, "PageSlack", rest[i])]

\* Pages in the order of the file; pages never written lack the signature.
extract_usn_from_logfile ==
  LET page(p) == IF log[p][1] = NoRecord THEN <<>> ELSE extract_from_rcrd_page(log[p])
  IN  FlattenSeq([p \in 1 .. LogPages + 1 |-> page(p - 1)])
=============================================================================
