------------------------------ MODULE Analysis ------------------------------
(***************************************************************************)
(* The detectors of forensic/src/analysis.rs that relate several records of *)
(* the journal: bursts of deletions, clearing and isolated time changes.    *)
(***************************************************************************)
EXTENDS Correlation

CONSTANTS Window,     \* seconds between two wiping events of a burst: 60
          MinGroup,   \* wiping events that make a burst: 3
          TempWindow, \* the same for deletions of temporary files: 30
          TempGroup,  \* and 10
          GapLimit,   \* seconds between records that make a gap: 24 hours
          HighUsn     \* a first USN above it is high: 2^30

\* Repeated characters before the extension; and what is deleted in bulk.
is_sdelete_filename(name) == name = "AAA.tmp"
IsTemp(name) == name = "AAA.tmp"

BigEnough(group, min) == IF Len(group) >= min THEN <<group>> ELSE <<>>

Grouped_FromFirst(acc, r, window, min) ==
  IF r.ts - Head(acc.current).ts <= window THEN [acc EXCEPT !.current = Append(@, r)]
  ELSE [groups |-> acc.groups \o BigEnough(acc.current, min), current |-> <<r>>]

\* The next event joins the current group or begins a new one; a group that is
\* too small is dropped.
Grouped(acc, r, window, min) ==
  IF r.ts - Last(acc.current).ts <= window THEN [acc EXCEPT !.current = Append(@, r)]
  ELSE [groups |-> acc.groups \o BigEnough(acc.current, min), current |-> <<r>>]

Groups(events, window, min) ==
  LET acc == FoldLeft(LAMBDA x, r : Grouped(x, r, window, min),
                      [groups |-> <<>>, current |-> <<Head(events)>>], Tail(events))
  IN  IF Len(events) < min THEN <<>> ELSE acc.groups \o BigEnough(acc.current, min)

sdelete_events == SelectSeq(Journal, LAMBDA r :
  is_sdelete_filename(r.name) /\ r.reason \cap {"FILE_CREATE", "FILE_DELETE"} # {})

SecureDeletionIndicator(pattern, group, confidence) ==
  [pattern |-> pattern, filenames |-> [i \in DOMAIN group |-> group[i].name],
   time_start |-> Head(group).ts, time_end |-> Last(group).ts, confidence |-> confidence]

\* In tenths: creations and deletions together are more telling.
Confidence(group) ==
  IF \A reason \in {"FILE_CREATE", "FILE_DELETE"} : \E r \in Range(group) : reason \in r.reason
    THEN 9 ELSE 6

sdelete_groups == Groups(sdelete_events, Window, MinGroup)
detect_sdelete_patterns ==
  LET groups == sdelete_groups
  IN  [i \in DOMAIN groups |-> SecureDeletionIndicator("SDelete", groups[i], Confidence(groups[i]))]

tmp_deletes == SelectSeq(Journal, LAMBDA r : IsTemp(r.name) /\ "FILE_DELETE" \in r.reason)
temp_groups == Groups(tmp_deletes, TempWindow, TempGroup)
detect_bulk_temp_deletion ==
  LET groups == temp_groups
  IN  [i \in DOMAIN groups |-> SecureDeletionIndicator("BulkTempDeletion", groups[i], 7)]

detect_secure_deletion == detect_sdelete_patterns \o detect_bulk_temp_deletion

TimestampGap(r, q) ==
  [before |-> r.ts, after |-> q.ts, gap_duration |-> q.ts - r.ts,
   usn_before |-> r.usn, usn_after |-> q.usn]
timestamp_gaps ==
  LET places == SelectSeq([i \in 1 .. Len(Journal) - 1 |-> i],
                          LAMBDA i : Journal[i + 1].ts - Journal[i].ts > GapLimit)
  IN  [n \in DOMAIN places |-> TimestampGap(Journal[places[n]], Journal[places[n] + 1])]

JournalClearingResult(first_usn, gaps, confidence) ==
  [clearing_detected |-> confidence >= 4, first_usn |-> first_usn, timestamp_gaps |-> gaps,
   confidence |-> confidence]

\* In tenths: a high first USN counts 5, a gap 2, all gaps together at most 5.
Suspicion(usn, gaps) == (IF usn > HighUsn THEN 5 ELSE 0) + Min({2 * Len(gaps), 5})

detect_journal_clearing ==
  IF Journal = <<>> THEN JournalClearingResult(None, <<>>, 0)
  ELSE JournalClearingResult(Journal[1].usn, timestamp_gaps,
                             Suspicion(Journal[1].usn, timestamp_gaps))

DataChange == {"DATA_OVERWRITE", "DATA_EXTEND", "DATA_TRUNCATION", "FILE_CREATE"}
Apart(r, q) == IF q.ts >= r.ts THEN q.ts - r.ts ELSE r.ts - q.ts


has_nearby_data_change(r) ==
  \E q \in Range(Journal) : /\ q.entry = r.entry /\ q # r
                            /\ Apart(r, q) <= Window
                            /\ q.reason \cap DataChange # {}

\* In tenths: a time change alone is more telling than one among others.
TimestompIndicator(r) ==
  [filename |-> r.name, mft_entry |-> r.entry, change_timestamp |-> r.ts,
   has_nearby_data_change |-> FALSE,
   confidence |-> IF r.reason \ {"CLOSE"} = {"BASIC_INFO_CHANGE"} THEN 8 ELSE 5]

Isolated == SelectSeq(Journal, LAMBDA r : "BASIC_INFO_CHANGE" \in r.reason /\ ~has_nearby_data_change(r))

\* Grouped by entry, the groups in no particular order.
detect_timestomping == [i \in DOMAIN Isolated |-> TimestompIndicator(Isolated[i])]
=============================================================================
