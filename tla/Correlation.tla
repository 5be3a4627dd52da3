---------------------------- MODULE Correlation -----------------------------
(***************************************************************************)
(* The CorrelationEngine of forensic/src/correlation.rs over the records of *)
(* the journal, those logfile from the $LogFile and the $MFT.             *)
(***************************************************************************)
EXTENDS UsnExtractor

CONSTANTS Tolerance,  \* seconds $SI may be early without being a conflict: 2
          None          \* the value of an Option that holds nothing

Recovered == extract_usn_from_logfile
Epoch == 0

\* What identifies a record in both sources.
Key(r) == <<r.entry, r.usn, r.ts>>
Keys(records) == {Key(r) : r \in Range(records)}
RecoveredKeys(logfile) == {Key(x.record) : x \in Range(logfile)}
Absent(logfile, keys) == SelectSeq(logfile, LAMBDA x : Key(x.record) \notin keys)
LogOnly(usn, logfile) == Absent(logfile, Keys(usn))

\* The places of a sequence of times, in the order of a stable sort.
ByTime(ts) ==
  SortSeq([i \in DOMAIN ts |-> i], LAMBDA i, j : ts[i] < ts[j] \/ (ts[i] = ts[j] /\ i < j))

\* The log holds copies of a record: logfile_by_key keeps the last one's LSN.
logfile_by_key(key, logfile) == Last(SelectSeq(logfile, LAMBDA x : Key(x.record) = key)).lsn

CorrelatedEvent(record, source, lsn) == [record |-> record, source |-> source, lsn |-> lsn]

OfJournal_NeverBoth(r, logfile, both) == CorrelatedEvent(r, "UsnJournal", None)
OfJournal(r, logfile, both) ==
  IF Key(r) \in both THEN CorrelatedEvent(r, "Both", logfile_by_key(Key(r), logfile))
  ELSE CorrelatedEvent(r, "UsnJournal", None)

\* The journal's records, then those only the log has.
Events(usn, others, logfile, both) ==
  [i \in DOMAIN usn |-> OfJournal(usn[i], logfile, both)]
    \o [i \in DOMAIN others |-> CorrelatedEvent(others[i].record, "LogFile", others[i].lsn)]

Ordered(events, order) == [i \in DOMAIN order |-> events[order[i]]]
Sorted(events) == Ordered(events, ByTime([i \in DOMAIN events |-> events[i].record.ts]))

build_timeline(usn, logfile) ==
  Sorted(Events(usn, LogOnly(usn, logfile), logfile, RecoveredKeys(logfile)))

GhostRecord(x) == [record |-> x.record, lsn |-> x.lsn]
Ghosts(others) == [i \in DOMAIN others |-> GhostRecord(others[i])]
find_ghost_records(usn, logfile) == Ghosts(LogOnly(usn, logfile))

Stamps(records) == {r.ts : r \in Range(records)}
RecoveredStamps(logfile) == {x.record.ts : x \in Range(logfile)}
OrElse(stamps, Pick(_), default) == IF stamps = {} THEN default ELSE Pick(stamps)

logfile_extends_before_usn_OrEqual(usn, lf) == usn # {} /\ lf # {} /\ Min(lf) <= Min(usn)
logfile_extends_before_usn(usn, lf) == usn # {} /\ lf # {} /\ Min(lf) < Min(usn)

CoverageAnalysis(usn, lf, usn_count, lf_count) ==
  [usn_earliest_ts |-> OrElse(usn, Min, Epoch), usn_latest_ts |-> OrElse(usn, Max, Epoch),
   usn_record_count |-> usn_count,
   logfile_earliest_ts |-> OrElse(lf, Min, None), logfile_latest_ts |-> OrElse(lf, Max, None),
   logfile_record_count |-> lf_count,
   logfile_extends_before_usn |-> logfile_extends_before_usn(usn, lf)]
analyze_coverage(usn, logfile) ==
  CoverageAnalysis(Stamps(usn), RecoveredStamps(logfile), Len(usn), Len(logfile))

Creations_Latest(usn, e) ==
  LET at == {r.ts : r \in {r \in Range(usn) : r.entry = e /\ "FILE_CREATE" \in r.reason}}
  IN  IF at = {} THEN {} ELSE {Max(at)}
\* The times at which the journal says that entry e was created.
Creations(usn, e) == {r.ts : r \in {r \in Range(usn) : r.entry = e /\ "FILE_CREATE" \in r.reason}}

TimestampConflict(e, usn_create_ts) ==
  [mft_entry |-> e, filename |-> mft[e].name, conflict_type |-> "SiPredatesUsnCreate",
   si_timestamp |-> mft[e].si_created, usn_timestamp |-> usn_create_ts]

\* By $SI the entry's file is older than the journal says.
Conflicting(e, created) ==
  /\ mft[e] # Unused /\ created # {}
  /\ Min(created) - mft[e].si_created > Tolerance

find_timestamp_conflicts(usn) ==
  {TimestampConflict(e, Min(Creations(usn, e))) :
     e \in {e \in Entries : Conflicting(e, Creations(usn, e))}}

EntryReuse(prev, r) ==
  [mft_entry |-> r.entry, old_sequence |-> prev.seq, new_sequence |-> r.seq,
   old_filename |-> prev.name, new_filename |-> r.name, reuse_timestamp |-> r.ts]

LastSeen_First(sorted, i) == Min({j \in 1 .. i - 1 : sorted[j].entry = sorted[i].entry} \cup {i})
\* The entry's record before the i-th one, itself when there is none.
LastSeen(sorted, i) ==
  LET before == {j \in 1 .. i - 1 : sorted[j].entry = sorted[i].entry}
  IN  IF before = {} THEN i ELSE Max(before)

\* The records whose sequence differs from the one last seen of their entry.
Reuses(sorted) ==
  LET places == SelectSeq([i \in DOMAIN sorted |-> i],
                          LAMBDA i : sorted[LastSeen(sorted, i)].seq # sorted[i].seq)
  IN  [n \in DOMAIN places |-> EntryReuse(sorted[LastSeen(sorted, places[n])], sorted[places[n]])]

detect_entry_reuse(usn) == Reuses(Ordered(usn, ByTime([i \in DOMAIN usn |-> usn[i].ts])))

TriForceReport(timeline, ghosts, coverage, conflicts, reuses) ==
  [timeline_event_count |-> Len(timeline), ghost_record_count |-> Len(ghosts),
   journal_clearing_suspected |-> coverage.logfile_extends_before_usn,
   timestamp_conflict_count |-> Cardinality(conflicts), entry_reuse_count |-> Len(reuses),
   coverage |-> coverage]

generate_report(usn, logfile) ==
  TriForceReport(build_timeline(usn, logfile), find_ghost_records(usn, logfile),
                 analyze_coverage(usn, logfile), find_timestamp_conflicts(usn),
                 detect_entry_reuse(usn))

\* Every record seen replaces the name.
Newest(records) == Last(records).name


FileActivitySummary(k, records) ==
  [mft_entry |-> k[1], mft_sequence |-> k[2], filename |-> Newest(records),
   event_count |-> Len(records), first_seen |-> Min(Stamps(records)),
   last_seen |-> Max(Stamps(records)), reasons |-> UNION {r.reason : r \in Range(records)}]

\* One summary per file, that is, per entry and sequence.
summarize_file_activity(usn) ==
  {FileActivitySummary(k, SelectSeq(usn, LAMBDA r : <<r.entry, r.seq>> = k)) :
     k \in {<<r.entry, r.seq>> : r \in Range(usn)}}
=============================================================================
