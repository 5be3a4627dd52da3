------------------------------ MODULE Evidence ------------------------------
(***************************************************************************)
(* What the correlation and the detectors say of an image taken at any      *)
(* moment, against what really happened on the volume.                      *)
(***************************************************************************)
EXTENDS Analysis

vars == activityVars

Init == ActivityInit
Next == ActivityNext
Spec == Init /\ [][Next]_vars

-----------------------------------------------------------------------------
Copies(i) == Cardinality({x \in (DOMAIN log) \X (1 .. PageUnits) : log[x[1]][x[2]] = i})

\* extract_usn_from_logfile finds every copy of a record in the log once: in
\* full pages, in the page being filled, in its copy, and in what is left of
\* earlier laps behind the last record of a page. What comes from redo or undo
\* data is reported under the LSN of the log record that holds it.
EveryCopyOnce ==
  LET all == Recovered
  IN  /\ \A i \in DOMAIN written :
           Cardinality({k \in DOMAIN all : all[k].record = written[i]}) = Copies(i)
      /\ \A k \in DOMAIN all :
           all[k].source # "PageSlack" => all[k].record = written[Redo(all[k].lsn)]

Lost == SubSeq(written, 1, first - 1)

\* The ghosts are exactly the records that the journal has lost and the log
\* still holds, however the journal was trimmed and the log wrapped around.
GhostsExact(ghosts, copies) ==
  {x.record : x \in Range(ghosts)} = {Lost[i] : i \in {i \in DOMAIN Lost : copies[i] > 0}}

\* The events are in order of time, those of the journal once each and the
\* ghosts at least once, each with where it was found.
EventsSound(t, copies) ==
  LET At(i) == {k \in DOMAIN t : t[k].record.usn = i}
      Source(i) == IF i < first THEN "LogFile" ELSE IF copies[i] > 0 THEN "Both" ELSE "UsnJournal"
  IN  /\ \A i \in 1 .. Len(t) - 1 : t[i].record.ts <= t[i + 1].record.ts
      /\ \A i \in DOMAIN written :
           /\ IF i >= first THEN Cardinality(At(i)) = 1 ELSE At(i) # {} <=> copies[i] > 0
           /\ \A k \in At(i) : /\ t[k].record = written[i] /\ t[k].source = Source(i)
                               /\ t[k].lsn = None <=> copies[i] = 0

Counted(report, t, ghosts, copies) ==
  /\ report.timeline_event_count = Len(t) /\ report.ghost_record_count = Len(ghosts)
  /\ Len(t) = Len(Journal) + Len(ghosts)
  /\ Len(ghosts) = FoldFunctionOnSet(+, 0, copies, 1 .. first - 1)

TimelineSound(t, ghosts, report, copies) ==
  GhostsExact(ghosts, copies) /\ EventsSound(t, copies) /\ Counted(report, t, ghosts, copies)

SourcesMerged(usn, logfile) ==
  TimelineSound(build_timeline(usn, logfile), find_ghost_records(usn, logfile),
                generate_report(usn, logfile), [i \in DOMAIN written |-> Copies(i)])

\* The timeline is in order of time, has every record of the journal once and
\* every ghost, and tells where each was found; the ghosts are what the journal
\* lost and the log still holds, and the report counts both.
TimelineFaithful == SourcesMerged(Journal, Recovered)

\* No event is in the timeline twice ("unified, deduplicated, time-sorted").
Deduplicated ==
  LET t == build_timeline(Journal, Recovered)
  IN  \A i, j \in DOMAIN t : t[i].record = t[j].record => i = j

\* Journal clearing is suspected only where the journal has lost records: by
\* the coverage of the log whatever the clock did (that is what the report
\* says), by the first USN always, and otherwise only for gaps, each between two neighbours
\* of the journal.
ClearingMeansLoss ==
  LET told == detect_journal_clearing
  IN  /\ analyze_coverage(Journal, Recovered).logfile_extends_before_usn => first > 1
      /\ told.clearing_detected => first > 1 \/ Len(told.timestamp_gaps) >= 2
      /\ \A gap \in Range(told.timestamp_gaps) :
           /\ gap.usn_after = gap.usn_before + 1 /\ gap.usn_before >= first
           /\ gap.after > gap.before + GapLimit

\* A file is accused of a forged creation time only if its $SI time really is
\* earlier than its creation, also when its entry was used before, its records
\* were lost or the clock was set back.
HonestNeverAccused ==
  \A c \in find_timestamp_conflicts(Journal) :
    mft[c.mft_entry].created - mft[c.mft_entry].si_created > Tolerance

\* A forged creation time is found while the journal holds the creation and no
\* creation of an earlier file of the entry.
ForgeryFound ==
  \A i \in first .. Len(written) :
    LET r == written[i]
    IN  /\ "FILE_CREATE" \in r.reason /\ r.seq = mft[r.entry].seq
        /\ r.ts - mft[r.entry].si_created > Tolerance
        /\ \A j \in first .. i - 1 : written[j].entry = r.entry => "FILE_CREATE" \notin written[j].reason
        => \E c \in find_timestamp_conflicts(Journal) : c.mft_entry = r.entry /\ c.usn_timestamp = r.ts

\* find_timestamp_conflicts accuses no honest file and misses no forgery whose
\* creation is the first that the journal holds of the entry.
AccusedForCause == HonestNeverAccused /\ ForgeryFound

\* Every reuse reported is of two files of one entry; while the clock was never
\* set back, the reuses are those that happened between records of the journal.
ReuseExact ==
  /\ \A u \in Range(detect_entry_reuse(Journal)) : u.old_sequence # u.new_sequence
  /\ steady => Range(detect_entry_reuse(Journal))
       = {EntryReuse(p[1], p[2]) : p \in {p \in Range(Journal) \X Range(Journal) :
            /\ p[1].entry = p[2].entry /\ p[1].seq < p[2].seq
            /\ \A r \in Range(Journal) : r.entry = p[1].entry => r.usn <= p[1].usn \/ r.usn >= p[2].usn}}

\* Every record of the journal is counted in the summary of its own file, under
\* the file's last name, within the times of its activity.
SummaryAccounts ==
  LET summaries == summarize_file_activity(Journal)
  IN  /\ \A r \in Range(Journal) : \E s \in summaries :
           /\ s.mft_entry = r.entry /\ s.mft_sequence = r.seq
           /\ r.ts \in s.first_seen .. s.last_seen
           /\ r.reason \subseteq s.reasons
           /\ mft[r.entry].seq = r.seq => s.filename = mft[r.entry].name
      /\ MapThenSumSet(LAMBDA s : s.event_count, summaries) = Len(Journal)

\* The files that one MFT entry held in turn are told apart: each reuse is
\* reported, and every record is accounted to the file it is of.
FilesToldApart == ReuseExact /\ SummaryAccounts

\* The longest chains of events each within the window of the one before.
Chains(ev, window, min) ==
  LET Joined(i) == ev[i + 1].ts - ev[i].ts <= window
      Chain(i, j) == /\ j - i + 1 >= min
                     /\ \A k \in i .. j - 1 : Joined(k)
                     /\ i > 1 => ~Joined(i - 1)
                     /\ j < Len(ev) => ~Joined(j)
  IN  {SubSeq(ev, x[1], x[2]) : x \in {x \in (DOMAIN ev) \X (DOMAIN ev) : Chain(x[1], x[2])}}

\* The groups found are all such chains that are long enough, in the order of
\* the journal.
AllChains(groups, events, window, min) ==
  /\ Range(groups) = Chains(events, window, min)
  /\ \A i, j \in DOMAIN groups : i < j => Last(groups[i]).usn < Head(groups[j]).usn

\* detect_secure_deletion reports the bursts of wiping, then those of temporary
\* files, each of them whole and once, also at the end of the journal and under
\* a clock that was set back.
BurstsMaximal ==
  LET wiped == sdelete_groups
      temp == temp_groups
      told == detect_secure_deletion
  IN  /\ AllChains(wiped, sdelete_events, Window, MinGroup)
      /\ AllChains(temp, tmp_deletes, TempWindow, TempGroup)
      /\ Len(told) = Len(wiped) + Len(temp)
      /\ \A i \in DOMAIN told :
           LET group == (wiped \o temp)[i]
           IN  /\ told[i].pattern = (IF i <= Len(wiped) THEN "SDelete" ELSE "BulkTempDeletion")
               /\ Len(told[i].filenames) = Len(group)
               /\ steady => \A r \in Range(group) : r.ts \in told[i].time_start .. told[i].time_end

\* Whether a data change of the same file happened within the window of r.
Accompanied(r, records) ==
  \E q \in Range(records) : /\ q.entry = r.entry /\ q.seq = r.seq
                            /\ Apart(r, q) <= Window
                            /\ q.reason \cap DataChange # {}

=============================================================================
