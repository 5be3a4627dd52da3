------------------------------ MODULE Activity ------------------------------
(***************************************************************************)
(* File activity on a volume and the three places it leaves traces in: the  *)
(* $MFT, the USN journal and the $LogFile.  The driver is not code of this  *)
(* repository; it is modelled from what logfile/usn_extractor.rs (core) and *)
(* correlation.rs and analysis.rs (forensic) take their inputs to be.       *)
(*                                                                         *)
(* Every change appends a record to the journal and, as redo data of a log  *)
(* record, to the current page of the circular log.  The journal loses its  *)
(* oldest records or all of them; the log is overwritten page by page, and  *)
(* keeps a copy of its last page.                                           *)
(***************************************************************************)
EXTENDS Integers, Sequences, FiniteSets, SequencesExt, FiniteSetsExt

CONSTANTS Entries,    \* MFT entry numbers
          MaxTime,    \* bound: the clock runs from 0 to MaxTime
          MaxRecords, \* bound: journal records ever written
          LogPages,   \* pages of the log's ring
          PageUnits   \* log records in a page

ASSUME ActivityAssumption ==
  {MaxTime, MaxRecords, LogPages, PageUnits} \subseteq Nat \ {0}

VARIABLES mft,     \* per entry what its record says
          written, \* every USN record ever written
          first,   \* the first of them still in the journal
          log,     \* pages 1 .. LogPages, and the copy, page 0
          cur,     \* the page being filled
          steady   \* the clock was never set back

activityVars == <<mft, written, first, log, cur, steady>>

Times == 0 .. MaxTime
Journal == SubSeq(written, first, Len(written))
Now == IF written = <<>> THEN 0 ELSE Last(written).ts

\* A log record is its LSN, here the index of the USN record it holds as redo
\* data; NoRecord is where the eight bytes that a record begins with are zero.
NoRecord == 0
NewPage == [i \in 1 .. PageUnits |-> NoRecord]
\* The regions with redo and undo data, by the USN record in them.  A rename's
\* undo data is the region of its redo data, other records have none.
Redo(lsn) == lsn
Undo(lsn) == IF "RENAME_NEW_NAME" \in written[lsn].reason THEN lsn ELSE NoRecord

Unused == [seq |-> 0, name |-> "", in_use |-> FALSE, created |-> 0, si_created |-> 0]

ActivityInit ==
  /\ mft = [e \in Entries |-> Unused]
  /\ written = <<>>
  /\ first = 1
  /\ log = [p \in 0 .. LogPages |-> NewPage]
  /\ cur = 1
  /\ steady = TRUE

-----------------------------------------------------------------------------
\* Log records go to the current page until it is full, then to the next page
\* of the ring, whose old contents may stay behind the new.
Logged(lsn, stale) ==
  LET full == NoRecord \notin Range(log[cur])
      at == IF full THEN 1 ELSE Min({i \in 1 .. PageUnits : log[cur][i] = NoRecord})
      p == IF full THEN (cur % LogPages) + 1 ELSE cur
      page == [i \in 1 .. PageUnits |->
                 IF i = at THEN lsn
                 ELSE IF i < at THEN log[cur][i]
                 ELSE IF i = at + 1 \/ (full /\ ~stale) THEN NoRecord
                 ELSE log[p][i]]
  IN  /\ cur' = p
      /\ log' = [log EXCEPT ![p] = page, ![0] = page]

\* A change of entry e at time ts: its record becomes r.
Change(e, r, reason, ts) ==
  LET usn == Len(written) + 1
  IN  /\ usn <= MaxRecords
      /\ mft' = [mft EXCEPT ![e] = r]
      /\ written' = Append(written, [usn |-> usn, entry |-> e, seq |-> r.seq, name |-> r.name,
                                     reason |-> {reason}, ts |-> ts])
      /\ steady' = (steady /\ ts >= Now)
      /\ \E stale \in BOOLEAN : Logged(usn, stale)
      /\ UNCHANGED first

Create(e, name, ts) ==
  /\ ~mft[e].in_use
  /\ Change(e, [seq |-> mft[e].seq + 1, name |-> name, in_use |-> TRUE, created |-> ts,
                si_created |-> ts], "FILE_CREATE", ts)
Extend(e, ts) == mft[e].in_use /\ Change(e, mft[e], "DATA_EXTEND", ts)
\* AAA.tmp is a name a wiping tool gives a file.
Rename(e, ts) ==
  /\ mft[e].in_use /\ mft[e].name # "AAA.tmp"
  /\ Change(e, [mft[e] EXCEPT !.name = "AAA.tmp"], "RENAME_NEW_NAME", ts)
\* The creation time is set to the present or to the beginning of time.
SetInfo(e, t, ts) ==
  mft[e].in_use /\ t \in {0, ts} /\ Change(e, [mft[e] EXCEPT !.si_created = t], "BASIC_INFO_CHANGE", ts)
Delete(e, ts) ==
  mft[e].in_use /\ Change(e, [mft[e] EXCEPT !.in_use = FALSE], "FILE_DELETE", ts)

\* The journal is trimmed from the front, or deleted and created again.
Lose(n) ==
  /\ n \in {first + 1, Len(written) + 1} /\ n <= Len(written) + 1
  /\ first' = n
  /\ UNCHANGED <<mft, written, log, cur, steady>>

ActivityNext ==
  \/ \E e \in Entries, ts \in Times : \/ Create(e, "doc", ts)
                                      \/ Create(e, "AAA.tmp", ts)
                                      \/ Extend(e, ts)
                                      \/ Rename(e, ts)
                                      \/ Delete(e, ts)
  \/ \E e \in Entries, t, ts \in Times : SetInfo(e, t, ts)
  \/ \E n \in 1 .. MaxRecords + 1 : Lose(n)
=============================================================================
