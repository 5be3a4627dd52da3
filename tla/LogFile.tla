------------------------------ MODULE LogFile -------------------------------
(***************************************************************************)
(* The $LogFile and how its records are read back (core/src/logfile).       *)
(*                                                                         *)
(* The log file service that writes it is not code of this repository.  It  *)
(* is modelled from what the reader knows of it: pages are reused in turn,  *)
(* a record may run over a page's end, transactions take turns, each in a   *)
(* slot of the transaction table that is free again after the transaction's *)
(* terminal, and a copy of the page being written is kept at the front.     *)
(* The field tx of a record is the ground truth no reader sees.             *)
(***************************************************************************)
EXTENDS Naturals, Sequences, FiniteSets, SequencesExt

CONSTANTS Slot,       \* slots of the open transaction table
          PageCount,  \* pages of the circular log
          PageUnits,  \* room of a page
          Sizes,      \* sizes of records, in the same unit: 1 or 2
          TailCopies, \* is there a copy of the page being written?
          MaxLsn      \* bound: records logged

ASSUME LogAssumption ==
  /\ PageCount \in Nat \ {0} /\ PageUnits \in Nat \ {0, 1} /\ MaxLsn \in Nat
  /\ Sizes \subseteq {1, 2} /\ TailCopies \in BOOLEAN

VARIABLES pages,      \* the log's pages, by number
          tail,       \* the copy
          cur,        \* the page being written
          lsn,        \* the last LSN given out
          open,       \* what each slot of the transaction table holds
          txs         \* transactions begun

logVars == <<pages, tail, cur, lsn, open, txs>>

Terminals == {"CommitTransaction", "ForgetTransaction"}
Ops == Terminals \cup {"Update", "CompensationLogRecord"}
LogRecord(n, slot, op, size, tx) ==
  [this_lsn |-> n, transaction_id |-> slot, redo_op |-> op, size |-> size, tx |-> tx]

\* What a page holds after a record's start when the record is longer.
Continued == [this_lsn |-> 0]

\* last_lsn is the LSN of the last record that ends on the page.
RecordPage(last_lsn, units) == [last_lsn |-> last_lsn, units |-> units]
EmptyPage == RecordPage(0, <<>>)
NoTx == [tx |-> 0, undoing |-> FALSE]

-----------------------------------------------------------------------------
LogInit ==
  /\ pages = [p \in 1 .. PageCount |-> EmptyPage]
  /\ tail = EmptyPage
  /\ cur = 1
  /\ lsn = 0
  /\ open = [s \in Slot |-> NoTx]
  /\ txs = 0

\* What a transaction may log next: a rollback logs compensations only and
\* ends with a ForgetTransaction.
MayLog(t, op) == CASE t.tx = 0 -> op = "Update"
                   [] t.undoing -> op \in {"CompensationLogRecord", "ForgetTransaction"}
                   [] OTHER -> TRUE

NextPage == (cur % PageCount) + 1

\* The pages with record r appended to page p, whose earlier content is pg.
Placed(ps, p, pg, r) ==
  IF Len(pg.units) + r.size <= PageUnits
  THEN [ps EXCEPT ![p] = RecordPage(r.this_lsn, pg.units \o <<r>>
                                                \o [i \in 1 .. r.size - 1 |-> Continued])]
  ELSE [ps EXCEPT ![p] = [pg EXCEPT !.units = Append(@, r)],
                  ![(p % PageCount) + 1] = RecordPage(r.this_lsn, <<Continued>>)]

LogWrite(s, op, size) ==
  LET t == IF open[s].tx = 0 THEN txs + 1 ELSE open[s].tx
      r == LogRecord(lsn + 1, s, op, size, t)
      full == Len(pages[cur].units) = PageUnits
      p == IF full THEN NextPage ELSE cur
      pg == IF full THEN EmptyPage ELSE pages[cur]
      spans == Len(pg.units) + size > PageUnits
  IN  /\ lsn < MaxLsn
      /\ MayLog(open[s], op)
      /\ lsn' = lsn + 1
      /\ txs' = IF open[s].tx = 0 THEN t ELSE txs
      /\ open' = [open EXCEPT ![s] =
                    IF op \in Terminals THEN NoTx
                    ELSE [tx |-> t, undoing |-> op = "CompensationLogRecord"]]
      /\ pages' = Placed(pages, p, pg, r)
      /\ cur' = IF spans THEN (p % PageCount) + 1 ELSE p
      /\ UNCHANGED tail

CopyTail ==
  /\ TailCopies
  /\ tail # pages[cur]
  /\ tail' = pages[cur]
  /\ UNCHANGED <<pages, cur, lsn, open, txs>>

LogNext == CopyTail \/ \E s \in Slot, op \in Ops, z \in Sizes : LogWrite(s, op, z)

-----------------------------------------------------------------------------
\* read_record_pages: the pages whose fixup holds, in the order of the file.
read_record_pages(torn) ==
  LET file == <<tail>> \o pages
      sound == {i \in 1 .. PageCount + 1 : i - 1 \notin torn}
      nth(n) == CHOOSE i \in sound : Cardinality({j \in sound : j <= i}) = n
  IN  [n \in 1 .. Cardinality(sound) |-> file[nth(n)]]

\* A plausible record start: an LSN the page may hold and a record that fits.
Plausible(page, i) == LET u == page.units[i]
                      IN  /\ u.this_lsn # 0 /\ u.this_lsn <= page.last_lsn
                          /\ i - 1 + u.size <= PageUnits

parse_log_records(page) ==
  LET walk[i \in 1 .. PageUnits + 2] ==
        IF i > Len(page.units) THEN <<>>
        ELSE IF Plausible(page, i)
             THEN <<page.units[i]>> \o walk[i + page.units[i].size]
        ELSE walk[i + 1]
  IN  walk[1]

\* The records of the whole file, as the callers collect them page by page.
ReadLog(torn) == LET ps == read_record_pages(torn)
                 IN  FlattenSeq([n \in 1 .. Len(ps) |-> parse_log_records(ps[n])])

-----------------------------------------------------------------------------
\* The whole file: two restart pages, the tail copy, the log.  A page never
\* written reads as zeros.  From page `first` on it is overwritten with `fill`,
\* "zero" or "junk".
File(first, fill) ==
  LET Kind(pg) == IF pg = EmptyPage THEN "zero" ELSE "RCRD"
      file == <<"RSTR", "RSTR", Kind(tail)>> \o [p \in 1 .. PageCount |-> Kind(pages[p])]
  IN  [i \in DOMAIN file |-> IF i >= first THEN fill ELSE file[i]]
Untouched == PageCount + 4

parse_logfile_ZeroIsGap(file) ==
  [restart_areas |-> Cardinality({i \in DOMAIN file : file[i] = "RSTR"}),
   has_gaps |-> \E i \in 4 .. Len(file) : file[i - 1] = "RCRD" /\ file[i] \notin {"RCRD", "RSTR"}]

\* The summary, but for its LSNs.  A gap: a page of neither kind, not zeroed, right after a
\* record page and beyond the first three pages.
parse_logfile(file) ==
  [restart_areas |-> Cardinality({i \in DOMAIN file : file[i] = "RSTR"}),
   has_gaps |-> \E i \in 4 .. Len(file) : file[i - 1] = "RCRD" /\ file[i] = "junk"]

detect_journal_clearing(summary) ==
  summary.has_gaps \/ summary.restart_areas = 0

\* audit_logfile (forensic/src/lib.rs) grades the verdict.
audit_logfile(file) ==
  IF detect_journal_clearing(parse_logfile(file))
    THEN {[code |-> "NTFS-LOGFILE-CLEARED", severity |-> "Medium"]} ELSE {}
=============================================================================
