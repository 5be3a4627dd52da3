-------------------------- MODULE LogTransactions ---------------------------
(***************************************************************************)
(* reconstruct_transactions (core/src/logfile/transactions.rs): records of  *)
(* the log, grouped by slot and split at terminals, one step per slot.      *)
(***************************************************************************)
EXTENDS LogFile

CONSTANT MaxTorn      \* bound: pages the reader has to skip

ASSUME TornAssumption == MaxTorn \in Nat

VARIABLES phase,      \* "logging", "slots" or "done"
          records,    \* the argument: what was read of the log
          slots,      \* slots the outer loop has yet to take, in any order
          txns

groupVars == <<records, slots, txns>>
vars == <<logVars, phase, groupVars>>

-----------------------------------------------------------------------------
Init ==
  /\ LogInit
  /\ phase = "logging"
  /\ records = <<>>
  /\ slots = {}
  /\ txns = <<>>

Logging == phase = "logging" /\ LogNext /\ UNCHANGED <<phase, groupVars>>

\* The log is read; up to MaxTorn pages fail their fixup.  Level 1 finds the
\* slots in use.
Partition ==
  /\ phase = "logging"
  /\ phase' = "slots"
  /\ \E torn \in {t \in SUBSET (1 .. PageCount) : Cardinality(t) <= MaxTorn} :
       records' = ReadLog(torn)
  /\ slots' = {records'[i].transaction_id : i \in DOMAIN records'}
  /\ UNCHANGED <<logVars, txns>>

\* The records of a slot by LSN; sort_by_key keeps those of equal LSN in order.
Stream(s) ==
  LET Before(i, j) == \/ records[i].this_lsn < records[j].this_lsn
                      \/ records[i].this_lsn = records[j].this_lsn /\ i < j
  IN  SetToSortSeq({i \in DOMAIN records : records[i].transaction_id = s}, Before)

Transaction(slot, recs, lsns, operations, state) ==
  [transaction_id |-> slot, records |-> recs, lsns |-> lsns, operations |-> operations,
   state |-> state]

\* What classify says of these operations (all of its cases: module Values).
classify(op) == IF op = "Update" THEN "DataWrite" ELSE "TransactionControl"

build_transaction(recs, state) ==
  Transaction(records[recs[1]].transaction_id, recs,
              [i \in DOMAIN recs |-> records[recs[i]].this_lsn],
              [i \in DOMAIN recs |-> classify(records[recs[i]].redo_op)], state)

\* The inner loop's state: the transactions sealed, the run since, its mark.
NoRun == [sealed |-> <<>>, run |-> <<>>, compensated |-> FALSE]

Split_MarkOutlivesTerminal(acc, i) ==
  LET run == Append(acc.run, i)
      op == records[i].redo_op
  IN  IF op \in Terminals
      THEN [acc EXCEPT !.sealed = Append(@, build_transaction(run, "Committed")),
                       !.run = <<>>]
      ELSE [acc EXCEPT !.run = run, !.compensated = @ \/ op = "CompensationLogRecord"]

\* One record of the slot: a terminal seals the run, a compensation marks it.
Split(acc, i) ==
  LET run == Append(acc.run, i)
      op == records[i].redo_op
  IN  IF op \in Terminals
      THEN [NoRun EXCEPT !.sealed = Append(acc.sealed, build_transaction(run, "Committed"))]
      ELSE [acc EXCEPT !.run = run, !.compensated = @ \/ op = "CompensationLogRecord"]

EndSlot_DropsRest(acc) == acc.sealed

EndSlot_OnePerSlot(acc) ==
  LET recs == FlattenSeq([n \in DOMAIN acc.sealed |-> acc.sealed[n].records]) \o acc.run
  IN  <<build_transaction(recs, IF acc.sealed # <<>> THEN "Committed"
                                ELSE IF acc.compensated THEN "Aborted" ELSE "Incomplete")>>

\* What is left of the slot has no terminal.
EndSlot(acc) ==
  IF acc.run = <<>> THEN acc.sealed
  ELSE Append(acc.sealed,
              build_transaction(acc.run, IF acc.compensated THEN "Aborted" ELSE "Incomplete"))

\* One turn of the outer loop.
TakeSlot ==
  /\ phase = "slots"
  /\ \E s \in slots :
       /\ slots' = slots \ {s}
       /\ txns' = txns \o EndSlot(FoldLeft(Split, NoRun, Stream(s)))
  /\ UNCHANGED <<logVars, phase, records>>

\* The final sort, by the lowest LSN of each transaction.
Sort ==
  /\ phase = "slots"
  /\ slots = {}
  /\ phase' = "done"
  /\ LET Before(i, j) == \/ txns[i].lsns[1] < txns[j].lsns[1]
                         \/ txns[i].lsns[1] = txns[j].lsns[1] /\ i < j
         order == SetToSortSeq(DOMAIN txns, Before)
     IN  txns' = [n \in DOMAIN txns |-> txns[order[n]]]
  /\ UNCHANGED <<logVars, records, slots>>

Returned == phase = "done" /\ UNCHANGED vars

Next == Logging \/ Partition \/ TakeSlot \/ Sort \/ Returned

Spec == Init /\ [][Next]_vars

-----------------------------------------------------------------------------
Holds(n, i) == \E k \in DOMAIN txns[n].records : txns[n].records[k] = i

\* Every record read is in exactly one transaction, once (the contract of
\* reconstruct_transactions: none dropped), whatever pages were lost or doubled.
\* Transactions are returned by their lowest LSN and list their records in
\* log order, also when the log has wrapped and the file is not in that order.
EveryRecordOnce ==
  phase = "done" =>
    /\ \A i \in DOMAIN records :
         Cardinality({<<n, k>> \in (1 .. Len(txns)) \X (1 .. Len(records)) :
                        k <= Len(txns[n].records) /\ txns[n].records[k] = i}) = 1
    /\ \A m, n \in DOMAIN txns : m < n => txns[m].lsns[1] <= txns[n].lsns[1]
    /\ \A n \in DOMAIN txns : \A j, k \in DOMAIN txns[n].lsns :
         j < k => txns[n].lsns[j] <= txns[n].lsns[k]

\* What was read of one transaction is spread over two reconstructed ones only
\* when its terminal was read twice, from a page and from its copy; pages that
\* cannot be read, in the middle of the log or elsewhere, never split one.
SplitOnlyByCopy ==
  \A i, j \in DOMAIN records :
    records[i].tx = records[j].tx =>
      \/ \A n \in DOMAIN txns : Holds(n, i) <=> Holds(n, j)
      \/ \E k, m \in DOMAIN records :
           /\ k # m /\ records[k] = records[m] /\ records[k].tx = records[i].tx
           /\ records[k].redo_op \in Terminals

\* Two transactions are taken for one only when the terminal of the earlier
\* one was not read: slot reuse alone never merges them.
MergedOnlyByLoss ==
  \A n \in DOMAIN txns : \A i, j \in DOMAIN records :
    Holds(n, i) /\ Holds(n, j) /\ records[i].tx < records[j].tx =>
      \A k \in DOMAIN records :
        records[k].tx = records[i].tx => records[k].redo_op \notin Terminals

\* A reconstructed transaction is one of the log's, whole, as far as it was
\* read: it is split only by a terminal read twice and joined to another only
\* by one not read at all.  That is how far "a single logical transaction"
\* (transactions.rs, on Transaction) holds.
TransactionsKept == phase = "done" => SplitOnlyByCopy /\ MergedOnlyByLoss

\* The state reported is the one the records read tell: Committed when the
\* slot's last transaction in the run was seen to end; otherwise Aborted or
\* Incomplete, by whether one of its own records is a compensation.
StateTold ==
  phase = "done" =>
    \A n \in DOMAIN txns :
      LET ops == {records[i].redo_op : i \in {i \in DOMAIN records : Holds(n, i)}}
      IN  CASE txns[n].state = "Committed" -> ops \cap Terminals # {}
            [] txns[n].state = "Aborted" -> /\ ops \cap Terminals = {}
                                            /\ "CompensationLogRecord" \in ops
            [] OTHER -> ops = {"Update"} /\ Range(txns[n].operations) = {"DataWrite"}

\* detect_journal_clearing is not misled by a log that is only partly written
\* or has wrapped, and reports one wiped whole, or wiped with junk from behind
\* any page in use to its end.
ClearingTold ==
  LET Told(file) == audit_logfile(file) # {}
  IN  phase = "logging" =>
      /\ ~Told(File(Untouched, "zero"))
      /\ \A fill \in {"zero", "junk"} : Told(File(1, fill))
      /\ \A first \in 4 .. PageCount + 3 :
           File(Untouched, "zero")[first - 1] = "RCRD" => Told(File(first, "junk"))
=============================================================================
