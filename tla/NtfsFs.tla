------------------------------- MODULE NtfsFs -------------------------------
(***************************************************************************)
(* NtfsFs (core/src/fs.rs) and the readers of data.rs over an image of the  *)
(* volume: open, which finds the runs of the $MFT, and the reads by record  *)
(* number that go through them.                                             *)
(***************************************************************************)
EXTENDS Disk

VARIABLE mft_runs     \* what open found, or NotOpen

Ok(v) == [ok |-> TRUE, val |-> v]
Err == [ok |-> FALSE, val |-> <<>>]
NotOpen == [ok |-> FALSE, val |-> <<0>>]

\* The clusters of a run list, in order.
Expand(runs) ==
  FlattenSeq([i \in DOMAIN runs |->
    [k \in 1 .. runs[i].length |-> IF runs[i].lcn = Hole THEN Hole
                                   ELSE runs[i].lcn + k - 1]])

\* read_virtual, apply_fixup and MftRecordHeader::parse for record n of an $MFT
\* in the given clusters.  Only the clusters of the $MFT hold records.
RecordIn(lcns, n) ==
  LET at == {i \in DOMAIN mftAt : n < Len(lcns) /\ mftAt[i] = lcns[n + 1]}
      found == {r \in {rec[i - 1] : i \in at} : r.file}
  IN  IF found = {} THEN Err ELSE Ok(CHOOSE r \in found : TRUE)
RecordThrough(runs, n) == RecordIn(Expand(runs), n)

\* The values of several results, or the error of one.
AllOk(results) ==
  IF \A i \in DOMAIN results : results[i].ok
  THEN Ok([i \in DOMAIN results |-> results[i].val]) ELSE Err

\* The $DATA attributes of a stream in a sequence of records, in order.
DataOf(recs, s) == SelectSeq(FlattenSeq([i \in DOMAIN recs |-> recs[i].data]),
                             LAMBDA a : a.name = s)
Fragments_InFileOrder(attrs) == SelectSeq(attrs, LAMBDA a : ~a.resident)
\* The fragments of a stream by start VCN.
Fragments(attrs) == SortSeq(SelectSeq(attrs, LAMBDA a : ~a.resident),
                            LAMBDA a, b : a.start_vcn < b.start_vcn)
RunsOf(attrs) == FlattenSeq([i \in DOMAIN attrs |-> attrs[i].runs])

mft_data_runs(r) == Head(Fragments_InFileOrder(DataOf(<<r>>, Unnamed))).runs

bootstrap_mft_runs_FirstEntry(rec0) ==
  LET first == mft_data_runs(rec0)
      exts == {rec0.list[i].rn : i \in {i \in DOMAIN rec0.list : i = 2}}
      read == {RecordThrough(first, n) : n \in exts}
      recs == SetToSeq({r.val : r \in read})
  IN  IF \E r \in read : ~r.ok THEN Err
      ELSE Ok(first \o RunsOf(Fragments(DataOf(recs, Unnamed))))

\* The first fragment is in record 0.  The extension records its list names
\* for later fragments are each read once, through the first fragment; their
\* fragments follow by VCN.
bootstrap_mft_runs(rec0) ==
  LET first == mft_data_runs(rec0)
      exts == {rec0.list[i].rn : i \in {i \in DOMAIN rec0.list :
                 rec0.list[i].name = Unnamed /\ rec0.list[i].start_vcn # 0}}
      read == {RecordThrough(first, n) : n \in exts}
      recs == SetToSeq({r.val : r \in read})
  IN  IF \E r \in read : ~r.ok THEN Err
      ELSE Ok(first \o RunsOf(Fragments(DataOf(recs, Unnamed))))

open ==
  /\ mft_runs = NotOpen
  /\ mft_runs' = bootstrap_mft_runs(rec[MFT])
  /\ UNCHANGED diskVars

read_record(n) == IF mft_runs.ok THEN RecordThrough(mft_runs.val, n) ELSE Err

gather_records_BaseOnly(n) == AllOk(<<read_record(n)>>)

\* Record numbers without those that came before.
Distinct(rns) ==
  LET firsts == SelectSeq([i \in DOMAIN rns |-> i],
                          LAMBDA i : \A j \in 1 .. i - 1 : rns[j] # rns[i])
  IN  [k \in DOMAIN firsts |-> rns[firsts[k]]]
ReadAll(rns) == AllOk([k \in DOMAIN rns |-> read_record(rns[k])])

\* The base record and, once each, those its list names.
WithListed(n, base) ==
  IF base.ok THEN ReadAll(Distinct(<<n>> \o [i \in DOMAIN base.val.list |-> base.val.list[i].rn]))
  ELSE Err
gather_records(n) == WithListed(n, read_record(n))

\* At most cap units of a stream of the given size; holes are zeros.
read_runs_capped(runs, size, cap) ==
  LET lcns == Expand(runs)
      cells == [i \in DOMAIN lcns |-> IF lcns[i] = Hole THEN Zero ELSE disk[lcns[i]]]
  IN  Contents(cells, Min({size, Len(lcns) * Units, cap}))

\* The data of a stream that has the given attributes: a resident one's
\* contents, or that of the fragments, of the size the first one tells.
ReadFragments(frags, cap) == read_runs_capped(RunsOf(frags), frags[1].size, cap)
ReadAttributes(attrs, cap) ==
  LET resident == SelectSeq(attrs, LAMBDA a : a.resident)
  IN  IF attrs = <<>> THEN Err
      ELSE IF resident # <<>>
           THEN Ok(SubSeq(Last(resident).content, 1, Min({cap, Last(resident).size})))
      ELSE Ok(ReadFragments(Fragments(attrs), cap))

\* The $DATA attributes of a stream of file n; none when a record is unreadable.
Attributes(n, s) == DataOf(gather_records(n).val, s)

read_data_by_record(n, s, cap) == ReadAttributes(Attributes(n, s), cap)

RunsTold(attrs) == IF attrs = <<>> THEN Err ELSE Ok(RunsOf(Fragments(attrs)))
runs_by_record(n, s) == RunsTold(Attributes(n, s))
=============================================================================
