--------------------------- MODULE CompressedUnits ---------------------------
(***************************************************************************)
(* Reading the value of an attribute (core/src/data.rs): resident, plain   *)
(* or compressed.  A compressed stream is stored                           *)
(* in units of UNIT_CLUSTERS clusters; a unit is a hole, or stored as it   *)
(* is, or packed into fewer clusters followed by a hole.  The run list     *)
(* knows nothing of units: a run may cover parts of several.  LZNT1 is the *)
(* lznt1 crate (external).                                                 *)
(***************************************************************************)
EXTENDS Integers, SequencesExt

CONSTANTS Sparse, Failed, None

UNIT_CLUSTERS == 4
CLUSTER_SIZE  == 2
UNIT_BYTES    == UNIT_CLUSTERS * CLUSTER_SIZE

\* A byte of the stream: the n-th of unit u.  Unit 0 is all zeroes.
Byte(u, n) == [unit |-> u, at |-> n]
UnitData(u) == [n \in 1 .. UNIT_BYTES |-> Byte(u, n)]
Zeroes(n)   == [i \in 1 .. n |-> Byte(0, 0)]

\* A cluster on disk: the part-th of unit u, packed into `packed' clusters, or
\* stored as it is (packed = 0); yield is what the packed unit decodes to.
Cluster(u, part, packed, yield) == [unit |-> u, part |-> part, packed |-> packed, yield |-> yield]

\* What lznt1::decompress makes of clusters: they must be one whole packed unit.
decompress(clusters) ==
  IF /\ \A i \in DOMAIN clusters :
          clusters[i] = [clusters[1] EXCEPT !.part = i]
     /\ clusters[1].packed = Len(clusters)
    THEN SubSeq(UnitData(clusters[1].unit), 1, clusters[1].yield)
    ELSE Failed

\* The bytes of clusters stored as they are.
ClusterBytes(c) ==
  [n \in 1 .. CLUSTER_SIZE |-> Byte(c.unit, (c.part - 1) * CLUSTER_SIZE + n)]
Verbatim(clusters) == FoldLeft(LAMBDA acc, c : acc \o ClusterBytes(c), <<>>, clusters)

\* One unit taken off the queue: the clusters read, how much of the unit was
\* found, and the queue behind it.
RECURSIVE Gather(_, _, _, _)


\* Taking `take' clusters off the run at the head of the queue.
TakeFrom(disk, queue, got, read, take) ==
  Gather(disk,
         IF queue[1].length = take
           THEN Tail(queue)
           ELSE <<[length |-> queue[1].length - take,
                   lcn |-> IF queue[1].lcn = Sparse THEN Sparse ELSE queue[1].lcn + take]>>
                \o Tail(queue),
         got + take,
         IF queue[1].lcn = Sparse
           THEN read
           ELSE read \o [i \in 1 .. take |-> disk[queue[1].lcn + i - 1]])

Gather(disk, queue, got, read) ==
  IF got = UNIT_CLUSTERS \/ queue = <<>>
    THEN [read |-> read, got |-> got, queue |-> queue]
    ELSE TakeFrom(disk, queue, got, read,
                  IF queue[1].length < UNIT_CLUSTERS - got THEN queue[1].length
                                                           ELSE UNIT_CLUSTERS - got)

\* The bytes one gathered unit adds to a stream that needs `missing' more.
UnitOut(read, missing) ==
  IF read = <<>>
    THEN Zeroes(IF UNIT_BYTES < missing THEN UNIT_BYTES ELSE missing)
  ELSE IF Len(read) = UNIT_CLUSTERS
    THEN Verbatim(read)
    ELSE decompress(read)

RECURSIVE ReadUnits(_, _, _, _)

AfterUnit(disk, queue, target, out, bytes) ==
  IF bytes = Failed THEN Failed ELSE ReadUnits(disk, queue, target, out \o bytes)

WithUnit(disk, g, target, out) ==
  IF g.got = 0
    THEN out
    ELSE AfterUnit(disk, g.queue, target, out, UnitOut(g.read, target - Len(out)))

ReadUnits(disk, queue, target, out) ==
  IF Len(out) >= target
    THEN SubSeq(out, 1, target)
    ELSE WithUnit(disk, Gather(disk, queue, 0, <<>>), target, out)

\* The ceiling on a value (1 TiB in the code), and u64::MAX as a cap.
MAX_VALUE_BYTES == 40
NoCap           == 1000

read_compressed_runs_capped(disk, runs, real_size, max_bytes) ==
  IF real_size > MAX_VALUE_BYTES
    THEN Failed
    ELSE ReadUnits(disk, runs, Min({real_size, max_bytes}), <<>>)

\* A plain stream: its runs one behind the other, holes as zeroes.
RunBytes(disk, r) ==
  IF r.lcn = Sparse THEN Zeroes(r.length * CLUSTER_SIZE)
  ELSE Verbatim([i \in 1 .. r.length |-> disk[r.lcn + i - 1]])

read_runs_capped(disk, runs, real_size, max_bytes) ==
  LET all  == FoldLeft(LAMBDA acc, r : acc \o RunBytes(disk, r), <<>>, runs)
      want == Min({real_size, Len(all), max_bytes})
  IN  IF want > MAX_VALUE_BYTES THEN Failed ELSE SubSeq(all, 1, want)

\* What of an attribute decides how it is read; content is None when a resident
\* value lies outside the record.  A unit of 2^cu clusters is UNIT_CLUSTERS here.
DataAttribute(resident, content, compressed, cu) ==
  [resident |-> resident, content |-> content, compressed |-> compressed, cu |-> cu]

read_nonresident_capped(disk, runs, real_size, attribute, max_bytes) ==
  IF attribute.compressed /\ attribute.cu # 0
    THEN IF attribute.cu >= 64 THEN Failed
         ELSE read_compressed_runs_capped(disk, runs, real_size, max_bytes)
    ELSE read_runs_capped(disk, runs, real_size, max_bytes)

read_nonresident(disk, runs, real_size, attribute) ==
  read_nonresident_capped(disk, runs, real_size, attribute, NoCap)

read_attribute_value(disk, attribute, runs, real_size) ==
  IF attribute.resident
    THEN IF attribute.content = None THEN Failed ELSE attribute.content
    ELSE read_nonresident(disk, runs, real_size, attribute)

-----------------------------------------------------------------------------
(* The driver's side: how a sequence of units lies on disk. *)

\* A unit of the file: packed into k clusters (0: a hole, UNIT_CLUSTERS: stored
\* as it is) that decode to `yield' bytes.
Unit(k, yield) == [k |-> k, yield |-> yield]

\* The runs of unit u placed at lcn: its clusters, then its hole.
UnitRuns(unit, lcn) ==
  (IF unit.k = 0 THEN <<>> ELSE <<[length |-> unit.k, lcn |-> lcn]>>)
    \o (IF unit.k = UNIT_CLUSTERS THEN <<>>
        ELSE <<[length |-> UNIT_CLUSTERS - unit.k, lcn |-> Sparse]>>)

\* A run that continues the last one is part of it.
Joins(a, b) ==
  IF a.lcn = Sparse \/ b.lcn = Sparse THEN a.lcn = b.lcn ELSE a.lcn + a.length = b.lcn

Merge(runs, r) ==
  IF runs # <<>> /\ Joins(Last(runs), r)
    THEN [runs EXCEPT ![Len(runs)].length = @ + r.length]
    ELSE Append(runs, r)

\* Where unit u begins: behind the one before it, with a gap if it is in gaps.
Place(units, gaps, u) ==
  LET before == [v \in 1 .. u |-> (IF v \in gaps THEN 1 ELSE 0) + (IF v = u THEN 0 ELSE units[v].k)]
  IN  FoldLeft(LAMBDA acc, n : acc + n, 1, before)

Layout(units, gaps) ==
  FoldLeft(Merge, <<>>,
           FoldLeft(LAMBDA acc, u : acc \o UnitRuns(units[u], Place(units, gaps, u)),
                    <<>>, [u \in DOMAIN units |-> u]))

\* The disk those units are on; other clusters belong to nobody (unit 9).
Platter(units, gaps) ==
  [l \in 1 .. Len(units) * (UNIT_CLUSTERS + 1) |->
     LET here == { u \in DOMAIN units : l - Place(units, gaps, u) \in 0 .. units[u].k - 1 }
     IN  IF here = {} THEN Cluster(9, 1, 0, 0)
         ELSE LET u == CHOOSE u \in here : TRUE
              IN  Cluster(u, l - Place(units, gaps, u) + 1,
                          IF units[u].k = UNIT_CLUSTERS THEN 0 ELSE units[u].k, units[u].yield)]

\* The bytes the file has.
FileBytes(units) ==
  FoldLeft(LAMBDA acc, u : acc \o (IF units[u].k = 0 THEN Zeroes(UNIT_BYTES) ELSE UnitData(u)),
           <<>>, [u \in DOMAIN units |-> u])

=============================================================================
