---------------------------- MODULE SharedVolume ----------------------------
(***************************************************************************)
(* One NtfsFs shared by many workers (core/src/fs.rs, data.rs, source.rs).  *)
(*                                                                         *)
(* The volume lies in the window [Base, Base + WindowLen) of a disk image   *)
(* and is read through an OffsetReader, whose position every worker moves.  *)
(* A worker holds the Mutex around one walk along a run list: read_virtual, *)
(* or read_runs_capped.  A method of NtfsFs is a sequence of such walks.    *)
(***************************************************************************)
EXTENDS Integers, Sequences

CONSTANTS Worker,
          ClusterSize,
          Disk,       \* the image: what each address of 0 .. DiskLen - 1 holds
          DiskLen,
          Base, WindowLen,
          Zero,       \* what a sparse run reads as
          RunLists,   \* the run lists of the volume: see RunListAssumption
          MaxValue,   \* MAX_VALUE_BYTES
          MaxWalks    \* bound: walks of a worker

Free == "free"

(* A run list carries, with its runs, the virtual address where each of them *)
(* begins and, last, the address where the stream ends.                      *)
IsRunList(rl) ==
  /\ rl.n \in Nat
  /\ rl.lcn \in [1 .. rl.n -> Nat \cup {Zero}]
  /\ rl.length \in [1 .. rl.n -> Nat \ {0}]
  /\ rl.start \in [1 .. rl.n + 1 -> Nat]
  /\ rl.start[1] = 0
  /\ \A r \in 1 .. rl.n : rl.start[r + 1] = rl.start[r] + rl.length[r] * ClusterSize
  /\ \A q, r \in 1 .. rl.n + 1 : q < r => rl.start[q] < rl.start[r]

ASSUME VolumeAssumption ==
  /\ ClusterSize \in Nat \ {0}
  /\ DiskLen \in Nat /\ Base \in Nat /\ WindowLen \in Nat /\ MaxValue \in Nat
  /\ DOMAIN Disk = 0 .. DiskLen - 1
  /\ Zero \notin Nat
  /\ MaxWalks \in Nat
  /\ Free \notin Worker

ASSUME RunListAssumption == \A rl \in RunLists : IsRunList(rl)

VARIABLES lock,       \* who holds the Mutex, or Free
          pos,        \* OffsetReader::pos
          pc,         \* per worker: "idle", "lock", "run", "read", "ok" or "err"
          runs, offset, len,    \* the arguments of its walk
          i, run_base,          \* the run it is at
          take,                 \* what read_exact has still to fill of it
          out,                  \* bytes read so far
          walks                 \* walks begun

args == <<runs, offset, len>>
vars == <<lock, pos, pc, args, i, run_base, take, out, walks>>

MinOf(a, b) == IF a <= b THEN a ELSE b

\* The loop variables pos and want of a walk, at the head of its loop.
Pos(t) == offset[t] + Len(out[t])
Want(t) == len[t] - Len(out[t])
RunEnd(t) == run_base[t] + runs[t].length[i[t]] * ClusterSize

-----------------------------------------------------------------------------
Init ==
  /\ lock = Free
  /\ pos = 0
  /\ pc = [t \in Worker |-> "idle"]
  /\ runs \in [Worker -> RunLists]
  /\ offset = [t \in Worker |-> 0]
  /\ len = [t \in Worker |-> 0]
  /\ i = [t \in Worker |-> 1]
  /\ run_base = [t \in Worker |-> 0]
  /\ take = [t \in Worker |-> 0]
  /\ out = [t \in Worker |-> <<>>]
  /\ walks = [t \in Worker |-> 0]

Start(t, rl, o, n) ==
  /\ pc[t] = "idle"
  /\ walks[t] < MaxWalks
  /\ walks' = [walks EXCEPT ![t] = @ + 1]
  /\ pc' = [pc EXCEPT ![t] = "lock"]
  /\ runs' = [runs EXCEPT ![t] = rl]
  /\ offset' = [offset EXCEPT ![t] = o]
  /\ len' = [len EXCEPT ![t] = n]
  /\ out' = [out EXCEPT ![t] = <<>>]
  /\ i' = [i EXCEPT ![t] = 1]
  /\ run_base' = [run_base EXCEPT ![t] = 0]
  /\ take' = [take EXCEPT ![t] = 0]
  /\ UNCHANGED <<lock, pos>>

\* read_virtual, as called by read_record: len bytes at an address of the stream.
read_virtual(t) ==
  \E rl \in RunLists : \E o \in 0 .. rl.start[rl.n + 1], n \in 1 .. ClusterSize :
    Start(t, rl, o, n)

\* read_runs_capped: the front of the stream, no more than the runs allocate.
\* It returns TooLarge at once, and nothing changes, beyond MAX_VALUE_BYTES.
read_runs_capped(t) ==
  \E rl \in RunLists :
    LET allocated == rl.start[rl.n + 1]
    IN  \E real_size \in 0 .. allocated + 1, max_bytes \in 0 .. allocated + 1 :
          LET want == MinOf(MinOf(real_size, allocated), max_bytes)
          IN  want <= MaxValue /\ Start(t, rl, 0, want)

lock_reader_Shared(t) ==
  /\ pc[t] = "lock"
  /\ lock' = t
  /\ pc' = [pc EXCEPT ![t] = "run"]
  /\ UNCHANGED <<pos, args, i, run_base, take, out, walks>>

lock_reader(t) ==
  /\ pc[t] = "lock"
  /\ lock = Free
  /\ lock' = t
  /\ pc' = [pc EXCEPT ![t] = "run"]
  /\ UNCHANGED <<pos, args, i, run_base, take, out, walks>>

\* The walk ends and the guard is dropped.
Finish(t, result) ==
  /\ lock' = Free
  /\ pc' = [pc EXCEPT ![t] = result]

StepOver(t) ==
  /\ i' = [i EXCEPT ![t] = @ + 1]
  /\ run_base' = [run_base EXCEPT ![t] = RunEnd(t)]

InLoop(t) == pc[t] = "run" /\ Want(t) > 0 /\ i[t] <= runs[t].n

\* Turns of the loop: a run before the address wanted, a hole, a run on disk.
SkipRun(t) ==
  /\ InLoop(t)
  /\ Pos(t) >= RunEnd(t)
  /\ StepOver(t)
  /\ UNCHANGED <<lock, pos, pc, args, take, out, walks>>

SparseRun(t) ==
  /\ InLoop(t)
  /\ Pos(t) < RunEnd(t)
  /\ runs[t].lcn[i[t]] = Zero
  /\ out' = [out EXCEPT ![t] = @ \o [k \in 1 .. MinOf(RunEnd(t) - Pos(t), Want(t)) |-> Zero]]
  /\ StepOver(t)
  /\ UNCHANGED <<lock, pos, pc, args, take, walks>>

SeekRun_RunStart(t) ==
  /\ InLoop(t)
  /\ Pos(t) < RunEnd(t)
  /\ runs[t].lcn[i[t]] # Zero
  /\ pos' = runs[t].lcn[i[t]] * ClusterSize
  /\ take' = [take EXCEPT ![t] = MinOf(RunEnd(t) - Pos(t), Want(t))]
  /\ pc' = [pc EXCEPT ![t] = "read"]
  /\ UNCHANGED <<lock, args, i, run_base, out, walks>>

SeekRun(t) ==
  /\ InLoop(t)
  /\ Pos(t) < RunEnd(t)
  /\ runs[t].lcn[i[t]] # Zero
  /\ pos' = runs[t].lcn[i[t]] * ClusterSize + (Pos(t) - run_base[t])
  /\ take' = [take EXCEPT ![t] = MinOf(RunEnd(t) - Pos(t), Want(t))]
  /\ pc' = [pc EXCEPT ![t] = "read"]
  /\ UNCHANGED <<lock, args, i, run_base, out, walks>>

EndOfRuns(t) ==
  /\ pc[t] = "run" /\ ~InLoop(t)
  /\ Finish(t, IF Want(t) = 0 THEN "ok" ELSE "err")
  /\ UNCHANGED <<pos, args, i, run_base, take, out, walks>>

Readable_NoWindow(t) == MinOf(take[t], DiskLen - (Base + pos))

\* What OffsetReader::read may hand out: no more than is asked for, than the
\* window has left, and than the image has.
Readable(t) == MinOf(take[t], MinOf(WindowLen - pos, DiskLen - (Base + pos)))

\* One turn of read_exact: a read, which may be short.
Read(t) ==
  /\ pc[t] = "read" /\ take[t] > 0
  /\ \E n \in 1 .. Readable(t) :
       /\ out' = [out EXCEPT ![t] = @ \o [k \in 1 .. n |-> Disk[Base + pos + k - 1]]]
       /\ take' = [take EXCEPT ![t] = @ - n]
       /\ pos' = pos + n
  /\ UNCHANGED <<lock, pc, args, i, run_base, walks>>

\* read_exact is done; on to the next run.
Filled(t) ==
  /\ pc[t] = "read" /\ take[t] = 0
  /\ pc' = [pc EXCEPT ![t] = "run"]
  /\ StepOver(t)
  /\ UNCHANGED <<lock, pos, args, take, out, walks>>

UnexpectedEof_Retries(t) ==
  /\ pc[t] = "read" /\ take[t] > 0 /\ Readable(t) <= 0
  /\ UNCHANGED vars

\* read_exact met the end of the window or of the image.
UnexpectedEof(t) ==
  /\ pc[t] = "read" /\ take[t] > 0 /\ Readable(t) <= 0
  /\ Finish(t, "err")
  /\ UNCHANGED <<pos, args, i, run_base, take, out, walks>>

\* The source fails, or the holder panics and poisons the Mutex, which
\* lock_reader takes no notice of.  The position stays where it was.
Abandon(t) ==
  /\ pc[t] \in {"run", "read"}
  /\ Finish(t, "idle")
  /\ UNCHANGED <<pos, args, i, run_base, take, out, walks>>

Return(t) ==
  /\ pc[t] \in {"ok", "err"}
  /\ pc' = [pc EXCEPT ![t] = "idle"]
  /\ UNCHANGED <<lock, pos, args, i, run_base, take, out, walks>>

\* Every worker has read all it wanted.
Idle == (\A t \in Worker : pc[t] = "idle" /\ walks[t] = MaxWalks) /\ UNCHANGED vars

Steps(t) ==
  \/ lock_reader(t)
  \/ SkipRun(t) \/ SparseRun(t) \/ SeekRun(t) \/ EndOfRuns(t)
  \/ Read(t) \/ Filled(t) \/ UnexpectedEof(t)

Next == \/ \E t \in Worker : \/ read_virtual(t) \/ read_runs_capped(t)
                             \/ Steps(t) \/ Abandon(t) \/ Return(t)
        \/ Idle

\* A worker inside a walk runs on; an unlocked Mutex wakes a waiter.
Spec == Init /\ [][Next]_vars /\ \A t \in Worker : WF_vars(Steps(t))

-----------------------------------------------------------------------------
\* The shape of the state: a walk's counters never go below zero.
TypeOK ==
  /\ lock \in Worker \cup {Free}
  /\ pos \in Nat
  /\ pc \in [Worker -> {"idle", "lock", "run", "read", "ok", "err"}]
  /\ runs \in [Worker -> RunLists]
  /\ offset \in [Worker -> Nat] /\ len \in [Worker -> Nat]
  /\ i \in [Worker -> Nat \ {0}]
  /\ run_base \in [Worker -> Nat] /\ take \in [Worker -> Nat]
  /\ out \in [Worker -> Seq({Disk[a] : a \in DOMAIN Disk} \cup {Zero})]
  /\ walks \in [Worker -> 0 .. MaxWalks]

\* What the stream holds at virtual address v: the run that covers it says.
ByteAt(rl, v) ==
  LET r == CHOOSE r \in 1 .. rl.n : rl.start[r] <= v /\ v < rl.start[r + 1]
  IN  IF rl.lcn[r] = Zero THEN Zero
      ELSE Disk[Base + rl.lcn[r] * ClusterSize + (v - rl.start[r])]

\* Whatever other workers read in between, fail at or give up, a walk that
\* succeeds returns the bytes of its own stream at its own addresses.
ReadsOwnStream ==
  \A t \in Worker :
    pc[t] = "ok" =>
      /\ Len(out[t]) = len[t]
      /\ \A k \in 1 .. len[t] : out[t][k] = ByteAt(runs[t], offset[t] + k - 1)

\* "refuses every read or seek that would escape the window" (source.rs): no
\* walk, not even a failing one, picks up a byte from outside the partition.
NeverEscapes ==
  \A t \in Worker : \A k \in 1 .. Len(out[t]) :
    out[t][k] \in {Disk[a] : a \in Base .. MinOf(Base + WindowLen, DiskLen) - 1} \cup {Zero}

\* All the disk addresses of the runs a walk needs lie in the window and the image.
Backed(rl, o, n) ==
  /\ o + n <= rl.start[rl.n + 1]
  /\ \A r \in 1 .. rl.n : \A v \in o .. o + n - 1 :
       rl.start[r] <= v /\ v < rl.start[r + 1] /\ rl.lcn[r] # Zero =>
         LET a == rl.lcn[r] * ClusterSize + (v - rl.start[r])
         IN  a < WindowLen /\ Base + a < DiskLen

\* A walk fails only when its stream or the volume ends before the bytes it
\* wants, however the reads were cut up.
FailsForCause ==
  \A t \in Worker : pc[t] = "err" => ~Backed(runs[t], offset[t], len[t])

\* "the non-reentrant Mutex cannot deadlock" (fs.rs): every walk comes to an end.
EveryWalkEnds == \A t \in Worker : pc[t] = "lock" ~> pc[t] \in {"ok", "err", "idle"}
=============================================================================
