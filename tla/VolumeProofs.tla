---------------------------- MODULE VolumeProofs ----------------------------
(***************************************************************************)
(* Proofs for SharedVolume: mutual exclusion of walks, and from it that a   *)
(* walk returns its own stream, never leaves the window and fails only for  *)
(* cause, for any workers, run lists and image.                             *)
(***************************************************************************)
EXTENDS SharedVolume, TLAPS

\* What run r says of virtual address v.
RunByte(rl, r, v) == IF rl.lcn[r] = Zero THEN Zero
                     ELSE Disk[Base + rl.lcn[r] * ClusterSize + (v - rl.start[r])]

Vals == {Disk[a] : a \in DOMAIN Disk} \cup {Zero}
Window == {Disk[a] : a \in Base .. MinOf(Base + WindowLen, DiskLen) - 1} \cup {Zero}

\* What has been read so far is the front of what is wanted.
Front(t) ==
  /\ Len(out[t]) <= len[t]
  /\ \A k \in 1 .. Len(out[t]) : out[t][k] = ByteAt(runs[t], offset[t] + k - 1)

\* The head of the loop: every run before i[t] has been dealt with.
AtRun(t) ==
  /\ Front(t)
  /\ i[t] \in 1 .. runs[t].n + 1
  /\ run_base[t] = runs[t].start[i[t]]
  /\ Pos(t) >= run_base[t] \/ Want(t) = 0

\* Inside read_exact: the shared position is the one this walk needs.
InRun(t) ==
  /\ Front(t)
  /\ i[t] \in 1 .. runs[t].n
  /\ run_base[t] = runs[t].start[i[t]]
  /\ runs[t].lcn[i[t]] # Zero
  /\ Pos(t) >= run_base[t]
  /\ pos = runs[t].lcn[i[t]] * ClusterSize + (Pos(t) - run_base[t])
  /\ take[t] <= Want(t)
  /\ Pos(t) + take[t] <= runs[t].start[i[t] + 1]
  /\ Pos(t) + take[t] = runs[t].start[i[t] + 1] \/ take[t] = Want(t)

WalkOK(t) ==
  /\ pc[t] = "lock" => i[t] = 1 /\ run_base[t] = 0 /\ out[t] = <<>>
  /\ pc[t] = "run" => lock = t /\ AtRun(t)
  /\ pc[t] = "read" => lock = t /\ InRun(t)
  /\ pc[t] = "ok" => Front(t) /\ Len(out[t]) = len[t]
  /\ pc[t] = "err" => ~Backed(runs[t], offset[t], len[t])

IInv == TypeOK /\ NeverEscapes /\ \A t \in Worker : WalkOK(t)

-----------------------------------------------------------------------------
\* The address table of a run list (Run, runlist.rs): types, and each run's end
\* is the next one's start.
LEMMA RunFacts ==
  \A rl \in RunLists :
    /\ rl.n \in Nat
    /\ \A r \in 1 .. rl.n + 1 : rl.start[r] \in Nat
    /\ \A r \in 1 .. rl.n :
         /\ rl.length[r] \in Nat \ {0}
         /\ rl.lcn[r] # Zero => rl.lcn[r] \in Nat
         /\ rl.start[r + 1] = rl.start[r] + rl.length[r] * ClusterSize
         /\ rl.start[r] < rl.start[r + 1]
    /\ rl.start[1] = 0
<1> SUFFICES ASSUME NEW rl \in RunLists
             PROVE  /\ rl.n \in Nat
                    /\ \A r \in 1 .. rl.n + 1 : rl.start[r] \in Nat
                    /\ \A r \in 1 .. rl.n :
                         /\ rl.length[r] \in Nat \ {0}
                         /\ rl.lcn[r] # Zero => rl.lcn[r] \in Nat
                         /\ rl.start[r + 1] = rl.start[r] + rl.length[r] * ClusterSize
                         /\ rl.start[r] < rl.start[r + 1]
                    /\ rl.start[1] = 0
  OBVIOUS
<1>1. IsRunList(rl)
  BY RunListAssumption
<1>2. rl.n \in Nat /\ rl.start[1] = 0
  BY <1>1 DEF IsRunList
<1>3. \A r \in 1 .. rl.n + 1 : rl.start[r] \in Nat
  BY <1>1, <1>2, Zenon DEF IsRunList
<1>4. ASSUME NEW r \in 1 .. rl.n
      PROVE  /\ rl.length[r] \in Nat \ {0}
             /\ rl.lcn[r] # Zero => rl.lcn[r] \in Nat
             /\ rl.start[r + 1] = rl.start[r] + rl.length[r] * ClusterSize
             /\ rl.start[r] < rl.start[r + 1]
  <2>1. r \in 1 .. rl.n + 1 /\ r + 1 \in 1 .. rl.n + 1 /\ r < r + 1
    BY <1>2
  <2>2. rl.start[r] < rl.start[r + 1]
    BY <1>1, <2>1 DEF IsRunList
  <2>3. rl.length[r] \in Nat \ {0} /\ rl.lcn[r] \in Nat \cup {Zero}
    BY <1>1 DEF IsRunList
  <2>4. rl.start[r + 1] = rl.start[r] + rl.length[r] * ClusterSize
    BY <1>1 DEF IsRunList
  <2> QED BY <2>2, <2>3, <2>4
<1> QED BY <1>2, <1>3, <1>4

\* The byte at an address is the one of the run that covers it (read_virtual).
LEMMA ByteOfRun ==
  \A rl \in RunLists : \A r \in 1 .. rl.n : \A v \in Nat :
    rl.start[r] <= v /\ v < rl.start[r + 1] =>
      ByteAt(rl, v) = RunByte(rl, r, v)
<1> SUFFICES ASSUME NEW rl \in RunLists, NEW r \in 1 .. rl.n, NEW v \in Nat,
                    rl.start[r] <= v, v < rl.start[r + 1]
             PROVE  ByteAt(rl, v) = RunByte(rl, r, v)
  OBVIOUS
<1> DEFINE P(q) == rl.start[q] <= v /\ v < rl.start[q + 1]
           c == CHOOSE q \in 1 .. rl.n : P(q)
<1>1. rl.n \in Nat /\ \A q \in 1 .. rl.n + 1 : rl.start[q] \in Nat
  BY RunFacts
<1>2. \A q, x \in 1 .. rl.n + 1 : q < x => rl.start[q] < rl.start[x]
  BY RunListAssumption DEF IsRunList
<1>3. c \in 1 .. rl.n /\ P(c)
  BY Zenon
<1>4. c = r
  <2>1. CASE c < r
    <3>1. c + 1 = r \/ c + 1 < r
      BY <1>1, <1>3, <2>1
    <3>2. rl.start[c + 1] <= rl.start[r]
      BY <1>1, <1>2, <1>3, <3>1
    <3> QED BY <1>1, <1>3, <3>2
  <2>2. CASE r < c
    <3>1. r + 1 = c \/ r + 1 < c
      BY <1>1, <1>3, <2>2
    <3>2. rl.start[r + 1] <= rl.start[c]
      BY <1>1, <1>2, <1>3, <3>1
    <3> QED BY <1>1, <1>3, <3>2
  <2> QED BY <1>1, <1>3, <2>1, <2>2
<1> QED BY <1>4, Zenon DEF ByteAt, RunByte

\* Appending bytes to what was read (out.resize, read_exact).
LEMMA Appended ==
  \A s \in Seq(Vals), n \in Nat : \A f \in [1 .. n -> Vals] :
    /\ s \o f \in Seq(Vals)
    /\ Len(s \o f) = Len(s) + n
    /\ \A k \in 1 .. Len(s) : (s \o f)[k] = s[k]
    /\ \A k \in Len(s) + 1 .. Len(s) + n : (s \o f)[k] = f[k - Len(s)]
<1> SUFFICES ASSUME NEW s \in Seq(Vals), NEW n \in Nat, NEW f \in [1 .. n -> Vals]
             PROVE  /\ s \o f \in Seq(Vals)
                    /\ Len(s \o f) = Len(s) + n
                    /\ \A k \in 1 .. Len(s) : (s \o f)[k] = s[k]
                    /\ \A k \in Len(s) + 1 .. Len(s) + n : (s \o f)[k] = f[k - Len(s)]
  OBVIOUS
<1>1. f \in Seq(Vals) /\ Len(f) = n
  OBVIOUS
<1> HIDE DEF Vals
<1> QED BY <1>1

\* A worker that takes no step keeps its part of the invariant, provided that
\* nobody else releases its lock or moves the position under it (lock_reader).
LEMMA OtherWorker ==
  ASSUME IInv, NEW u \in Worker,
         pc'[u] = pc[u], runs'[u] = runs[u], offset'[u] = offset[u],
         len'[u] = len[u], i'[u] = i[u], run_base'[u] = run_base[u],
         take'[u] = take[u], out'[u] = out[u],
         lock = u => lock' = u /\ pos' = pos
  PROVE  WalkOK(u)'
<1>1. WalkOK(u)
  BY DEF IInv
<1> QED BY <1>1 DEF WalkOK, AtRun, InRun, Front, Pos, Want

-----------------------------------------------------------------------------
(* One lemma per step of a walk: what the step does to its own worker.       *)

\* The first step under the lock finds the walk at its first run (lock_reader).
LEMMA LockOwn ==
  ASSUME IInv, NEW t \in Worker, lock_reader(t)
  PROVE  WalkOK(t)'
<1>1. /\ pc[t] = "lock" /\ WalkOK(t)
      /\ runs[t] \in RunLists /\ offset[t] \in Nat /\ len[t] \in Nat
  BY DEF IInv, lock_reader, TypeOK
<1>2. /\ pc'[t] = "run" /\ lock' = t
      /\ runs' = runs /\ offset' = offset /\ len' = len /\ i' = i
      /\ run_base' = run_base /\ out' = out
  BY DEF IInv, TypeOK, lock_reader, args
<1>3. i[t] = 1 /\ run_base[t] = 0 /\ out[t] = <<>>
  BY <1>1 DEF WalkOK
<1>4. runs[t].n \in Nat /\ runs[t].start[1] = 0
  BY <1>1, RunFacts
<1>5. AtRun(t)'
  BY <1>1, <1>2, <1>3, <1>4 DEF AtRun, Front, Pos, Want
<1> QED BY <1>2, <1>5 DEF WalkOK

\* What a worker inside the loop may rely on.
LoopFact(t) ==
  /\ lock = t /\ AtRun(t) /\ Front(t)
  /\ runs[t] \in RunLists /\ out[t] \in Seq(Vals)
  /\ offset[t] \in Nat /\ len[t] \in Nat /\ Len(out[t]) \in Nat
  /\ i[t] \in 1 .. runs[t].n /\ i[t] + 1 \in 1 .. runs[t].n + 1
  /\ run_base[t] = runs[t].start[i[t]] /\ run_base[t] \in Nat
  /\ RunEnd(t) = runs[t].start[i[t] + 1] /\ RunEnd(t) \in Nat
  /\ run_base[t] < RunEnd(t) /\ run_base[t] <= Pos(t)
  /\ Want(t) > 0 /\ Pos(t) \in Nat /\ Want(t) \in Nat

\* The loop of read_virtual: where its head stands.
LEMMA LoopFacts ==
  ASSUME IInv, NEW t \in Worker, InLoop(t)
  PROVE  LoopFact(t)
<1>1. pc[t] = "run" /\ Want(t) > 0 /\ i[t] <= runs[t].n
  BY DEF InLoop
<1>2. lock = t /\ AtRun(t) /\ Front(t)
  BY <1>1 DEF IInv, WalkOK, AtRun
<1>3. /\ runs[t] \in RunLists /\ out[t] \in Seq(Vals)
      /\ offset[t] \in Nat /\ len[t] \in Nat /\ run_base[t] \in Nat
      /\ i[t] \in Nat \ {0}
  BY Zenon DEF IInv, TypeOK, Vals
<1>4. Len(out[t]) \in Nat
  BY <1>3
<1>5. runs[t].n \in Nat
  BY <1>3, RunFacts
<1>6. i[t] \in 1 .. runs[t].n /\ i[t] + 1 \in 1 .. runs[t].n + 1
  BY <1>1, <1>3, <1>5
<1>7. run_base[t] = runs[t].start[i[t]] /\ (Pos(t) >= run_base[t] \/ Want(t) = 0)
  BY <1>2 DEF AtRun
<1>8. RunEnd(t) = runs[t].start[i[t] + 1] /\ run_base[t] < RunEnd(t) /\ RunEnd(t) \in Nat
  BY <1>3, <1>6, <1>7, RunFacts, SMTT(30) DEF RunEnd
<1>9. Pos(t) \in Nat /\ Want(t) \in Nat /\ run_base[t] <= Pos(t)
  BY <1>1, <1>3, <1>4, <1>7 DEF Pos, Want
<1> QED BY <1>1, <1>2, <1>3, <1>4, <1>6, <1>7, <1>8, <1>9 DEF LoopFact

\* The shorter of two lengths (u64::min).
LEMMA MinFacts ==
  \A a, b \in Nat : /\ MinOf(a, b) \in Nat /\ MinOf(a, b) <= a /\ MinOf(a, b) <= b
                    /\ MinOf(a, b) = a \/ MinOf(a, b) = b
  BY DEF MinOf

\* A run before the address is stepped over (read_virtual).
LEMMA SkipOwn ==
  ASSUME IInv, NEW t \in Worker, SkipRun(t)
  PROVE  WalkOK(t)' /\ TypeOK'
<1>1. InLoop(t) /\ Pos(t) >= RunEnd(t) /\ pc[t] = "run"
  BY DEF SkipRun, InLoop
<1>0. LoopFact(t)
  BY <1>1, LoopFacts
<1>2. /\ i' = [i EXCEPT ![t] = @ + 1] /\ run_base' = [run_base EXCEPT ![t] = RunEnd(t)]
      /\ UNCHANGED <<lock, pos, pc, runs, offset, len, take, out, walks>>
  BY DEF SkipRun, StepOver, args
<1>3. i'[t] = i[t] + 1 /\ run_base'[t] = RunEnd(t)
  BY <1>2 DEF IInv, TypeOK
<1>4. AtRun(t)'
  BY <1>1, <1>2, <1>3, <1>0 DEF LoopFact, AtRun, Front, Pos, Want
<1>5. TypeOK'
  <2>1. TypeOK /\ RunEnd(t) \in Nat
    BY <1>1, <1>0 DEF LoopFact, IInv
  <2>2. i' \in [Worker -> Nat \ {0}] /\ run_base' \in [Worker -> Nat]
    BY <1>2, <2>1, SMTT(30) DEF TypeOK
  <2> QED BY <1>2, <2>1, <2>2, Zenon DEF TypeOK
<1> QED BY <1>1, <1>2, <1>4, <1>5, <1>0 DEF LoopFact, WalkOK

\* A walk that reads n bytes of run r, f, right after s goes on with its own
\* stream (the two arms of the match on run.lcn).
LEMMA FrontGrows ==
  \A rl \in RunLists, o \in Nat, s \in Seq(Vals), n \in Nat :
  \A r \in 1 .. rl.n, f \in [1 .. n -> Vals] :
    (/\ rl.start[r] <= o + Len(s)
     /\ o + Len(s) + n <= rl.start[r + 1]
     /\ \A k \in 1 .. Len(s) : s[k] = ByteAt(rl, o + k - 1)
     /\ \A k \in 1 .. n : f[k] = RunByte(rl, r, o + Len(s) + k - 1))
    => \A k \in 1 .. Len(s) + n : (s \o f)[k] = ByteAt(rl, o + k - 1)
<1> TAKE rl \in RunLists, o \in Nat, s \in Seq(Vals), n \in Nat
<1> TAKE r \in 1 .. rl.n, f \in [1 .. n -> Vals]
<1> HAVE /\ rl.start[r] <= o + Len(s)
         /\ o + Len(s) + n <= rl.start[r + 1]
         /\ \A k \in 1 .. Len(s) : s[k] = ByteAt(rl, o + k - 1)
         /\ \A k \in 1 .. n : f[k] = RunByte(rl, r, o + Len(s) + k - 1)
<1> TAKE k \in 1 .. Len(s) + n
<1> DEFINE m == Len(s)
<1>1. m \in Nat /\ rl.start[r] \in Nat /\ rl.start[r + 1] \in Nat
  BY RunFacts
<1>2. CASE k \in 1 .. m
  BY <1>2, Appended
<1>3. CASE k \in m + 1 .. m + n
  <2> DEFINE j == k - m
             v == o + k - 1
  <2>1. j \in 1 .. n /\ v \in Nat /\ v = o + m + j - 1
    <3> HIDE DEF m
    <3> QED BY <1>1, <1>3
  <2>2. rl.start[r] <= v /\ v < rl.start[r + 1]
    <3> HIDE DEF m, j, v
    <3>1. rl.start[r] <= o + m /\ o + m + n <= rl.start[r + 1]
      BY DEF m
    <3> QED BY <1>1, <2>1, <3>1, SMTT(30)
  <2>3. (s \o f)[k] = f[j]
    BY <1>3, Appended
  <2> HIDE DEF j, v
  <2>4. f[j] = RunByte(rl, r, v)
    <3>1. o + Len(s) + j - 1 = v
      BY <2>1
    <3> QED BY <2>1, <3>1, Zenon
  <2>5. ByteAt(rl, v) = f[j]
    BY <2>1, <2>2, <2>4, ByteOfRun
  <2> QED BY <2>3, <2>5 DEF v
<1> HIDE DEF m
<1>4. k \in 1 .. m \/ k \in m + 1 .. m + n
  BY <1>1 DEF m
<1> QED BY <1>2, <1>3, <1>4

\* Bytes of the window added to bytes of the window (OffsetReader::read).
LEMMA StaysInside ==
  ASSUME IInv, NEW t \in Worker, NEW n \in Nat, NEW f \in [1 .. n -> Vals],
         \A k \in 1 .. n : f[k] \in Window,
         out' = [out EXCEPT ![t] = out[t] \o f]
  PROVE  NeverEscapes' /\ out' \in [Worker -> Seq(Vals)]
<1>1. out \in [Worker -> Seq(Vals)] /\ out[t] \in Seq(Vals)
  BY Zenon DEF IInv, TypeOK, Vals
<1> DEFINE g == out[t] \o f
           m == Len(out[t])
<1>2. /\ g \in Seq(Vals) /\ Len(g) = m + n /\ m \in Nat
      /\ \A k \in 1 .. m : g[k] = out[t][k]
      /\ \A k \in m + 1 .. m + n : g[k] = f[k - m]
  BY <1>1, Appended
<1>3. \A k \in m + 1 .. m + n : k - m \in 1 .. n
  <2> HIDE DEF m
  <2> QED BY <1>2
<1>4. \A u \in Worker : \A k \in 1 .. Len(out[u]) : out[u][k] \in Window
  BY DEF IInv, NeverEscapes, Window
<1> HIDE DEF g, m
<1>5. \A k \in 1 .. Len(g) : g[k] \in Window
  <2> SUFFICES ASSUME NEW k \in 1 .. Len(g) PROVE g[k] \in Window
    OBVIOUS
  <2>1. k \in 1 .. m \/ k \in m + 1 .. m + n
    BY <1>2
  <2> QED BY <1>2, <1>3, <1>4, <2>1, ZenonT(30) DEF m
<1>6. out' = [out EXCEPT ![t] = g]
  BY DEF g
<1>7. out' \in [Worker -> Seq(Vals)]
  BY <1>1, <1>2, <1>6
<1>8. \A u \in Worker : \A k \in 1 .. Len(out'[u]) : out'[u][k] \in Window
  BY <1>1, <1>4, <1>5, <1>6
<1> QED BY <1>7, <1>8 DEF NeverEscapes, Window

\* A hole is read as zeroes (read_virtual, None).
LEMMA SparseOwn ==
  ASSUME IInv, NEW t \in Worker, SparseRun(t)
  PROVE  WalkOK(t)' /\ TypeOK' /\ NeverEscapes'
<1> DEFINE rest == RunEnd(t) - Pos(t)
           n == MinOf(rest, Want(t))
           f == [k \in 1 .. n |-> Zero]
<1>1. /\ InLoop(t) /\ Pos(t) < RunEnd(t) /\ runs[t].lcn[i[t]] = Zero
      /\ pc[t] = "run"
  BY DEF SparseRun, InLoop
<1>0. LoopFact(t)
  BY <1>1, LoopFacts
<1>2. /\ out' = [out EXCEPT ![t] = out[t] \o f]
      /\ i' = [i EXCEPT ![t] = @ + 1] /\ run_base' = [run_base EXCEPT ![t] = RunEnd(t)]
      /\ UNCHANGED <<lock, pos, pc, runs, offset, len, take, walks>>
  BY DEF SparseRun, StepOver, args
<1>3. i'[t] = i[t] + 1 /\ run_base'[t] = RunEnd(t) /\ out'[t] = out[t] \o f
  BY <1>2, Zenon DEF IInv, TypeOK
<1>4. /\ n \in Nat /\ n <= Want(t) /\ Pos(t) + n <= RunEnd(t)
      /\ n = Want(t) \/ Pos(t) + n = RunEnd(t)
  <2>0. RunEnd(t) \in Nat /\ Pos(t) \in Nat /\ Want(t) \in Nat /\ Pos(t) < RunEnd(t)
    BY <1>0, <1>1 DEF LoopFact
  <2>1. rest \in Nat /\ RunEnd(t) = Pos(t) + rest
    BY <2>0
  <2> HIDE DEF rest
  <2>2. n \in Nat /\ n <= rest /\ n <= Want(t) /\ (n = rest \/ n = Want(t))
    BY <2>0, <2>1, MinFacts
  <2> HIDE DEF n
  <2> QED BY <2>0, <2>1, <2>2
<1>5. f \in [1 .. n -> Vals] /\ \A k \in 1 .. n : f[k] = Zero
  BY DEF Vals
<1> HIDE DEF rest, n, f
<1>6. NeverEscapes' /\ out' \in [Worker -> Seq(Vals)]
  <2>1. \A k \in 1 .. n : f[k] \in Window
    BY <1>5 DEF Window
  <2> QED BY <1>2, <1>4, <1>5, <2>1, StaysInside, Zenon
<1>7. /\ out[t] \in Seq(Vals) /\ Len(out[t]) \in Nat /\ offset[t] \in Nat /\ len[t] \in Nat
      /\ Len(out'[t]) = Len(out[t]) + n
      /\ Pos(t) = offset[t] + Len(out[t]) /\ Want(t) = len[t] - Len(out[t])
  <2>1. out[t] \in Seq(Vals) /\ Len(out[t]) \in Nat /\ offset[t] \in Nat /\ len[t] \in Nat
    BY <1>0 DEF LoopFact
  <2>2. Len(out[t] \o f) = Len(out[t]) + n
    BY <1>4, <1>5, <2>1, Appended
  <2> QED BY <1>3, <2>1, <2>2 DEF Pos, Want
<1>8. \A k \in 1 .. Len(out[t]) + n : out'[t][k] = ByteAt(runs[t], offset[t] + k - 1)
  <2>1. /\ runs[t] \in RunLists /\ i[t] \in 1 .. runs[t].n
        /\ runs[t].start[i[t]] <= Pos(t) /\ Pos(t) + n <= runs[t].start[i[t] + 1]
    BY <1>0, <1>4 DEF LoopFact
  <2>2. \A k \in 1 .. Len(out[t]) : out[t][k] = ByteAt(runs[t], offset[t] + k - 1)
    BY <1>0 DEF LoopFact, Front
  <2>3. /\ runs[t].start[i[t]] <= offset[t] + Len(out[t])
        /\ offset[t] + Len(out[t]) + n <= runs[t].start[i[t] + 1]
    BY <1>7, <2>1
  <2>4. \A k \in 1 .. Len(out[t]) + n : (out[t] \o f)[k] = ByteAt(runs[t], offset[t] + k - 1)
    <3>1. \A k \in 1 .. n : f[k] = RunByte(runs[t], i[t], offset[t] + Len(out[t]) + k - 1)
      BY <1>1, <1>5, Zenon DEF RunByte
    <3>2. /\ runs[t] \in RunLists /\ offset[t] \in Nat /\ out[t] \in Seq(Vals) /\ n \in Nat
          /\ i[t] \in 1 .. runs[t].n /\ f \in [1 .. n -> Vals]
      BY <1>4, <1>5, <1>7, <2>1
    <3> DEFINE rl == runs[t]
               o == offset[t]
               s == out[t]
               r == i[t]
    <3>3. /\ rl \in RunLists /\ o \in Nat /\ s \in Seq(Vals) /\ n \in Nat
          /\ r \in 1 .. rl.n /\ f \in [1 .. n -> Vals]
          /\ rl.start[r] <= o + Len(s)
          /\ o + Len(s) + n <= rl.start[r + 1]
          /\ \A k \in 1 .. Len(s) : s[k] = ByteAt(rl, o + k - 1)
          /\ \A k \in 1 .. n : f[k] = RunByte(rl, r, o + Len(s) + k - 1)
      BY <2>2, <2>3, <3>1, <3>2
    <3> HIDE DEF rl, o, s, r
    <3>4. \A k \in 1 .. Len(s) + n : (s \o f)[k] = ByteAt(rl, o + k - 1)
      BY <3>3, FrontGrows, Zenon
    <3> QED BY <3>4, Zenon DEF rl, o, s, r
  <2> QED BY <1>3, <2>4, Zenon
<1>9. AtRun(t)'
  <2>1. Len(out'[t]) <= len[t]
    BY <1>4, <1>7
  <2>2. Front(t)'
    BY <1>2, <1>7, <1>8, <2>1 DEF Front
  <2>3. Pos(t)' = Pos(t) + n /\ Want(t)' = Want(t) - n
    BY <1>2, <1>4, <1>7 DEF Pos, Want
  <2>4. Pos(t)' >= RunEnd(t) \/ Want(t)' = 0
    <3>1. RunEnd(t) \in Nat /\ Pos(t) \in Nat /\ Want(t) \in Nat
      BY <1>0 DEF LoopFact
    <3> QED BY <1>4, <2>3, <3>1
  <2>5. i[t] + 1 \in 1 .. runs[t].n + 1 /\ RunEnd(t) = runs[t].start[i[t] + 1]
    BY <1>0 DEF LoopFact
  <2> QED BY <1>2, <1>3, <2>2, <2>4, <2>5 DEF AtRun
<1>10. TypeOK'
  <2>1. TypeOK /\ RunEnd(t) \in Nat
    BY <1>0 DEF IInv, LoopFact
  <2>2. /\ i' \in [Worker -> Nat \ {0}] /\ run_base' \in [Worker -> Nat]
    BY <1>2, <2>1, SMTT(30) DEF TypeOK
  <2> QED BY <1>2, <1>6, <2>1, <2>2, Zenon DEF TypeOK, Vals
<1> QED BY <1>0, <1>1, <1>2, <1>6, <1>9, <1>10 DEF WalkOK, LoopFact

\* A run on disk is sought (read_virtual, Some): the position is set under the lock.
LEMMA SeekOwn ==
  ASSUME IInv, NEW t \in Worker, SeekRun(t)
  PROVE  WalkOK(t)' /\ TypeOK'
<1> DEFINE rest == RunEnd(t) - Pos(t)
           n == MinOf(rest, Want(t))
           at == runs[t].lcn[i[t]] * ClusterSize
<1>1. InLoop(t) /\ Pos(t) < RunEnd(t) /\ runs[t].lcn[i[t]] # Zero
  BY DEF SeekRun
<1>0. LoopFact(t)
  BY <1>1, LoopFacts
<1>2. /\ pos' = at + (Pos(t) - run_base[t])
      /\ take' = [take EXCEPT ![t] = n] /\ pc' = [pc EXCEPT ![t] = "read"]
      /\ UNCHANGED <<lock, runs, offset, len, i, run_base, out, walks>>
  BY DEF SeekRun, args
<1>3. take'[t] = n /\ pc'[t] = "read"
  BY <1>2 DEF IInv, TypeOK
<1>4. /\ n \in Nat /\ n <= Want(t) /\ Pos(t) + n <= RunEnd(t)
      /\ n = Want(t) \/ Pos(t) + n = RunEnd(t)
  <2>0. RunEnd(t) \in Nat /\ Pos(t) \in Nat /\ Want(t) \in Nat /\ Pos(t) < RunEnd(t)
    BY <1>0, <1>1 DEF LoopFact
  <2>1. /\ rest \in Nat /\ Pos(t) \in Nat /\ Want(t) \in Nat
        /\ RunEnd(t) = Pos(t) + rest
    BY <2>0
  <2> HIDE DEF rest
  <2>2. n \in Nat /\ n <= rest /\ n <= Want(t) /\ (n = rest \/ n = Want(t))
    BY <2>1, MinFacts
  <2> HIDE DEF n
  <2> QED BY <2>1, <2>2
<1>5. at \in Nat
  <2>1. runs[t].lcn[i[t]] \in Nat
    BY <1>1, <1>0, RunFacts, SMTT(30) DEF LoopFact
  <2> QED BY <2>1, VolumeAssumption
<1> HIDE DEF n
<1>6. InRun(t)'
  <2>1. Front(t)'
    BY <1>1, <1>2, <1>0 DEF LoopFact, Front
  <2>2. Pos(t)' = Pos(t) /\ Want(t)' = Want(t)
    BY <1>2 DEF Pos, Want
  <2> QED BY <1>1, <1>2, <1>3, <1>4, <2>1, <2>2, <1>0, SMTT(30) DEF LoopFact, InRun
<1> HIDE DEF at
<1>7. TypeOK'
  <2>1. TypeOK /\ Pos(t) - run_base[t] \in Nat
    BY <1>1, <1>0, SMTT(30) DEF LoopFact, IInv
  <2>2. /\ pos' \in Nat /\ take' \in [Worker -> Nat]
        /\ pc' \in [Worker -> {"idle", "lock", "run", "read", "ok", "err"}]
    <3>1. at + (Pos(t) - run_base[t]) \in Nat
      BY <1>5, <2>1
    <3>2. take \in [Worker -> Nat] /\ pc \in [Worker -> {"idle", "lock", "run", "read", "ok", "err"}]
      BY <2>1, SMTT(30) DEF TypeOK
    <3> QED BY <1>2, <1>4, <3>1, <3>2
  <2> QED BY <1>2, <2>1, <2>2, Zenon DEF TypeOK
<1> QED BY <1>1, <1>2, <1>3, <1>6, <1>7, <1>0 DEF LoopFact, WalkOK

\* What a worker inside read_exact may rely on.
ReadFact(t) ==
  /\ lock = t /\ Front(t)
  /\ runs[t] \in RunLists /\ out[t] \in Seq(Vals)
  /\ offset[t] \in Nat /\ len[t] \in Nat /\ Len(out[t]) \in Nat /\ take[t] \in Nat
  /\ i[t] \in 1 .. runs[t].n /\ i[t] + 1 \in 1 .. runs[t].n + 1
  /\ run_base[t] = runs[t].start[i[t]] /\ run_base[t] \in Nat
  /\ RunEnd(t) = runs[t].start[i[t] + 1] /\ RunEnd(t) \in Nat
  /\ runs[t].lcn[i[t]] # Zero /\ runs[t].lcn[i[t]] * ClusterSize \in Nat
  /\ pos = runs[t].lcn[i[t]] * ClusterSize + (Pos(t) - run_base[t]) /\ pos \in Nat
  /\ run_base[t] <= Pos(t) /\ Pos(t) \in Nat
  /\ Pos(t) = offset[t] + Len(out[t]) /\ Want(t) = len[t] - Len(out[t])
  /\ take[t] <= Want(t) /\ Pos(t) + take[t] <= RunEnd(t)
  /\ Pos(t) + take[t] = RunEnd(t) \/ take[t] = Want(t)

\* Inside read_exact: where the walk and the shared position stand.
LEMMA ReadFacts ==
  ASSUME IInv, NEW t \in Worker, pc[t] = "read"
  PROVE  ReadFact(t)
<1>1. lock = t /\ InRun(t)
  BY DEF IInv, WalkOK
<1>2. /\ runs[t] \in RunLists /\ out[t] \in Seq(Vals) /\ pos \in Nat
      /\ offset[t] \in Nat /\ len[t] \in Nat /\ run_base[t] \in Nat /\ take[t] \in Nat
  BY Zenon DEF IInv, TypeOK, Vals
<1>3. Len(out[t]) \in Nat
  BY <1>2
<1>4. i[t] \in 1 .. runs[t].n /\ i[t] + 1 \in 1 .. runs[t].n + 1
  <2>1. i[t] \in 1 .. runs[t].n /\ runs[t].n \in Nat
    BY <1>1, <1>2, RunFacts DEF InRun
  <2> QED BY <2>1
<1>5. run_base[t] = runs[t].start[i[t]] /\ runs[t].lcn[i[t]] # Zero
  BY <1>1 DEF InRun
<1>6. RunEnd(t) = runs[t].start[i[t] + 1] /\ RunEnd(t) \in Nat
  BY <1>2, <1>4, <1>5, RunFacts, SMTT(30) DEF RunEnd
<1>7. runs[t].lcn[i[t]] * ClusterSize \in Nat
  <2>1. runs[t].lcn[i[t]] \in Nat
    BY <1>2, <1>4, <1>5, RunFacts
  <2> QED BY <2>1, VolumeAssumption
<1>8. /\ Pos(t) = offset[t] + Len(out[t]) /\ Want(t) = len[t] - Len(out[t])
      /\ Pos(t) \in Nat
  BY <1>2, <1>3 DEF Pos, Want
<1>9. /\ Front(t) /\ run_base[t] <= Pos(t)
      /\ pos = runs[t].lcn[i[t]] * ClusterSize + (Pos(t) - run_base[t])
      /\ take[t] <= Want(t) /\ Pos(t) + take[t] <= RunEnd(t)
      /\ Pos(t) + take[t] = RunEnd(t) \/ take[t] = Want(t)
  BY <1>1, <1>2, <1>6, <1>8, SMTT(30) DEF InRun
<1> QED BY <1>1, <1>2, <1>3, <1>4, <1>5, <1>6, <1>7, <1>8, <1>9 DEF ReadFact

\* A read, short or not, goes on where the last one ended (read_exact over
\* OffsetReader::read).
LEMMA ReadOwn ==
  ASSUME IInv, NEW t \in Worker, Read(t)
  PROVE  WalkOK(t)' /\ TypeOK' /\ NeverEscapes'
<1>1. pc[t] = "read" /\ take[t] > 0
  BY DEF Read
<1>0. ReadFact(t)
  BY <1>1, ReadFacts
<1>2. PICK n \in 1 .. Readable(t) :
        /\ out' = [out EXCEPT ![t] = out[t] \o [k \in 1 .. n |-> Disk[Base + pos + k - 1]]]
        /\ take' = [take EXCEPT ![t] = @ - n]
        /\ pos' = pos + n
  BY Zenon DEF Read
<1>3. UNCHANGED <<lock, pc, runs, offset, len, i, run_base, walks>>
  BY DEF Read, args
<1> DEFINE f == [k \in 1 .. n |-> Disk[Base + pos + k - 1]]
<1>4. /\ n \in Nat /\ n >= 1 /\ n <= take[t]
      /\ n <= WindowLen - pos /\ n <= DiskLen - (Base + pos)
  <2>1. take[t] \in Nat /\ pos \in Nat
    BY <1>0 DEF ReadFact
  <2> QED BY <2>1, VolumeAssumption DEF Readable, MinOf
<1>5. ASSUME NEW k \in 1 .. n
      PROVE  /\ Base + pos + k - 1 \in 0 .. DiskLen - 1
             /\ Base + pos + k - 1 \in Base .. MinOf(Base + WindowLen, DiskLen) - 1
  <2>1. pos \in Nat
    BY <1>0 DEF ReadFact
  <2> QED BY <1>4, <2>1, VolumeAssumption DEF MinOf
<1>6. f \in [1 .. n -> Vals] /\ \A k \in 1 .. n : f[k] \in Window
  BY <1>5, VolumeAssumption DEF Vals, Window
<1>7. \A k \in 1 .. n : f[k] = Disk[Base + pos + k - 1]
  OBVIOUS
<1>8. out' = [out EXCEPT ![t] = out[t] \o f]
  BY <1>2
<1> HIDE DEF f
<1>9. out'[t] = out[t] \o f /\ take'[t] = take[t] - n
  BY <1>2, <1>8, Zenon DEF IInv, TypeOK
<1>10. NeverEscapes' /\ out' \in [Worker -> Seq(Vals)]
  BY <1>4, <1>6, <1>8, StaysInside, ZenonT(30)
<1> DEFINE rl == runs[t]
           o == offset[t]
           s == out[t]
           r == i[t]
<1>11. /\ rl \in RunLists /\ o \in Nat /\ s \in Seq(Vals) /\ n \in Nat
       /\ r \in 1 .. rl.n /\ f \in [1 .. n -> Vals]
       /\ rl.start[r] <= o + Len(s)
       /\ o + Len(s) + n <= rl.start[r + 1]
       /\ \A k \in 1 .. Len(s) : s[k] = ByteAt(rl, o + k - 1)
  <2>1. \A k \in 1 .. Len(s) : s[k] = ByteAt(rl, o + k - 1)
    BY <1>0, ZenonT(30) DEF ReadFact, Front
  <2>2. /\ o \in Nat /\ Len(s) \in Nat /\ take[t] \in Nat /\ RunEnd(t) \in Nat
        /\ run_base[t] \in Nat /\ run_base[t] <= Pos(t) /\ Pos(t) = o + Len(s)
        /\ Pos(t) + take[t] <= RunEnd(t)
    BY <1>0 DEF ReadFact
  <2>3. run_base[t] <= o + Len(s) /\ o + Len(s) + n <= RunEnd(t)
    BY <1>4, <2>2
  <2>4. rl.start[r] = run_base[t] /\ rl.start[r + 1] = RunEnd(t)
    BY <1>0 DEF ReadFact
  <2>5. rl \in RunLists /\ s \in Seq(Vals) /\ r \in 1 .. rl.n
    BY <1>0 DEF ReadFact
  <2> QED BY <1>4, <1>6, <2>1, <2>2, <2>3, <2>4, <2>5, SMTT(30)
<1>12. \A k \in 1 .. n : f[k] = RunByte(rl, r, o + Len(s) + k - 1)
  <2> SUFFICES ASSUME NEW k \in 1 .. n PROVE f[k] = RunByte(rl, r, o + Len(s) + k - 1)
    OBVIOUS
  <2> DEFINE at == rl.lcn[r] * ClusterSize
             v == o + Len(s) + k - 1
  <2>1. /\ at \in Nat /\ pos = at + (Pos(t) - run_base[t]) /\ Pos(t) = o + Len(s)
        /\ run_base[t] = rl.start[r] /\ run_base[t] \in Nat /\ Pos(t) \in Nat
    BY <1>0 DEF ReadFact
  <2>2. rl.lcn[r] # Zero
    BY <1>0 DEF ReadFact
  <2>3. Base + pos + k - 1 = Base + at + (v - rl.start[r])
    <3> DEFINE b == run_base[t]
               p == Pos(t)
    <3>1. v = p + k - 1 /\ rl.start[r] = b /\ pos = at + (p - b)
      BY <2>1
    <3>2. at \in Nat /\ b \in Nat /\ p \in Nat /\ k \in Nat /\ Base \in Nat
      BY <1>4, <2>1, VolumeAssumption
    <3> HIDE DEF at, v, b, p
    <3>3. Base + (at + (p - b)) + k - 1 = Base + at + ((p + k - 1) - b)
      BY <3>2
    <3> QED BY <3>1, <3>3, Zenon
  <2>4. f[k] = Disk[Base + at + (v - rl.start[r])]
    BY <1>7, <2>3, Zenon
  <2> HIDE DEF v
  <2>5. f[k] = RunByte(rl, r, v)
    BY <2>2, <2>4, Zenon DEF RunByte
  <2> QED BY <2>5 DEF v
<1>13. \A k \in 1 .. Len(out[t]) + n : (out[t] \o f)[k] = ByteAt(runs[t], offset[t] + k - 1)
  <2> HIDE DEF rl, o, s, r
  <2>1. \A k \in 1 .. Len(s) + n : (s \o f)[k] = ByteAt(rl, o + k - 1)
    BY <1>11, <1>12, FrontGrows, Zenon
  <2> QED BY <2>1, ZenonT(30) DEF rl, o, s, r
<1>14. Len(out'[t]) = Len(out[t]) + n
  <2>1. out[t] \in Seq(Vals)
    BY <1>0 DEF ReadFact
  <2>2. Len(out[t] \o f) = Len(out[t]) + n
    BY <1>4, <1>6, <2>1, Appended, Zenon
  <2> QED BY <1>9, <2>2
<1>15. InRun(t)'
  <2>1. Front(t)'
    <3>1. Len(out[t]) \in Nat /\ len[t] \in Nat /\ take[t] \in Nat /\ take[t] <= len[t] - Len(out[t])
      BY <1>0 DEF ReadFact
    <3>2. Len(out'[t]) <= len[t]
      BY <1>4, <1>14, <3>1
    <3> QED BY <1>3, <1>9, <1>13, <1>14, <3>2, SMTT(30) DEF Front
  <2>2. /\ Pos(t)' = Pos(t) + n /\ Want(t)' = Want(t) - n
    <3>1. Len(out[t]) \in Nat /\ len[t] \in Nat /\ offset[t] \in Nat
      BY <1>0 DEF ReadFact
    <3> QED BY <1>3, <1>4, <1>14, <3>1, SMTT(30) DEF Pos, Want
  <2>3. /\ Pos(t)' >= run_base[t]
        /\ pos' = runs[t].lcn[i[t]] * ClusterSize + (Pos(t)' - run_base[t])
        /\ take'[t] <= Want(t)'
        /\ Pos(t)' + take'[t] <= RunEnd(t)
        /\ Pos(t)' + take'[t] = RunEnd(t) \/ take'[t] = Want(t)'
    <3> DEFINE at == runs[t].lcn[i[t]] * ClusterSize
    <3>1. /\ at \in Nat /\ pos = at + (Pos(t) - run_base[t]) /\ run_base[t] <= Pos(t)
          /\ run_base[t] \in Nat /\ Pos(t) \in Nat /\ take[t] \in Nat
          /\ take[t] <= Want(t) /\ Pos(t) + take[t] <= RunEnd(t) /\ RunEnd(t) \in Nat
          /\ Pos(t) + take[t] = RunEnd(t) \/ take[t] = Want(t)
      BY <1>0 DEF ReadFact
    <3>2. Want(t) \in Int
      <4>1. Len(out[t]) \in Nat /\ len[t] \in Nat
        BY <1>0 DEF ReadFact
      <4> QED BY <4>1, SMTT(30) DEF Want
    <3> HIDE DEF at
    <3>3. pos' = at + (Pos(t)' - run_base[t])
      BY <1>2, <1>4, <2>2, <3>1
    <3>4. /\ Pos(t)' >= run_base[t] /\ take'[t] <= Want(t)'
          /\ Pos(t)' + take'[t] <= RunEnd(t)
          /\ Pos(t)' + take'[t] = RunEnd(t) \/ take'[t] = Want(t)'
      <4> DEFINE p == Pos(t)
                 w == Want(t)
                 e == RunEnd(t)
                 b == run_base[t]
                 x == take[t]
      <4>1. Pos(t)' = p + n /\ Want(t)' = w - n /\ take'[t] = x - n
        BY <1>9, <2>2
      <4>2. /\ p \in Nat /\ w \in Int /\ e \in Nat /\ b \in Nat /\ x \in Nat /\ n \in Nat
            /\ b <= p /\ x <= w /\ p + x <= e /\ (p + x = e \/ x = w)
        BY <1>4, <3>1, <3>2
      <4> HIDE DEF p, w, e, b, x
      <4>3. /\ p + n >= b /\ x - n <= w - n /\ p + n + (x - n) <= e
            /\ (p + n + (x - n) = e \/ x - n = w - n)
        BY <4>2
      <4>4. /\ Pos(t)' >= b /\ take'[t] <= Want(t)' /\ Pos(t)' + take'[t] <= e
            /\ (Pos(t)' + take'[t] = e \/ take'[t] = Want(t)')
        BY <4>1, <4>3, Zenon
      <4> QED BY <4>4 DEF e, b
    <3> QED BY <3>3, <3>4, SMTT(30) DEF at
  <2>4. /\ i[t] \in 1 .. runs[t].n /\ run_base[t] = runs[t].start[i[t]]
        /\ runs[t].lcn[i[t]] # Zero /\ RunEnd(t) = runs[t].start[i[t] + 1]
    BY <1>0 DEF ReadFact
  <2> QED BY <1>3, <2>1, <2>3, <2>4 DEF InRun
<1>16. TypeOK'
  <2>1. TypeOK /\ take[t] \in Nat /\ pos \in Nat
    BY <1>0 DEF IInv, ReadFact
  <2>2. pos + n \in Nat /\ take[t] - n \in Nat
    BY <1>4, <2>1
  <2>3. pos' \in Nat /\ take' \in [Worker -> Nat]
    BY <1>2, <2>1, <2>2 DEF TypeOK
  <2> QED BY <1>3, <1>10, <2>1, <2>3, Zenon DEF TypeOK, Vals
<1> QED BY <1>0, <1>1, <1>3, <1>10, <1>15, <1>16, Zenon DEF WalkOK, ReadFact

\* A filled buffer ends at the end of its run, or all that was wanted is there.
LEMMA FilledOwn ==
  ASSUME IInv, NEW t \in Worker, Filled(t)
  PROVE  WalkOK(t)' /\ TypeOK'
<1>1. pc[t] = "read" /\ take[t] = 0
  BY DEF Filled
<1>0. ReadFact(t)
  BY <1>1, ReadFacts, SMTT(30)
<1>2. /\ i' = [i EXCEPT ![t] = i[t] + 1]
      /\ run_base' = [run_base EXCEPT ![t] = RunEnd(t)]
      /\ pc' = [pc EXCEPT ![t] = "run"]
      /\ UNCHANGED <<lock, pos, runs, offset, len, take, out, walks>>
  BY DEF Filled, StepOver, args
<1>3. pc'[t] = "run" /\ i'[t] = i[t] + 1 /\ run_base'[t] = RunEnd(t)
  BY <1>2, SMTT(30) DEF IInv, TypeOK
<1>4. Front(t)' /\ Pos(t)' = Pos(t) /\ Want(t)' = Want(t)
  BY <1>0, <1>2 DEF Front, Pos, Want, ReadFact
<1>5. Pos(t) >= RunEnd(t) \/ Want(t) = 0
  <2>1. /\ Pos(t) \in Nat /\ RunEnd(t) \in Nat
        /\ Pos(t) + take[t] = RunEnd(t) \/ take[t] = Want(t)
    BY <1>0 DEF ReadFact
  <2> QED BY <1>1, <2>1, SMTT(30)
<1>6. AtRun(t)'
  <2>1. i[t] + 1 \in 1 .. runs[t].n + 1 /\ RunEnd(t) = runs[t].start[i[t] + 1]
    BY <1>0 DEF ReadFact
  <2> QED BY <1>2, <1>3, <1>4, <1>5, <2>1, SMTT(30) DEF AtRun
<1>7. TypeOK'
  <2>1. i[t] \in Nat \ {0} /\ RunEnd(t) \in Nat /\ TypeOK
    BY <1>0, Zenon DEF IInv, TypeOK, ReadFact
  <2>2. i' \in [Worker -> Nat \ {0}]
    BY <1>2, <2>1, SMTT(30) DEF TypeOK
  <2> QED BY <1>2, <2>1, <2>2, Zenon DEF TypeOK
<1> QED BY <1>0, <1>2, <1>3, <1>6, <1>7, Zenon DEF WalkOK, ReadFact

\* The walk ends: with all it wanted, or past the last run of its stream.
LEMMA EndOwn ==
  ASSUME IInv, NEW t \in Worker, EndOfRuns(t)
  PROVE  WalkOK(t)' /\ TypeOK'
<1>1. pc[t] = "run" /\ AtRun(t)
  BY DEF EndOfRuns, IInv, WalkOK
<1>2. /\ lock' = Free
      /\ pc' = [pc EXCEPT ![t] = IF Want(t) = 0 THEN "ok" ELSE "err"]
      /\ UNCHANGED <<pos, runs, offset, len, i, run_base, take, out, walks>>
  BY DEF EndOfRuns, Finish, args
<1>3. /\ runs[t] \in RunLists /\ offset[t] \in Nat /\ len[t] \in Nat
      /\ Len(out[t]) \in Nat /\ i[t] \in Nat
  BY DEF IInv, TypeOK
<1>4. Front(t) /\ Len(out[t]) <= len[t]
  BY <1>1 DEF AtRun, Front
<1>5. TypeOK'
  BY <1>2, Zenon DEF IInv, TypeOK
<1>6. CASE Want(t) = 0
  <2>1. Len(out[t]) = len[t]
    BY <1>3, <1>6 DEF Want
  <2>2. pc'[t] = "ok"
    BY <1>2, <1>6 DEF IInv, TypeOK
  <2>3. Front(t)'
    BY <1>2, <1>4 DEF Front
  <2> QED BY <1>2, <1>5, <2>1, <2>2, <2>3 DEF WalkOK
<1>7. CASE Want(t) # 0
  <2>1. pc'[t] = "err"
    BY <1>2, <1>7 DEF IInv, TypeOK
  <2>2. Want(t) > 0 /\ Want(t) = len[t] - Len(out[t])
    BY <1>3, <1>4, <1>7 DEF Want
  <2>3. i[t] = runs[t].n + 1
    <3>1. ~(i[t] <= runs[t].n)
      BY <1>1, <2>2 DEF EndOfRuns, InLoop
    <3>2. i[t] \in 1 .. runs[t].n + 1 /\ runs[t].n \in Nat
      BY <1>1, <1>3, RunFacts DEF AtRun
    <3> QED BY <3>1, <3>2, SMTT(30)
  <2>4. runs[t].start[runs[t].n + 1] <= Pos(t)
    BY <1>1, <1>7, <2>3 DEF AtRun
  <2>5. runs[t].start[runs[t].n + 1] \in Nat
    <3>1. runs[t].n + 1 \in 1 .. runs[t].n + 1
      BY <1>3, RunFacts
    <3> QED BY <1>3, <3>1, RunFacts
  <2>6. ~(offset[t] + len[t] <= runs[t].start[runs[t].n + 1])
    <3> DEFINE e == runs[t].start[runs[t].n + 1]
    <3>1. e <= offset[t] + Len(out[t])
      BY <2>4 DEF Pos
    <3> HIDE DEF e
    <3>2. ~(offset[t] + len[t] <= e)
      BY <1>3, <2>2, <2>5, <3>1 DEF e
    <3> QED BY <3>2 DEF e
  <2>7. ~Backed(runs[t], offset[t], len[t])'
    BY <1>2, <2>6, SMTT(30) DEF Backed
  <2> QED BY <1>2, <1>5, <2>1, <2>7 DEF WalkOK
<1> QED BY <1>6, <1>7

\* An early end of file stands for an address the image or the window lacks.
LEMMA EofOwn ==
  ASSUME IInv, NEW t \in Worker, UnexpectedEof(t)
  PROVE  WalkOK(t)' /\ TypeOK'
<1>1. pc[t] = "read" /\ take[t] > 0 /\ Readable(t) <= 0
  BY DEF UnexpectedEof
<1>0. ReadFact(t)
  BY <1>1, ReadFacts
<1>2. /\ lock' = Free
      /\ pc' = [pc EXCEPT ![t] = "err"]
      /\ UNCHANGED <<pos, runs, offset, len, i, run_base, take, out, walks>>
  BY DEF UnexpectedEof, Finish, args
<1>3. ~(pos < WindowLen /\ Base + pos < DiskLen)
  <2>1. pos \in Nat /\ take[t] \in Nat
    BY <1>0, SMTT(30) DEF ReadFact
  <2> QED BY <1>1, <2>1, VolumeAssumption, SMTT(30) DEF Readable, MinOf
<1> DEFINE rl == runs[t]
           r == i[t]
           o == offset[t]
           v == Pos(t)
           a == rl.lcn[r] * ClusterSize + (v - rl.start[r])
<1>4. pos = a /\ rl.lcn[r] # Zero /\ r \in 1 .. rl.n
  BY <1>0, SMTT(30) DEF ReadFact
<1>5. v \in o .. o + len[t] - 1
  <2>1. /\ o \in Nat /\ Len(out[t]) \in Nat /\ len[t] \in Nat /\ take[t] \in Nat
        /\ take[t] <= Want(t) /\ Want(t) = len[t] - Len(out[t]) /\ v = o + Len(out[t])
    BY <1>0 DEF ReadFact
  <2>2. o <= o + Len(out[t]) /\ o + Len(out[t]) <= o + len[t] - 1
    BY <1>1, <2>1
  <2> QED BY <2>1, <2>2, SMTT(30)
<1>6. rl.start[r] <= v /\ v < rl.start[r + 1]
  <2>1. /\ run_base[t] <= v /\ run_base[t] = rl.start[r] /\ RunEnd(t) = rl.start[r + 1]
        /\ v + take[t] <= RunEnd(t) /\ v \in Nat /\ take[t] \in Nat /\ RunEnd(t) \in Nat
    BY <1>0 DEF ReadFact
  <2>2. v < RunEnd(t)
    BY <1>1, <2>1
  <2> QED BY <2>1, <2>2, SMTT(30)
<1>7. ~(a < WindowLen /\ Base + a < DiskLen)
  BY <1>3, <1>4
<1>8. ~Backed(rl, o, len[t])
  <2> HIDE DEF rl, r, o, v
  <2> QED BY <1>4, <1>5, <1>6, <1>7, Zenon DEF Backed
<1>9. pc'[t] = "err" /\ TypeOK'
  BY <1>2, Zenon DEF IInv, TypeOK
<1> QED BY <1>2, <1>8, <1>9, Zenon DEF WalkOK, Backed

\* A walk begins with nothing read (read_virtual, read_runs_capped).
LEMMA StartOwn ==
  ASSUME IInv, NEW t \in Worker, NEW rl \in RunLists, NEW o \in Nat, NEW n \in Nat,
         Start(t, rl, o, n)
  PROVE  WalkOK(t)' /\ TypeOK' /\ NeverEscapes'
<1>1. TypeOK /\ NeverEscapes
  BY DEF IInv
<1>2. pc'[t] = "lock" /\ i'[t] = 1 /\ run_base'[t] = 0 /\ out'[t] = <<>>
  BY <1>1 DEF Start, TypeOK
<1>3. WalkOK(t)'
  BY <1>2 DEF WalkOK
<1>4. TypeOK'
  <2>1. walks' \in [Worker -> 0 .. MaxWalks]
    <3>1. walks[t] + 1 \in 0 .. MaxWalks
      <4>1. walks[t] \in 0 .. MaxWalks /\ walks[t] < MaxWalks
        BY <1>1 DEF TypeOK, Start
      <4> QED BY <4>1, VolumeAssumption
    <3> QED BY <1>1, <3>1 DEF TypeOK, Start
  <2>2. out' \in [Worker -> Seq(Vals)]
    <3>1. out \in [Worker -> Seq(Vals)] /\ out' = [out EXCEPT ![t] = <<>>]
      BY <1>1, Zenon DEF TypeOK, Start, Vals
    <3> HIDE DEF Vals
    <3> QED BY <3>1
  <2>4. /\ pc' \in [Worker -> {"idle", "lock", "run", "read", "ok", "err"}]
        /\ lock' = lock /\ pos' = pos
    BY <1>1 DEF TypeOK, Start
  <2>3. /\ runs' \in [Worker -> RunLists] /\ offset' \in [Worker -> Nat]
        /\ len' \in [Worker -> Nat] /\ i' \in [Worker -> Nat \ {0}]
        /\ run_base' \in [Worker -> Nat] /\ take' \in [Worker -> Nat]
    BY <1>1, SMTT(30) DEF TypeOK, Start
  <2> QED BY <1>1, <2>1, <2>2, <2>3, <2>4, Zenon DEF TypeOK, Vals
<1>5. NeverEscapes'
  <2> SUFFICES ASSUME NEW u \in Worker, NEW k \in 1 .. Len(out'[u])
               PROVE  out'[u][k] \in Window
    BY DEF NeverEscapes, Window
  <2>1. CASE u = t
    BY <1>2, <2>1
  <2>2. CASE u # t
    <3>1. out'[u] = out[u]
      BY <1>1, <2>2 DEF Start, TypeOK
    <3> QED BY <1>1, <3>1 DEF NeverEscapes, Window
  <2> QED BY <2>1, <2>2
<1> QED BY <1>3, <1>4, <1>5

\* The two callers of Start pass it arguments of the right type.
LEMMA StartArguments ==
  ASSUME NEW t \in Worker, read_virtual(t) \/ read_runs_capped(t)
  PROVE  \E rl \in RunLists, o \in Nat, n \in Nat : Start(t, rl, o, n)
<1>1. CASE read_virtual(t)
  <2>1. PICK rl \in RunLists : \E o \in 0 .. rl.start[rl.n + 1], n \in 1 .. ClusterSize :
          Start(t, rl, o, n)
    BY <1>1 DEF read_virtual
  <2>2. PICK o \in 0 .. rl.start[rl.n + 1], n \in 1 .. ClusterSize : Start(t, rl, o, n)
    BY <2>1
  <2>3. o \in Nat /\ n \in Nat
    BY VolumeAssumption
  <2> QED BY <2>2, <2>3
<1>2. CASE read_runs_capped(t)
  <2>1. PICK rl \in RunLists :
          \E real_size, max_bytes \in 0 .. rl.start[rl.n + 1] + 1 :
            Start(t, rl, 0, MinOf(MinOf(real_size, rl.start[rl.n + 1]), max_bytes))
    BY <1>2 DEF read_runs_capped
  <2>2. PICK real_size \in 0 .. rl.start[rl.n + 1] + 1,
             max_bytes \in 0 .. rl.start[rl.n + 1] + 1 :
          Start(t, rl, 0, MinOf(MinOf(real_size, rl.start[rl.n + 1]), max_bytes))
    BY <2>1
  <2> DEFINE allocated == rl.start[rl.n + 1]
             want == MinOf(MinOf(real_size, allocated), max_bytes)
  <2>3. allocated \in Nat
    <3>1. rl.n + 1 \in 1 .. rl.n + 1
      BY RunFacts
    <3> QED BY <3>1, RunFacts
  <2>4. real_size \in Nat /\ max_bytes \in Nat
    OBVIOUS
  <2>5. want \in Nat
    <3> HIDE DEF allocated
    <3> QED BY <2>3, <2>4 DEF MinOf
  <2>6. Start(t, rl, 0, want) /\ 0 \in Nat
    BY <2>2
  <2> HIDE DEF want
  <2> QED BY <2>5, <2>6
<1> QED BY <1>1, <1>2

\* What the step of worker t leaves alone: the fields of the others, and the lock
\* and the position while another worker holds the lock.
Apart(t) ==
  /\ \A u \in Worker \ {t} :
       /\ pc'[u] = pc[u] /\ runs'[u] = runs[u] /\ offset'[u] = offset[u]
       /\ len'[u] = len[u] /\ i'[u] = i[u] /\ run_base'[u] = run_base[u]
       /\ take'[u] = take[u] /\ out'[u] = out[u]
  /\ \A u \in Worker \ {t} : lock = u => lock' = u /\ pos' = pos

\* The Mutex (lock_reader): no step of one walk is seen by another.
LEMMA WorkersApart ==
  ASSUME IInv, NEW t \in Worker,
         \/ \E rl \in RunLists, o \in Nat, n \in Nat : Start(t, rl, o, n)
         \/ Steps(t) \/ Abandon(t) \/ Return(t)
  PROVE  Apart(t)
<1>1. TypeOK /\ WalkOK(t) /\ Free \notin Worker
  BY VolumeAssumption, SMTT(30) DEF IInv
<1>2. pc[t] = "run" \/ pc[t] = "read" => lock = t
  BY <1>1 DEF WalkOK
<1>3. CASE \E rl \in RunLists, o \in Nat, n \in Nat : Start(t, rl, o, n)
  BY <1>1, <1>3 DEF Apart, Start, TypeOK
<1>4. CASE lock_reader(t)
  BY <1>1, <1>4 DEF Apart, lock_reader, TypeOK, args
<1>5. CASE SkipRun(t)
  BY <1>1, <1>5, SMTT(30) DEF Apart, SkipRun, StepOver, TypeOK, args
<1>6. CASE SparseRun(t)
  BY <1>1, <1>6, ZenonT(30) DEF Apart, SparseRun, StepOver, TypeOK, args
<1>7. CASE SeekRun(t)
  BY <1>1, <1>2, <1>7 DEF Apart, SeekRun, InLoop, TypeOK, args
<1>8. CASE EndOfRuns(t)
  BY <1>1, <1>2, <1>8 DEF Apart, EndOfRuns, Finish, TypeOK, args
<1>9. CASE Read(t)
  BY <1>1, <1>2, <1>9 DEF Apart, Read, TypeOK, args
<1>10. CASE Filled(t)
  BY <1>1, <1>10 DEF Apart, Filled, StepOver, TypeOK, args
<1>11. CASE UnexpectedEof(t)
  BY <1>1, <1>2, <1>11 DEF Apart, UnexpectedEof, Finish, TypeOK, args
<1>12. CASE Abandon(t)
  BY <1>1, <1>2, <1>12 DEF Apart, Abandon, Finish, TypeOK, args
<1>13. CASE Return(t)
  BY <1>1, <1>13 DEF Apart, Return, TypeOK, args
<1> QED BY <1>3, <1>4, <1>5, <1>6, <1>7, <1>8, <1>9, <1>10, <1>11, <1>12, <1>13 DEF Steps

\* What a step does to its own worker, all steps together.
LEMMA OwnStep ==
  ASSUME IInv, NEW t \in Worker,
         \/ \E rl \in RunLists, o \in Nat, n \in Nat : Start(t, rl, o, n)
         \/ Steps(t) \/ Abandon(t) \/ Return(t)
  PROVE  WalkOK(t)' /\ TypeOK' /\ NeverEscapes'
<1>1. TypeOK /\ NeverEscapes
  BY DEF IInv
<1>2. out' = out => NeverEscapes'
  BY <1>1 DEF NeverEscapes
<1>3. CASE \E rl \in RunLists, o \in Nat, n \in Nat : Start(t, rl, o, n)
  BY <1>3, StartOwn
<1>4. CASE lock_reader(t)
  <2>1. TypeOK' /\ out' = out
    BY <1>1, <1>4, Zenon DEF TypeOK, lock_reader, args
  <2> QED BY <1>2, <1>4, <2>1, LockOwn
<1>5. CASE SkipRun(t)
  BY <1>2, <1>5, SkipOwn DEF SkipRun
<1>6. CASE SparseRun(t)
  BY <1>6, SparseOwn
<1>7. CASE SeekRun(t)
  BY <1>2, <1>7, SeekOwn, Zenon DEF SeekRun
<1>8. CASE EndOfRuns(t)
  BY <1>2, <1>8, EndOwn DEF EndOfRuns
<1>9. CASE Read(t)
  BY <1>9, ReadOwn
<1>10. CASE Filled(t)
  BY <1>2, <1>10, FilledOwn, ZenonT(30) DEF Filled
<1>11. CASE UnexpectedEof(t)
  BY <1>2, <1>11, EofOwn DEF UnexpectedEof
<1>12. CASE Abandon(t) \/ Return(t)
  <2>1. TypeOK' /\ out' = out
    BY <1>1, <1>12, Zenon DEF TypeOK, Abandon, Return, Finish, args
  <2>2. pc'[t] = "idle"
    BY <1>1, <1>12 DEF TypeOK, Abandon, Return, Finish
  <2> QED BY <1>2, <2>1, <2>2 DEF WalkOK
<1> QED BY <1>3, <1>4, <1>5, <1>6, <1>7, <1>8, <1>9, <1>10, <1>11, <1>12 DEF Steps

-----------------------------------------------------------------------------
\* The walks of NtfsFs keep IInv: a walk holds the lock from its first run to
\* its result, and while it does, the shared position is its own.
THEOREM Inductive ==
  /\ Init => IInv
  /\ IInv /\ [Next]_vars => IInv'
<1>1. Init => IInv
  <2> HAVE Init
  <2>1. TypeOK
    BY VolumeAssumption DEF Init, TypeOK
  <2>2. NeverEscapes /\ \A t \in Worker : WalkOK(t)
    BY DEF Init, NeverEscapes, WalkOK
  <2> QED BY <2>1, <2>2 DEF IInv
<1>2. IInv /\ [Next]_vars => IInv'
  <2> SUFFICES ASSUME IInv, [Next]_vars PROVE IInv'
    OBVIOUS
  <2>1. ASSUME NEW t \in Worker,
               \/ read_virtual(t) \/ read_runs_capped(t)
               \/ Steps(t) \/ Abandon(t) \/ Return(t)
        PROVE  IInv'
    <3>1. \/ \E rl \in RunLists, o \in Nat, n \in Nat : Start(t, rl, o, n)
          \/ Steps(t) \/ Abandon(t) \/ Return(t)
      BY <2>1, StartArguments
    <3>2. WalkOK(t)' /\ TypeOK' /\ NeverEscapes'
      BY <3>1, OwnStep
    <3>3. Apart(t)
      BY <3>1, WorkersApart
    <3>4. ASSUME NEW u \in Worker \ {t} PROVE WalkOK(u)'
      <4>1. /\ pc'[u] = pc[u] /\ runs'[u] = runs[u] /\ offset'[u] = offset[u]
            /\ len'[u] = len[u] /\ i'[u] = i[u] /\ run_base'[u] = run_base[u]
            /\ take'[u] = take[u] /\ out'[u] = out[u]
            /\ lock = u => lock' = u /\ pos' = pos
        BY <3>3 DEF Apart
      <4> QED BY <4>1, OtherWorker
    <3> QED BY <3>2, <3>4 DEF IInv
  <2>2. CASE UNCHANGED vars
    <3>1. TypeOK' /\ NeverEscapes'
      BY <2>2, Zenon DEF IInv, TypeOK, NeverEscapes, vars, args
    <3>2. ASSUME NEW u \in Worker PROVE WalkOK(u)'
      BY <2>2, OtherWorker DEF vars, args
    <3> QED BY <3>1, <3>2, SMTT(30) DEF IInv
  <2> QED BY <2>1, <2>2 DEF Next, Idle
<1> QED BY <1>1, <1>2

\* Every property of a reachable state of the shared reader that IInv implies.
THEOREM Reachable == Spec => []IInv
<1>1. Init => IInv
  BY Inductive
<1>2. IInv /\ [Next]_vars => IInv'
  BY Inductive
<1> QED BY <1>1, <1>2, PTL DEF Spec

\* Concurrent walks over one reader return their own bytes (read_virtual and
\* read_runs_capped under lock_reader), for any workers, run lists and image.
THEOREM WalksReadTheirOwnStream == Spec => []ReadsOwnStream
<1>1. IInv => ReadsOwnStream
  BY DEF IInv, WalkOK, Front, ReadsOwnStream
<1> QED BY <1>1, Reachable, PTL

\* No walk picks up a byte outside the partition (OffsetReader).
THEOREM WindowNeverLeft == Spec => []NeverEscapes
<1>1. IInv => NeverEscapes
  BY DEF IInv
<1> QED BY <1>1, Reachable, PTL

\* A walk fails only when its stream or the volume ends too early (read_virtual's
\* TruncatedRead, read_exact's UnexpectedEof), whatever the others do.
THEOREM NoSpuriousFailure == Spec => []FailsForCause
<1>1. IInv => FailsForCause
  BY DEF IInv, WalkOK, FailsForCause
<1> QED BY <1>1, Reachable, PTL
=============================================================================
