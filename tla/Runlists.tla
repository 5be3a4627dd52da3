------------------------------ MODULE Runlists ------------------------------
(***************************************************************************)
(* The mapping-pairs codec of core/src/runlist.rs, over real bytes.  A run *)
(* list is a sequence of groups: a header byte whose low nibble is the     *)
(* width of the length field and whose high nibble is the width of the     *)
(* offset field, the length, and the signed difference to the previous     *)
(* allocated cluster.  encode is what the NTFS driver writes (external);   *)
(* decode is the code.  Field widths stay below four bytes here, so that   *)
(* the arithmetic fits the checker; the 64-bit overflow tests of decode    *)
(* cannot fire below that.                                                 *)
(***************************************************************************)
EXTENDS Integers, SequencesExt

CONSTANT Sparse     \* the lcn of a hole: Option::None

\* A run: a length in clusters and where it starts.
Run(length, lcn) == [length |-> length, lcn |-> lcn]

\* Ok(runs) and Err(BadRunlist(..)).
Decoded(runs) == [ok |-> TRUE, runs |-> runs]
BadRunlist    == [ok |-> FALSE, runs |-> <<>>]

\* A little-endian unsigned integer.
read_uint(bytes) == FoldRight(LAMBDA b, acc : b + 256 * acc, bytes, 0)

\* A little-endian two's complement integer, sign-extended from its top bit.
read_sint(bytes) ==
  IF bytes # <<>> /\ Last(bytes) >= 128
    THEN read_uint(bytes) - 256 ^ Len(bytes)
    ELSE read_uint(bytes)

RECURSIVE DecodeFrom(_, _, _, _)

\* The rest of the list once the group's length and the new cluster are known.
AfterGroup(bytes, next, length, lcn, sparse, runs) ==
  IF lcn < 0
    THEN BadRunlist
    ELSE DecodeFrom(bytes, next, lcn, Append(runs, Run(length, IF sparse THEN Sparse ELSE lcn)))

\* One group with lw bytes of length and ow bytes of offset behind the header at pos.
Group(bytes, pos, lw, ow, lcn, runs) ==
  IF lw = 0 \/ lw > 8 \/ ow > 8 \/ pos + lw > Len(bytes)
    THEN BadRunlist
  ELSE IF read_uint(SubSeq(bytes, pos + 1, pos + lw)) = 0 \/ pos + lw + ow > Len(bytes)
    THEN BadRunlist
    ELSE AfterGroup(bytes, pos + lw + ow + 1,
                    read_uint(SubSeq(bytes, pos + 1, pos + lw)),
                    lcn + read_sint(SubSeq(bytes, pos + lw + 1, pos + lw + ow)),
                    ow = 0, runs)

\* The loop: it ends at a zero header or where the bytes end.
DecodeFrom(bytes, pos, lcn, runs) ==
  IF pos > Len(bytes) \/ bytes[pos] = 0
    THEN Decoded(runs)
    ELSE Group(bytes, pos, bytes[pos] % 16, bytes[pos] \div 16, lcn, runs)

decode(bytes) == DecodeFrom(bytes, 1, 0, <<>>)

\* Clusters covered by a run list.
total_clusters(runs) == FoldLeft(LAMBDA acc, r : acc + r.length, 0, runs)

-----------------------------------------------------------------------------
(* The driver's side. *)

\* The w low bytes of v, two's complement.
ToBytes(v, w) == [i \in 1 .. w |-> (v \div 256 ^ (i - 1)) % 256]

\* The fewest bytes that hold v, as an unsigned length and as a signed offset.
LengthWidth(v) == CHOOSE w \in 1 .. 3 : v < 256 ^ w /\ \A u \in 1 .. w - 1 : v >= 256 ^ u
SignedFits(v, w) == v \in -(256 ^ w \div 2) .. (256 ^ w \div 2) - 1
OffsetWidth(v) == CHOOSE w \in 1 .. 3 : SignedFits(v, w) /\ \A u \in 1 .. w - 1 : ~ SignedFits(v, u)

\* The cluster the list stood at before its i-th run.
Before(runs, i) ==
  LET allocated == { j \in 1 .. i - 1 : runs[j].lcn # Sparse }
  IN  IF allocated = {} THEN 0 ELSE runs[Max(allocated)].lcn

\* One group; the format does not ask for the narrowest offset: pad widens it.
EncodeRun(runs, i, pad) ==
  LET lw == LengthWidth(runs[i].length)
      d  == runs[i].lcn - Before(runs, i)
      ow == OffsetWidth(d) + pad
  IN  IF runs[i].lcn = Sparse
        THEN <<lw>> \o ToBytes(runs[i].length, lw)
        ELSE <<lw + 16 * ow>> \o ToBytes(runs[i].length, lw) \o ToBytes(d, ow)

encode(runs, pad) ==
  FoldLeft(LAMBDA acc, i : acc \o EncodeRun(runs, i, pad), <<>>, [i \in DOMAIN runs |-> i]) \o <<0>>

=============================================================================
