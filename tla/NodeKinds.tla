------------------------------ MODULE NodeKinds ------------------------------
(***************************************************************************)
(* Links and special nodes (core/src/vfs.rs): the kind a record states, in *)
(* either of its two encodings, and the target read_link gives.  A node is *)
(*   [directory, reparse, data]                                            *)
(* reparse: the resident $REPARSE_POINT, or None; data: the resident       *)
(* unnamed $DATA, or None.  Reparse buffers are counted in words of four   *)
(* bytes: tag, data length, the two name fields, for a symlink the flags,  *)
(* and the path.  A buffer cut short keeps its first len words.            *)
(***************************************************************************)
EXTENDS Integers, SequencesExt

CONSTANT None

LinkTags == {"SYMLINK", "MOUNT_POINT"}

Reparse(tag, len, sub_off, sub_len, body) ==
  [tag |-> tag, len |-> len, sub_off |-> sub_off, sub_len |-> sub_len, body |-> body]

Node(directory, reparse, data) ==
  [directory |-> directory, reparse |-> reparse, data |-> data]

\* A $DATA that begins with seven bytes of magic, a version byte behind them
\* when it is whole, and the rest.
Interix(magic, whole, rest) == [magic |-> magic, whole |-> whole, rest |-> rest]

kind_of_reparse_tag(tag) ==
  CASE tag \in {"SYMLINK", "MOUNT_POINT", "LX_SYMLINK"} -> "Symlink"
    [] tag = "LX_CHR"  -> "CharDevice"
    [] tag = "LX_BLK"  -> "BlockDevice"
    [] tag = "LX_FIFO" -> "Fifo"
    [] tag = "AF_UNIX" -> "Socket"
    [] OTHER -> None

special_kind(n) ==
  IF n.reparse # None
    THEN IF n.reparse.len >= 1 THEN kind_of_reparse_tag(n.reparse.tag) ELSE None
  ELSE IF n.data = None \/ ~ n.data.whole
    THEN None
    ELSE CASE n.data.magic = "IntxLNK" -> "Symlink"
           [] n.data.magic = "IntxCHR" -> "CharDevice"
           [] n.data.magic = "IntxBLK" -> "BlockDevice"
           [] OTHER -> None

\* The base a reader would use that takes both buffers for junctions.
path_base_junction(tag) == 2

\* The path begins behind the name fields, and in a symlink behind the flags.
path_base(tag) == IF tag = "SYMLINK" THEN 3 ELSE 2

\* The declared data: everything behind tag and length.
DataLen(r) == 2 + Len(r.body)

decode_reparse_buffer(r) ==
  IF \/ r.len < 2
     \/ r.tag \notin LinkTags
     \/ 2 + DataLen(r) > r.len
     \/ DataLen(r) < path_base(r.tag)
     \/ path_base(r.tag) + r.sub_off + r.sub_len > DataLen(r)
    THEN None
    ELSE SubSeq(<<"names", "names">> \o r.body,
                path_base(r.tag) + r.sub_off + 1, path_base(r.tag) + r.sub_off + r.sub_len)

decode_ntfs3g_symlink(d) == IF d.whole /\ d.magic = "IntxLNK" THEN d.rest ELSE None

reparse_target(n) ==
  IF n.reparse # None THEN decode_reparse_buffer(n.reparse)
  ELSE IF n.data # None THEN decode_ntfs3g_symlink(n.data)
  ELSE None

\* A node that is no link reads as an empty target.
read_link(n, cap) ==
  IF reparse_target(n) = None THEN <<>>
  ELSE SubSeq(reparse_target(n), 1,
              IF cap < Len(reparse_target(n)) THEN cap ELSE Len(reparse_target(n)))

\* build_meta's kind: a stated kind before the directory flag.
meta_kind(n) ==
  IF special_kind(n) # None THEN special_kind(n)
  ELSE IF n.directory THEN "Dir" ELSE "File"

=============================================================================
