------------------------------ MODULE Records ------------------------------
(***************************************************************************)
(* What the readers of one MFT record make of it: the header and the names *)
(* (core/src/record.rs, file_name.rs), the MFT table (mft.rs), the record  *)
(* carver (carve.rs), the VFS node (vfs.rs) and the forensic audit         *)
(* (forensic/src/lib.rs).  A record's content is the record                *)
(*   [seq, used, names, marks, left, si]                                   *)
(* names: its $FILE_NAME attributes in order, [name, ns, created] each;    *)
(* marks: what else is in it; left: whether bytes of removed attributes    *)
(* lie beyond its used size; si: the creation time in $SI, in ticks.       *)
(***************************************************************************)
EXTENDS Integers, Sequences, SequencesExt

CONSTANTS LongNames,           \* names that reach over a sector's last word
          Garbled,             \* such a name with the USN in place of that word
          None

WIN32 == 1
DOS == 2
WIN32_AND_DOS == 3
POSIX == 0

TICKS_PER_SECOND == 2          \* 10^7 in the code: odd ticks are no whole seconds

NameAttr(n, ns, t) == [name |-> n, ns |-> ns, created |-> t]

(***************************************************************************)
(* MftData::parse: the first name of the highest priority.                 *)
(***************************************************************************)
priority_AnyDos(ns) == CASE ns = POSIX -> 2 [] OTHER -> 3

priority(ns) == CASE ns \in {WIN32, WIN32_AND_DOS} -> 3
                  [] ns = DOS -> 1
                  [] OTHER -> 2

MftBestName(names) ==
  FoldLeft(LAMBDA best, n : IF best = None \/ priority(n.ns) > priority(best.ns)
                            THEN n ELSE best, None, names)

(***************************************************************************)
(* vfs::best_file_name: the last name of the highest rank (max_by_key).    *)
(***************************************************************************)
namespace_rank(ns) == CASE ns = WIN32_AND_DOS -> 3
                        [] ns = WIN32 -> 2
                        [] ns = POSIX -> 1
                        [] OTHER -> 0

best_file_name(names) ==
  FoldLeft(LAMBDA best, n : IF best = None \/ namespace_rank(n.ns) >= namespace_rank(best.ns)
                            THEN n ELSE best, None, names)

(***************************************************************************)
(* try_carve_entry: a name is replaced by a Win32 one when it is a DOS     *)
(* name, and by any name but a DOS one when it is not a Win32 name.        *)
(***************************************************************************)
Dominated(best, ns) ==
  \/ best = None
  \/ best.ns = DOS /\ ns \in {WIN32, WIN32_AND_DOS}
  \/ best.ns \notin {WIN32, WIN32_AND_DOS} /\ ns # DOS

CarveBestName(names) ==
  FoldLeft(LAMBDA best, n : IF Dominated(best, n.ns) THEN n ELSE best, None, names)

(***************************************************************************)
(* carve_mft_entries looks at the sectors as they lie on disk, without     *)
(* apply_fixup: a name that reaches over the first sector's end carries    *)
(* the USN there.  Never-used records (sequence 0) are rejected, records   *)
(* without a name too.                                                     *)
(***************************************************************************)
parse_filename_attr(n) == IF n.name \in LongNames THEN [n EXCEPT !.name = Garbled] ELSE n

CarvedMftEntry(c, best) ==
  [seq |-> c.seq, used |-> c.used, name |-> best.name]

try_carve_entry(c) ==
  LET names == [i \in DOMAIN c.names |-> parse_filename_attr(c.names[i])] IN
  IF c.seq = 0 \/ c.names = <<>> THEN None ELSE CarvedMftEntry(c, CarveBestName(names))

(***************************************************************************)
(* An entry of MftData: the fields the correlation uses.                   *)
(***************************************************************************)
MftEntry(c) ==
  IF c.names = <<>> THEN None
  ELSE [seq |-> c.seq, used |-> c.used, name |-> MftBestName(c.names).name,
        has_ads |-> "ads" \in c.marks,
        si_created |-> c.si, fn_created |-> MftBestName(c.names).created]

detect_timestomping(e) == e # None /\ e.si_created < e.fn_created

(***************************************************************************)
(* The VFS node: hardlinks leaves DOS aliases out; special_kind tells a    *)
(* reparse point before the directory flag is looked at; deleted_nodes     *)
(* lists the records that are not in use and have a name.                  *)
(***************************************************************************)
hardlinks(c) == SelectSeq(c.names, LAMBDA n : n.ns # DOS)

special_kind(c) == IF "reparse" \in c.marks THEN "Symlink" ELSE None

MetaKind(c) == IF special_kind(c) # None THEN special_kind(c) ELSE "File"

build_meta(c) == [kind |-> MetaKind(c),
                  allocated |-> c.used, nlink |-> Len(c.names)]

DeletedNode(c) == IF c.used \/ c.names = <<>> THEN None
                  ELSE [seq |-> c.seq, name |-> best_file_name(c.names).name]

(***************************************************************************)
(* detect_timestomp on $SI and a $FILE_NAME: the two tells that make it    *)
(* suspicious.                                                             *)
(***************************************************************************)
whole_second(t) == t # 0 /\ t % TICKS_PER_SECOND = 0


detect_timestomp(si, fname) ==
  (IF si < fname.created THEN {"si_created_before_fn"} ELSE {}) \cup
  (IF whole_second(si) THEN {"si_whole_second"} ELSE {})

Severity(code) == CASE code = "NTFS-TIMESTOMP" -> "High"
                    [] code \in {"NTFS-ADS", "NTFS-SLACK-RESIDUE"} -> "Low"
                    [] code = "NTFS-DELETED-RECORD" -> "Info"

Anomaly(code, signal) == [code |-> code, severity |-> Severity(code), signal |-> signal]

(***************************************************************************)
(* audit_components: deleted, slack residue, alternate streams, timestomp. *)
(***************************************************************************)
is_deleted(c) == ~c.used
record_slack(c) == IF c.left THEN {"residue"} ELSE {}
alternate_data_streams(c) == c.marks \cap {"ads"}

audit_components(c) ==
  (IF is_deleted(c) THEN {Anomaly("NTFS-DELETED-RECORD", None)} ELSE {}) \cup
  (IF record_slack(c) # {} THEN {Anomaly("NTFS-SLACK-RESIDUE", None)} ELSE {}) \cup
  (IF alternate_data_streams(c) # {} THEN {Anomaly("NTFS-ADS", None)} ELSE {}) \cup
  (IF c.names = <<>> THEN {}
   ELSE {Anomaly("NTFS-TIMESTOMP", s) : s \in detect_timestomp(c.si, c.names[1])})
=============================================================================
