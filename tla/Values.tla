-------------------------------- MODULE Values --------------------------------
(***************************************************************************)
(* Values the volume stores in a packed form and the code unpacks: record  *)
(* sizes in the boot sector (core/src/boot.rs), file references            *)
(* (file_name.rs), FILETIMEs (time.rs and mft.rs), and the operation codes  *)
(* of $LogFile records (logfile/mod.rs, semantics.rs).                     *)
(***************************************************************************)
EXTENDS Integers, SequencesExt

CONSTANT None

-----------------------------------------------------------------------------
(* Boot sector. *)
MIN_RECORD_SIZE == 256
MAX_RECORD_SIZE == 2 ^ 20

is_power_of_two(n) == \E k \in 0 .. 16 : n = 2 ^ k

\* A byte as i8.
AsSigned(raw) == IF raw >= 128 THEN raw - 256 ELSE raw

\* 1 << n on 64 bits; the checker's integers end at 2^31, all that matters is
\* that anything from 2^21 on is out of range.
checked_shl(n) == IF n >= 64 THEN None ELSE IF n > 20 THEN MAX_RECORD_SIZE + 1 ELSE 2 ^ n

InRange(size) ==
  IF size # None /\ size \in MIN_RECORD_SIZE .. MAX_RECORD_SIZE THEN size ELSE None


record_size(raw, cluster_size) ==
  InRange(IF AsSigned(raw) > 0 THEN AsSigned(raw) * cluster_size ELSE checked_shl(-AsSigned(raw)))

cluster_size(b) == b.bps * b.spc

\* Offsets have 64 bits; the model's end here.
MAX_OFFSET == 2 ^ 24
saturating_mul(a, b) == IF a * b > MAX_OFFSET THEN MAX_OFFSET ELSE a * b
mft_byte_offset(b) == saturating_mul(b.mft_lcn, b.cluster_size)
mftmirr_byte_offset(b) == saturating_mul(b.mftmirr_lcn, b.cluster_size)

BootSector(b, mft_record_size, index_record_size) ==
  [cluster_size |-> cluster_size(b), mft_lcn |-> b.mft_lcn, mftmirr_lcn |-> b.mftmirr_lcn,
   mft_record_size |-> mft_record_size, index_record_size |-> index_record_size]

\* BootSector::parse on [oem, bps, spc, cpr, cpi, mft_lcn, mftmirr_lcn]; None: refused.
parse_boot(b) ==
  IF \/ ~ b.oem
     \/ b.bps \notin 256 .. 4096 \/ ~ is_power_of_two(b.bps)
     \/ b.spc = 0 \/ ~ is_power_of_two(b.spc)
     \/ record_size(b.cpr, cluster_size(b)) = None
     \/ record_size(b.cpi, cluster_size(b)) = None
    THEN None
    ELSE BootSector(b, record_size(b.cpr, cluster_size(b)), record_size(b.cpi, cluster_size(b)))

\* How a formatter stores a size (external): whole clusters, else a power of two.
StoredSize(size, cluster) ==
  IF size >= cluster THEN size \div cluster
  ELSE 256 - (CHOOSE k \in 0 .. 20 : 2 ^ k = size)

-----------------------------------------------------------------------------
(* File references: a record number of RECORD_BITS bits (48 in the code)    *)
(* under a sequence number.                                                *)
RECORD_BITS == 3

Reference(record_number, sequence) == record_number + sequence * 2 ^ RECORD_BITS

from_u64(raw) == [record_number |-> raw % 2 ^ RECORD_BITS, sequence |-> raw \div 2 ^ RECORD_BITS]

-----------------------------------------------------------------------------
(* FILETIMEs, with PER_SECOND ticks to the second and UNIX_EPOCH ticks      *)
(* before 1970.                                                            *)
PER_SECOND == 4
UNIX_EPOCH == 12

\* Rust's / rounds towards zero.
Quotient(a, b) == IF a < 0 THEN -((-a) \div b) ELSE a \div b

is_zero(ft) == ft = 0
to_unix_seconds(ft) == Quotient(ft - UNIX_EPOCH, PER_SECOND)
to_unix_ticks(ft) == ft - UNIX_EPOCH

\* Seconds, and a remainder that is never negative (rem_euclid).
to_datetime(ft) ==
  IF is_zero(ft) THEN None
  ELSE [secs |-> to_unix_seconds(ft), sub |-> to_unix_ticks(ft) % PER_SECOND]

\* The instant a DateTime stands for.
Instant(d) == d.secs * PER_SECOND + d.sub

-----------------------------------------------------------------------------
(* Operation codes. *)
LogOps == <<
  "Noop", "CompensationLogRecord", "InitializeFileRecordSegment", "DeallocateFileRecordSegment",
  "WriteEndOfFileRecordSegment", "CreateAttribute", "DeleteAttribute", "UpdateResidentValue",
  "UpdateNonResidentValue", "UpdateMappingPairs", "DeleteDirtyClusters", "SetNewAttributeSizes",
  "AddIndexEntryRoot", "DeleteIndexEntryRoot", "AddIndexEntryAllocation",
  "DeleteIndexEntryAllocation", "WriteEndOfIndexBuffer", "SetIndexEntryVcnRoot",
  "SetIndexEntryVcnAllocation", "UpdateFileNameRoot", "UpdateFileNameAllocation",
  "SetBitsInNonResidentBitMap", "ClearBitsInNonResidentBitMap", "HotFix", "EndTopLevelAction",
  "PrepareTransaction", "CommitTransaction", "ForgetTransaction", "OpenNonResidentAttribute",
  "OpenAttributeTableDump", "AttributeNamesDump", "DirtyPageTableDump", "TransactionTableDump",
  "UpdateRecordDataRoot", "UpdateRecordDataAllocation" >>

\* LogOp: a named operation, or Unknown with its code.
from_u16(c) == IF c < Len(LogOps) THEN [op |-> LogOps[c + 1], raw |-> 0]
                                  ELSE [op |-> "Unknown", raw |-> c]

code(o) == IF o.op = "Unknown" THEN o.raw
           ELSE (CHOOSE i \in DOMAIN LogOps : LogOps[i] = o.op) - 1

FileOperation(class, redo, undo) == [class |-> class, redo |-> redo, undo |-> undo]
F(class) == FileOperation(class, 0, 0)
UnknownPair(redo, undo) == FileOperation("Unknown", code(redo), code(undo))

IndexDeletes == {"DeleteIndexEntryRoot", "DeleteIndexEntryAllocation"}

\* A redo that does nothing is told by its undo.
classify_noop(redo, undo) ==
  CASE undo.op = "Noop" -> F("Noop")
    [] undo.op = "DeallocateFileRecordSegment" -> F("Delete")
    [] undo.op \in IndexDeletes -> F("IndexDelete")
    [] undo.op = "DeleteAttribute" -> F("AttributeDelete")
    [] OTHER -> UnknownPair(redo, undo)

classify(redo, undo) ==
  CASE redo.op = "Noop" -> classify_noop(redo, undo)
    [] redo.op = "InitializeFileRecordSegment" -> F("Create")
    [] redo.op = "DeallocateFileRecordSegment" -> F("Delete")
    [] redo.op \in {"UpdateFileNameRoot", "UpdateFileNameAllocation"} -> F("Rename")
    [] redo.op \in {"AddIndexEntryRoot", "AddIndexEntryAllocation"} -> F("IndexInsert")
    [] redo.op \in IndexDeletes -> F("IndexDelete")
    [] redo.op = "CreateAttribute" -> F("AttributeCreate")
    [] redo.op = "DeleteAttribute" -> F("AttributeDelete")
    [] redo.op = "SetNewAttributeSizes" -> F("Resize")
    [] redo.op \in {"UpdateResidentValue", "UpdateNonResidentValue", "UpdateMappingPairs",
                    "WriteEndOfFileRecordSegment", "WriteEndOfIndexBuffer", "SetIndexEntryVcnRoot",
                    "SetIndexEntryVcnAllocation", "UpdateRecordDataRoot",
                    "UpdateRecordDataAllocation"} -> F("DataWrite")
    [] redo.op \in {"SetBitsInNonResidentBitMap", "ClearBitsInNonResidentBitMap",
                    "DeleteDirtyClusters"} -> F("BitmapAllocation")
    [] redo.op \in {"EndTopLevelAction", "PrepareTransaction", "CommitTransaction",
                    "ForgetTransaction", "CompensationLogRecord"} -> F("TransactionControl")
    [] redo.op \in {"HotFix", "OpenNonResidentAttribute", "OpenAttributeTableDump",
                    "AttributeNamesDump", "DirtyPageTableDump", "TransactionTableDump"} -> F("TableDump")
    [] redo.op = "Unknown" -> UnknownPair(redo, undo)

=============================================================================
