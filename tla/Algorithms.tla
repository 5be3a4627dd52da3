------------------------------ MODULE Algorithms ------------------------------
(***************************************************************************)
(* One call of one of the pure algorithms: the task and its input are      *)
(* given, the step computes the output.  The inputs come from the sets the *)
(* constants name; they are what a volume can hold, damaged ones included. *)
(***************************************************************************)
EXTENDS Integers, SequencesExt, FiniteSets

CONSTANTS Sparse, Failed, Invalid, Root, None, Pending,
          RunlistInputs, AttributeInputs, ListInputs, IndexInputs, FixupInputs, UsnInputs,
          SiInputs, RegionInputs, PageInputs,
          UnitInputs, NodeInputs, MftInputs, RefsInputs,
          GlobInputs, RuleInputs, QueryInputs, QuestionInputs, RenameInputs,
          BootInputs, RefInputs, TimeInputs, OpInputs

RL == INSTANCE Runlists
ST == INSTANCE Structures
UF == INSTANCE UsnFields
CU == INSTANCE CompressedUnits
NK == INSTANCE NodeKinds
PC == INSTANCE PathChains
MA == INSTANCE Matching
VA == INSTANCE Values

VARIABLES task, input, output
vars == <<task, input, output>>

Given(t, inputs) == task = t /\ input \in inputs

Init ==
  /\ output = Pending
  /\ \/ Given("runlist", RunlistInputs)    \/ Given("attributes", AttributeInputs)
     \/ Given("list", ListInputs)          \/ Given("index", IndexInputs)
     \/ Given("fixup", FixupInputs)        \/ Given("units", UnitInputs)
     \/ Given("node", NodeInputs)          \/ Given("mft_path", MftInputs)
     \/ Given("refs_paths", RefsInputs)    \/ Given("glob", GlobInputs)
     \/ Given("rule", RuleInputs)          \/ Given("query", QueryInputs)
     \/ Given("question", QuestionInputs)  \/ Given("renames", RenameInputs)
     \/ Given("ref", RefInputs)            \/ Given("page", PageInputs)
     \/ Given("boot", BootInputs)          \/ Given("time", TimeInputs)
     \/ Given("ops", OpInputs)             \/ Given("usn", UsnInputs)
     \/ Given("si", SiInputs)              \/ Given("region", RegionInputs)

Returns(t, result) ==
  /\ task = t /\ output = Pending
  /\ output' = result
  /\ UNCHANGED <<task, input>>

DecodeRunlist   == Returns("runlist", RL!decode(input.bytes))
ParseAttributes == Returns("attributes", ST!parse_attributes(input.cells, 1))
ParseSi         == Returns("si", ST!StandardInformation(input))
CarveRegion     == Returns("region", [records |-> ST!carve_file_records(input.region, input.record_size),
                                      candidates |-> ST!carve_candidates(input.region)])
ParseList       == Returns("list", ST!parse_list(input.cells))
ParseIndex      == Returns("index", ST!IndexRoot(input.cells, 2, input.total))
ApplyFixup      == Returns("fixup", ST!FixupAccepted(input.len, input.sector_size,
                                                     input.usa_offset, input.usa_count))
ScanUsn         == Returns("usn", [scanned |-> UF!scan_for_usn_records(input.cells),
                                   carved |-> UF!carve_usn_records(input.cells)])
ScanPage        == Returns("page", UF!extract_from_rcrd_page(input.page, input.page_lsn))
ReadValue       == Returns("units", [capped |-> CU!read_nonresident_capped(input.disk, input.runs,
                                                     input.real_size, input.attr, input.cap),
                                     whole |-> CU!read_attribute_value(input.disk, input.attr,
                                                     input.runs, input.real_size)])
NodeSeen        == Returns("node", [kind |-> NK!meta_kind(input.node),
                                    target |-> NK!read_link(input.node, input.cap)])
MftPath         == Returns("mft_path", PC!resolve_full_path(input.entries, input.entry))
RefsPaths       == Returns("refs_paths", [refs |-> PC!is_likely_refs(input),
                                          paths |-> PC!reconstruct_paths(input)])
Glob            == Returns("glob", MA!glob_matches(input.pattern, input.text))
Evaluate        == Returns("rule", MA!evaluate(MA!add_rule(MA!with_builtins, input.rule), input.record))
Query           == Returns("query", MA!run_triage(<<MA!Q("q", input.query)>>, input.records))
Question        == Returns("question", MA!run_triage(MA!builtin_questions, <<input.record>>))
Renames         == Returns("renames", MA!detect_ransomware_patterns(input.records, input.mass_min,
                                                     input.window))
ParseBoot       == Returns("boot", VA!parse_boot(input))
SplitReference  == Returns("ref", VA!from_u64(VA!Reference(input.record_number, input.sequence)))
ReadTime        == Returns("time", VA!to_datetime(input))
ClassifyOps     == Returns("ops", VA!classify(VA!from_u16(input[1]), VA!from_u16(input[2])))

Next ==
  \/ DecodeRunlist \/ ParseAttributes \/ ParseList \/ ParseIndex \/ ApplyFixup \/ ScanUsn
  \/ ParseSi \/ CarveRegion \/ ScanPage
  \/ ReadValue \/ NodeSeen \/ MftPath \/ RefsPaths
  \/ Glob \/ Evaluate \/ Query \/ Question \/ Renames
  \/ ParseBoot \/ SplitReference \/ ReadTime \/ ClassifyOps

Spec == Init /\ [][Next]_vars

Answer(t) == task = t /\ output # Pending

-----------------------------------------------------------------------------
(* Structures. *)

\* How many whole groups the first n bytes of a list hold, -1 when n is inside one.
GroupEnds(runs, pad) ==
  [i \in 0 .. Len(runs) |-> Len(RL!encode(SubSeq(runs, 1, i), pad)) - 1]
WholeGroups(runs, pad, n) ==
  LET at == { i \in 0 .. Len(runs) : GroupEnds(runs, pad)[i] = n }
  IN  IF n = GroupEnds(runs, pad)[Len(runs)] + 1 THEN Len(runs)
      ELSE IF at = {} THEN -1 ELSE CHOOSE i \in at : TRUE

RunsDecoded ==
  Answer("runlist") =>
    LET n == WholeGroups(input.runs, input.pad, Len(input.bytes))
        sound == n >= 0 /\ \A i \in 1 .. n : input.runs[i].lcn # Sparse => input.runs[i].lcn >= 0
    IN  /\ output.ok <=> sound
        /\ sound => /\ output.runs = SubSeq(input.runs, 1, n)
                    /\ RL!total_clusters(output.runs) <= RL!total_clusters(input.runs)

\* What a walk found lies end to end from `first', within the cells before `end'.
Tiles(found, first, end) ==
  \A i \in DOMAIN found :
    /\ found[i].at = IF i = 1 THEN first ELSE found[i - 1].at + found[i - 1].header.length
    /\ found[i].at + found[i].header.length <= end

NamesInside(found) == \A i \in DOMAIN found : found[i].header.name <= found[i].header.length

\* What was written before the damaged item comes out as it was written; without
\* damage everything does.
AsWritten(out, items, damaged) ==
  /\ damaged = 0 => out.ok /\ Len(out.found) = Len(items)
  /\ out.ok => \A i \in DOMAIN items :
                 damaged = 0 \/ i < damaged => /\ i <= Len(out.found)
                                               /\ out.found[i].header = items[i]

\* Where a walk ended.
EndOf(found, first) ==
  IF found = <<>> THEN first ELSE found[Len(found)].at + found[Len(found)].header.length

AttributesWalked ==
  Answer("attributes") =>
    /\ AsWritten(output, input.items, input.damaged)
    /\ output.ok =>
         /\ Tiles(output.found, 1, Len(input.cells) + 1)
         /\ NamesInside(output.found)
         /\ \A i \in DOMAIN output.found :
              LET a == output.found[i] IN
              ST!resident_content(a) # None => ST!resident_content(a) < a.at + a.header.length
         /\ \/ EndOf(output.found, 1) > Len(input.cells)
            \/ input.cells[EndOf(output.found, 1)].type_code = "END"
    /\ LET labels == SelectSeq([i \in DOMAIN input.items |-> i],
                               LAMBDA i : input.items[i].type_code = "VOLUME_NAME")
       IN  input.damaged = 0 =>
             ST!volume_label(output) = IF labels = <<>> THEN None ELSE output.found[labels[1]].at

\* The driver writes 6 or 9 words; what is cut behind the sixth costs only the
\* fields of version 3.
SiRead ==
  Answer("si") =>
    /\ output # None <=> Len(input) >= 6
    /\ output # None =>
         /\ <<output.created, output.modified, output.mft_modified, output.accessed>> = SubSeq(input, 1, 4)
         /\ output.usn # None <=> output.security_id # None
         /\ output.usn # None => output.usn = input[9] /\ output.security_id = input[7]
         /\ Len(input) = 9 => output.usn # None

\* Where the record size of the volume fits the carver's step, every candidate
\* of the carver is a record for the audit, which adds the BAAD ones.
RegionCarved ==
  Answer("region") =>
    /\ input.record_size \in {1, ST!CARVE_STEP} => output.candidates \subseteq output.records
    /\ input.record_size = ST!CARVE_STEP =>
         \A i \in output.records \ output.candidates :
           input.region[i] = "BAAD" \/ i = Len(input.region)

ListWalked ==
  Answer("list") =>
    /\ AsWritten(output, input.items, input.damaged)
    /\ output.ok => Tiles(output.found, 1, Len(input.cells) + 1) /\ NamesInside(output.found)

EntriesWalked ==
  Answer("index") =>
    /\ AsWritten(output, input.items, input.damaged)
    /\ output.ok =>
         /\ Tiles(output.found, 5, 3 + input.total)
         /\ \A i \in DOMAIN output.found :
              IF output.found[i].header.last
                THEN i = Len(output.found)
                ELSE output.found[i].header.name + ST!ENTRY_MIN <= output.found[i].header.length

FixupBounded ==
  Answer("fixup") =>
    /\ output => ST!FixupTouches(input.sector_size, input.usa_offset, input.usa_count)
                   \subseteq 0 .. input.len - 1
    /\ input = [len |-> 1024, sector_size |-> 512, usa_offset |-> 48, usa_count |-> 3] => output

\* Records found do not overlap; each begins at a cell that says what it is, has
\* its name inside it, and its time unless that is before 1970.
FoundSoundly(found) ==
  \A i \in DOMAIN found :
    LET x == found[i]
        h == input.cells[x.at]
    IN  /\ i > 1 => found[i - 1].at + UF!CellsOf(found[i - 1].length) <= x.at
        /\ x.record.mft_entry = h.entry
        /\ x.record.filename # <<>> => x.record.filename[1] + x.record.filename[2] <= x.length
        /\ IF h.time >= UF!EPOCH_DIFF
             THEN x.record.timestamp.secs * UF!PER_SECOND + x.record.timestamp.sub = h.time - UF!EPOCH_DIFF
             ELSE x.record.timestamp = UF!Epoch

\* An undamaged record is found whole, unless a record found covers its start.
NoneMissed(found, i) ==
  \/ \E x \in Range(found) : /\ x.at = input.starts[i]
                            /\ x.record.filename = <<input.items[i].name_at, input.items[i].name_len>>
  \/ \E x \in Range(found) : x.at < input.starts[i] /\ input.starts[i] < x.at + UF!CellsOf(x.length)

UsnRecordsFound ==
  Answer("usn") =>
    LET stats == output.carved.stats
    IN  /\ FoundSoundly(output.scanned) /\ FoundSoundly(output.carved.found)
        /\ \A i \in DOMAIN input.items \ {input.damaged} :
             /\ input.items[i].version = 2 => NoneMissed(output.scanned, i)
             /\ UF!is_valid_timestamp(input.items[i].time) => NoneMissed(output.carved.found, i)
        /\ \A x \in Range(output.carved.found) :
             /\ x.record.filename # <<>> /\ x.record.timestamp # UF!Epoch
             /\ x.record.major_version = 2 => UF!try_parse_usn_at(input.cells, x.at) = x.record
        /\ stats.candidates_examined =
             stats.records_carved + stats.rejected_timestamp + stats.rejected_structure

\* What an undamaged page tells: the records in the redo and undo data of its log
\* records from the m-th to the n-th, under their LSNs.
Told(m, n) ==
  FlattenSeq([j \in 1 .. n + 1 - m |->
    LET x == input.items[m + j - 1]
    IN  <<[lsn |-> x.lsn, source |-> "RedoData", entry |-> x.redo]>>
          \o (IF x.undo = None THEN <<>>
              ELSE <<[lsn |-> x.lsn, source |-> "UndoData", entry |-> x.undo]>>)])
AsSlack(told) == [j \in DOMAIN told |-> [told[j] EXCEPT !.lsn = input.page_lsn, !.source = "PageSlack"]]
Rest == AsSlack([j \in DOMAIN input.slack |-> [lsn |-> 0, source |-> "", entry |-> input.slack[j]]])

\* A wrong region costs only what its own log record holds; a log record that
\* lost its LSN leaves all that follows to the scan of the slack, which finds it;
\* with a wrong length what precedes it and its own data are found, what comes
\* after those is somewhere on the page, and all of it is found where the length
\* is zero and nothing between the log records looks like one.
PageTold ==
  Answer("page") =>
    LET n     == Len(input.items)
        d     == input.damaged
        found == [j \in DOMAIN output |->
                    [lsn |-> output[j].lsn, source |-> output[j].source,
                     entry |-> output[j].record.mft_entry]]
        Others(seq) == SelectSeq(seq, LAMBDA x : x.lsn # input.items[d].lsn)
    IN  CASE d = 0 -> found = Told(1, n) \o Rest
          [] d # 0 /\ input.field = "lsn" ->
               found = Told(1, d - 1) \o AsSlack(Told(d, n)) \o Rest
          [] d # 0 /\ input.field \in {"redo", "undo"} -> Others(found) = Others(Told(1, n) \o Rest)
          [] OTHER -> /\ IsPrefix(Told(1, d), found)
                      /\ \A j \in DOMAIN found :
                           \E x \in Range(Told(1, n) \o Rest) : x.entry = found[j].entry
                      /\ (\A h \in Range(input.page.log) :
                            h.client_data_length # 0 => \E i \in 1 .. n : input.items[i].head = h)
                           => found = Told(1, n) \o Rest

(***************************************************************************)
(* The readers of variable-length structures give back what was written,   *)
(* run lists, attributes, attribute-list entries, index entries, USN       *)
(* records and log pages alike; where a length, a bound or a cut is wrong, *)
(* they refuse it or keep to what lies before it, and never look outside   *)
(* the buffer, the item or the node.                                       *)
(***************************************************************************)
StructuresRead ==
  /\ RunsDecoded
  /\ AttributesWalked
  /\ ListWalked
  /\ EntriesWalked
  /\ FixupBounded
  /\ UsnRecordsFound
  /\ SiRead
  /\ RegionCarved
  /\ PageTold

ShortUnits == { u \in DOMAIN input.units : input.units[u].yield < CU!UNIT_BYTES }

\* Of n bytes, those before the first that a short unit displaces.
InPlace(n) ==
  IF ShortUnits = {} THEN n
  ELSE LET u == CHOOSE u \in ShortUnits : \A v \in ShortUnits : u <= v
           m == (u - 1) * CU!UNIT_BYTES + input.units[u].yield
       IN  IF m < n THEN m ELSE n

Prefix(bytes, want) ==
  /\ bytes # Failed
  /\ Len(bytes) >= InPlace(want) /\ Len(bytes) <= want
  /\ SubSeq(bytes, 1, InPlace(want)) = SubSeq(CU!FileBytes(input.units), 1, InPlace(want))

\* A compressed stream whose unit or size no volume can have.
Implausible == /\ input.attr.compressed /\ input.attr.cu # 0
               /\ input.attr.cu >= 64 \/ input.real_size > CU!MAX_VALUE_BYTES


(***************************************************************************)
(* A node shown as a link leads where it says: the target that was written,*)
(* up to the cap, for symlinks and junctions whatever the order of their   *)
(* names; nothing for a buffer cut short, for a WSL link, whose target the *)
(* code does not decode, and for a node that is no link.                   *)
(***************************************************************************)
LinksTold ==
  Answer("node") =>
    /\ output.target # <<>> => output.kind = "Symlink"
    /\ output.target # <<>> => input.target # <<>>
    /\ output.kind = "Symlink" /\ input.target # <<>> /\ input.intact =>
         output.target = SubSeq(input.target, 1,
                                IF input.cap < Len(input.target) THEN input.cap ELSE Len(input.target))
    /\ ~ input.intact => output.target = <<>>
    /\ output.kind = "Dir" => input.node.directory
    /\ input.intact /\ input.target # <<>> => output.kind = "Symlink"

-----------------------------------------------------------------------------
(* Paths. *)
ParentOf == [e \in DOMAIN input.entries |-> input.entries[e].parent]

\* A record is its own ancestor, or the walk from it meets one that is.
OnCycle(e) == e \in PC!Ancestors(ParentOf, e)
Looping(e) == \E a \in PC!Ancestors(ParentOf, e) \cup {e} :
                a \in DOMAIN input.entries /\ OnCycle(a) /\ ParentOf[a] # a

MftPathFollowed ==
  Answer("mft_path") =>
    /\ output[Len(output)] = input.entry
    /\ \A i \in 1 .. Len(output) - 1 : ParentOf[output[i + 1]] = output[i]
    /\ Looping(input.entry) <=> Len(output) = PC!MAX_STEPS
    /\ ~ Looping(input.entry) =>
         /\ { output[i] : i \in DOMAIN output } =
              ({input.entry} \cup PC!Ancestors(ParentOf, input.entry)) \cap DOMAIN input.entries
         /\ ParentOf[output[1]] \in ({Root, output[1]} \cup Nat) \ (DOMAIN input.entries \ {output[1]})

\* The newest record of a file; in these inputs a record's name is its position.
Newest(f) == CHOOSE i \in DOMAIN input :
               input[i].file_id = f /\ \A j \in DOMAIN input : input[j].file_id = f => j <= i

RefsPathsFollowed ==
  Answer("refs_paths") =>
    /\ DOMAIN output.paths = PC!FileIds(input)
    /\ \A f \in DOMAIN output.paths :
         LET path == output.paths[f]
             top  == input[path[1]]
         IN  /\ path[Len(path)] = Newest(f)
             /\ \A i \in DOMAIN path : path[i] = Newest(input[path[i]].file_id)
             /\ \A i \in 1 .. Len(path) - 1 :
                  input[path[i + 1]].parent_id = input[path[i]].file_id
             /\ \A i, j \in DOMAIN path : path[i] = path[j] => i = j
             /\ \/ top.parent_id \notin PC!FileIds(input)
                \/ \E i \in DOMAIN path : input[path[i]].file_id = top.parent_id


-----------------------------------------------------------------------------
(* Flags. *)
GlobMeant ==
  Answer("glob") =>
    output = MA!GlobMeans(MA!to_ascii_lowercase(input.pattern), MA!to_ascii_lowercase(input.text))

\* The rules that hold one of a rule's conditions each.
OneCondition(r) ==
  { [MA!Rule(r.name, r.severity, None, None, None, None) EXCEPT ![c] = r[c]] :
      c \in {"filename_match", "exclude_pattern", "any_reasons", "all_reasons"} }

Reported == { output[i].rule_name : i \in DOMAIN output }

RulesCompose ==
  Answer("rule") =>
    /\ input.rule.name \in Reported
         <=> \A r \in OneCondition(input.rule) : MA!matches(r, input.record)
    /\ \A i \in DOMAIN output : output[i].rule_name = input.rule.name => i = Len(output)
    /\ \A n \in Reported \ {input.rule.name} :
         \E i \in DOMAIN output : MA!to_finding(output[i]).severity = MA!BuiltinSeverity(n)

Criteria == {"path_patterns", "extension_filter", "reasons", "exclude_patterns",
             "filename_filter", "source_filter"}
OneCriterion(q) == { [MA!EmptyQuery EXCEPT ![c] = q[c]] : c \in { c \in Criteria : q[c] # {} } }

QueriesCompose ==
  /\ Answer("query") =>
       /\ output[1].record_indices =
            SelectSeq([j \in DOMAIN input.records |-> j],
                      LAMBDA j : /\ OneCriterion(input.query) # {}
                                 /\ \A q \in OneCriterion(input.query) :
                                      MA!matches_query(q, input.records[j]))
       /\ output[1].has_hits <=> output[1].hit_count > 0
  /\ Answer("question") =>
       \E i \in DOMAIN output : output[i].id = input.id /\ output[i].record_indices = <<1>>

\* mass_min renames to one extension with at most window between first and last.
Bursts(ext) ==
  { b \in SUBSET { i \in DOMAIN input.records : input.records[i].rename /\ input.records[i].ext = ext } :
      /\ Cardinality(b) >= input.mass_min
      /\ \A i, j \in b : input.records[j].time - input.records[i].time <= input.window }
RenamesOf(ext) ==
  { i \in DOMAIN input.records : input.records[i].rename /\ input.records[i].ext = ext }

RenamesTold ==
  Answer("renames") =>
    /\ \A x \in output :
         /\ x.affected_count = Cardinality(RenamesOf(x.extension))
         /\ \A i \in RenamesOf(x.extension) : input.records[i].time \in x.time_start .. x.time_end
         /\ x.extension \in MA!RANSOMWARE_EXTENSIONS \/ Bursts(x.extension) # {}
         /\ ~ MA!is_common_extension(x.extension)
    /\ \A e \in MA!RANSOMWARE_EXTENSIONS :
         Cardinality(RenamesOf(e)) >= MA!KNOWN_MIN <=> \E x \in output : x.extension = e
    /\ \A e \in { e \in MA!ExtsOf(input.records) : MA!Unusual(e) } :
         RenamesOf(e) \in Bursts(e) => \E x \in output : x.extension = e

(***************************************************************************)
(* What flags a record does so for what it says: a glob matches what its   *)
(* wildcards mean; a rule or a query flags a record exactly when each of   *)
(* its conditions alone would, and the empty query nothing; each built-in  *)
(* question can be answered through each of its patterns; an extension is  *)
(* reported for the renames that were made to it, one burst of them unless *)
(* others of the kind lie outside its window.                              *)
(***************************************************************************)
FlagsExact == GlobMeant /\ RulesCompose /\ QueriesCompose /\ RenamesTold

-----------------------------------------------------------------------------
(* Values. *)
SizesRead ==
  Answer("boot") =>
    /\ output # None =>
         /\ {output.mft_record_size, output.index_record_size}
              \subseteq VA!MIN_RECORD_SIZE .. VA!MAX_RECORD_SIZE
         /\ VA!is_power_of_two(output.cluster_size) \/ output.cluster_size > 2 ^ 16
         /\ \A p \in {<<VA!mft_byte_offset(output), input.mft_lcn>>,
                      <<VA!mftmirr_byte_offset(output), input.mftmirr_lcn>>} :
              p[1] < VA!MAX_OFFSET => p[1] \div output.cluster_size = p[2]
    /\ \A k \in 8 .. 20 :
         /\ input.oem /\ input.bps \in {256, 512, 4096} /\ input.spc \in {1, 8, 128}
         /\ 2 ^ k < 128 * input.bps * input.spc
         /\ input.cpr = VA!StoredSize(2 ^ k, input.bps * input.spc)
         /\ output # None
         => output.mft_record_size = 2 ^ k

TimesRead ==
  Answer("time") =>
    IF input = 0 THEN output = None
    ELSE VA!Instant(output) - VA!to_unix_ticks(input) =
           IF input < VA!UNIX_EPOCH /\ input % VA!PER_SECOND # 0 THEN VA!PER_SECOND ELSE 0

ReferencesRead == Answer("ref") => output = input

\* Operations that undo one another, as recovery would apply them.
Undoes == { <<"InitializeFileRecordSegment", "DeallocateFileRecordSegment">>,
            <<"CreateAttribute", "DeleteAttribute">>,
            <<"AddIndexEntryRoot", "DeleteIndexEntryRoot">>,
            <<"AddIndexEntryAllocation", "DeleteIndexEntryAllocation">> }
Opposite == { <<"Create", "Delete">>, <<"AttributeCreate", "AttributeDelete">>,
              <<"IndexInsert", "IndexDelete">> }

OpsTold ==
  Answer("ops") =>
    LET redo == VA!from_u16(input[1])
        undo == VA!from_u16(input[2])
    IN  /\ VA!code(redo) = input[1] /\ VA!code(undo) = input[2]
        /\ output.class = "Unknown" =>
             /\ output.redo = input[1] /\ output.undo = input[2]
             /\ input[1] = 0 \/ input[1] >= Len(VA!LogOps)
        /\ <<redo.op, undo.op>> \in Undoes =>
             /\ <<output.class, VA!classify(undo, redo).class>> \in Opposite
             /\ VA!classify(VA!from_u16(0), undo) = VA!classify(undo, redo)


=============================================================================
