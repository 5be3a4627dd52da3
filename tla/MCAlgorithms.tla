---------------------------- MODULE MCAlgorithms ----------------------------
EXTENDS Algorithms, SequencesExt

\* Sequences of at most n elements of S.
UpTo(S, n) == UNION { [1 .. k -> S] : k \in 0 .. n }

-----------------------------------------------------------------------------
Lcns == {Sparse, 0, 130, 30000, -7}
MCRuns == UpTo({ RL!Run(l, c) : l \in {1, 300}, c \in Lcns }, 2) \cup [1 .. 3 -> { RL!Run(1, c) : c \in Lcns }]
CutList(bytes, runs, pad) ==
  { [bytes |-> SubSeq(bytes, 1, n), runs |-> runs, pad |-> pad] :
      n \in ({0, 1, 3} \cup (Len(bytes) - 4 .. Len(bytes))) \cap (0 .. Len(bytes)) }
MCRunlistInputs == UNION { CutList(RL!encode(runs, pad), runs, pad) : runs \in MCRuns, pad \in {0, 1} }

\* Items laid out one behind the other, bodies filled with stray.
Cells(items, stray) ==
  FoldLeft(LAMBDA acc, h : acc \o <<h>> \o [j \in 1 .. h.length - 1 |-> stray], <<>>, items)
Starts(items) ==
  [i \in DOMAIN items |-> FoldLeft(LAMBDA acc, h : acc + h.length, 1, SubSeq(items, 1, i - 1))]

\* The same cells with one field of one header changed, or none.
Damages(items, cells, first, values) ==
  {[items |-> items, cells |-> cells, damaged |-> 0]} \cup
  { [items |-> items, damaged |-> i,
     cells |-> [cells EXCEPT ![first + Starts(items)[i] - 1] = [@ EXCEPT ![v[1]] = v[2]]]] :
      i \in DOMAIN items, v \in values }

Whole(items, cells) == [items |-> items, cells |-> cells, damaged |-> 0]

AttributeItems == UpTo({ ST!Attribute("A", 3, 0, FALSE, 3), ST!Attribute("VOLUME_NAME", 5, 4, FALSE, 5),
                         ST!Attribute("C", 9, 0, TRUE, 0) }, 3)
AttributeDamage == ({"length"} \X {0, 1, 2, 3, 4, 8, 40}) \cup ({"name"} \X {4, 12}) \cup ({"content"} \X {6, 40})
                     \cup {<<"non_resident", TRUE>>}
StrayAttributes == { ST!Attribute("Z", 0, 0, FALSE, 0), ST!Attribute("Z", 2, 0, FALSE, 3),
                     ST!Attribute("Z", 3, 0, FALSE, 3) }
EndMarker == ST!Attribute("END", 0, 0, FALSE, 0)
MCAttributeInputs ==
  UNION { Damages(items, Cells(items, z) \o tail, 1, AttributeDamage) :
            items \in AttributeItems, z \in StrayAttributes, tail \in {<<>>, <<EndMarker, EndMarker>>} }

ListItems == UpTo({ ST!AttributeListEntry(1, 4, 0), ST!AttributeListEntry(2, 5, 5) }, 3)
ListDamage == ({"length"} \X {0, 3, 4, 5, 30}) \cup ({"name"} \X {5, 9})
StrayEntries == { ST!AttributeListEntry(9, 0, 0), ST!AttributeListEntry(9, 4, 0) }
MCListInputs ==
  UNION { Damages(items, Cells(items, z) \o SubSeq(<<z, z, z>>, 1, n), 1, ListDamage) :
            items \in ListItems, z \in StrayEntries, n \in {0, 3} }

Terminals == { ST!IndexEntry(0, 2, 0, 0, TRUE, FALSE), ST!IndexEntry(0, 3, 0, 0, TRUE, TRUE) }
IndexItems == { Append(items, t) :
                  items \in UpTo({ ST!IndexEntry(1, 12, 10, 10, FALSE, FALSE),
                                   ST!IndexEntry(2, 12, 9, 9, FALSE, TRUE) }, 2),
                  t \in Terminals }
IndexDamage == ({"length"} \X {0, 1, 2, 11, 13, 24, 90}) \cup ({"stream"} \X {8, 11, 99})
                 \cup ({"name"} \X {11}) \cup ({"last", "subnode"} \X {TRUE, FALSE})
StrayIndex == { ST!IndexEntry(9, 0, 0, 0, FALSE, FALSE), ST!IndexEntry(9, 2, 0, 0, TRUE, FALSE) }
Leftover == ST!IndexEntry(7, 12, 10, 10, FALSE, FALSE)
\* The entries behind two headers, then an entry that is no longer part of the
\* node; total counts from the index header.
IndexCells(items, z) == <<z, z, z, z>> \o Cells(items, z) \o Cells(<<Leftover>>, z)
InNode(items) == 2 + Starts(items)[Len(items)] + items[Len(items)].length - 1
WithTotal(inputs, total) ==
  { [items |-> i.items, cells |-> i.cells, damaged |-> i.damaged, total |-> total] : i \in inputs }
MCIndexInputs ==
  UNION { WithTotal(Damages(items, IndexCells(items, z), 5, IndexDamage), InNode(items))
            \cup WithTotal({[Whole(items, IndexCells(items, z)) EXCEPT !.damaged = 1]}, InNode(items) + 60)
            \cup WithTotal({[Whole(items, IndexCells(items, z)) EXCEPT !.damaged = Len(items)]}, InNode(items) - 1)
            \cup WithTotal({Whole(items, IndexCells(items, z))}, InNode(items) + 12) :
            items \in IndexItems, z \in StrayIndex }

MCSiInputs == { SubSeq(s, 1, n) : s \in {<<1, 2, 3, 4, 5, 6, 7, 8, 9>>, <<9, 8, 7, 6, 5, 4, 3, 2, 1>>}, n \in 0 .. 9 }
MCRegionInputs == [region : UpTo({"FILE", "BAAD", "none"}, 4), record_size : 0 .. 4]

MCFixupInputs ==
  [len : {40, 48, 512, 1024}, sector_size : {0, 1, 2, 256, 512}, usa_offset : {0, 48, 1000, 1020, 65535},
   usa_count : {0, 1, 2, 3, 4, 65535}]

-----------------------------------------------------------------------------
UsnItems == UpTo({ UF!Header(2, 64, 60, 4, 30, 1, 1), UF!Header(2, 72, 60, 10, 13, 2, 2),
                   UF!Header(3, 80, 76, 4, 24, 3, 3) }, 2)
              \cup { <<h, UF!Header(2, 64, 60, 4, 30, 1, 1), UF!Header(3, 80, 76, 4, 24, 3, 3)>> :
                       h \in {UF!Header(2, 72, 60, 10, 13, 2, 2), UF!Header(3, 80, 76, 4, 24, 3, 3)} }
UsnDamage == ({"version"} \X {0, 2, 3, 4}) \cup ({"length"} \X {0, 56, 60, 64, 80, 136, 70000})
               \cup ({"name_at"} \X {0, 60, 200}) \cup ({"name_len"} \X {0, 1, 5, 12, 80})
               \cup ({"time"} \X {-1, 0, 3, 12, 23, 36, 37})
StrayUsn == { UF!Header(0, 0, 0, 0, 0, 9, 0), UF!Header(2, 64, 7, 7, 30, 9, 9), UF!Header(3, 76, 76, 2, 30, 9, 9) }
\* Records one behind the other, with junk where their bodies are, and a tail.
UsnCells(items, z, n) ==
  FoldLeft(LAMBDA acc, h : acc \o <<h>> \o [j \in 1 .. UF!CellsOf(h.length) - 1 |-> z], <<>>, items)
    \o [j \in 1 .. n |-> z]
UsnStarts(items) ==
  [i \in DOMAIN items |-> FoldLeft(LAMBDA acc, h : acc + UF!CellsOf(h.length), 1, SubSeq(items, 1, i - 1))]
UsnDamages(items, starts, cells) ==
  {[items |-> items, starts |-> starts, cells |-> cells, damaged |-> 0]} \cup
  { [items |-> items, starts |-> starts, damaged |-> i,
     cells |-> [cells EXCEPT ![starts[i]] = [@ EXCEPT ![v[1]] = v[2]]]] :
      i \in DOMAIN items, v \in UsnDamage }
MCUsnInputs ==
  UNION { UsnDamages(items, UsnStarts(items), UsnCells(items, z, n)) : items \in UsnItems, z \in StrayUsn, n \in {0, 8} }

-----------------------------------------------------------------------------
\* Log records with a USN record of 64 bytes as redo data and, for some, one of
\* 72 bytes as undo data, or the redo data as undo data too.
UsnHead(e) == IF e % 2 = 1 THEN UF!Header(2, 64, 60, 4, 30, e, 1) ELSE UF!Header(2, 72, 60, 10, 30, e, 1)
NoUsn == UF!Header(0, 0, 0, 0, 0, 0, 0)
UsnPart(e) == <<UsnHead(e)>> \o [j \in 1 .. UF!CellsOf(UsnHead(e).length) - 1 |-> NoUsn]
LogItem(lsn, undo) == [lsn |-> lsn, redo |-> 2 * lsn - 1, undo |-> IF undo = "own" THEN 2 * lsn ELSE None,
                       head |-> UF!LogHeader(lsn, IF undo = "own" THEN 176 ELSE 104, UF!Region(40, 64),
                                             CASE undo = "own" -> UF!Region(104, 72)
                                               [] undo = "redo" -> UF!Region(40, 64)
                                               [] OTHER -> UF!NoRegion)]
LogPart(x) == [j \in 1 .. 11 |-> NoUsn] \o UsnPart(x.redo) \o (IF x.undo = None THEN <<>> ELSE UsnPart(x.undo))
SlackPart(slack) == IF slack = <<>> THEN <<>> ELSE <<NoUsn>> \o FlattenSeq([j \in DOMAIN slack |-> UsnPart(slack[j])])
StrayLogs == { UF!LogHeader(9, 0, UF!NoRegion, UF!NoRegion), UF!LogHeader(9, 70000, UF!NoRegion, UF!NoRegion),
               UF!LogHeader(9, 8, UF!Region(8, 128), UF!NoRegion) }
HeadDamage == ({"client_data_length"} \X {0, 96, 112, 400, 70000})
                \cup ({"redo", "undo"} \X ({UF!NoRegion} \cup { UF!Region(o, l) : o \in {8, 40, 400}, l \in {56, 64, 200} }))
                \cup {<<"lsn", 0>>}
Log(items, slack, stray) ==
  FlattenSeq([i \in DOMAIN items |-> <<items[i].head>> \o [j \in 1 .. Len(LogPart(items[i])) - 1 |-> stray]])
    \o [j \in DOMAIN SlackPart(slack) |-> IF j = 1 THEN UF!LogHeader(0, 0, UF!NoRegion, UF!NoRegion) ELSE stray]
WholePage(items, slack, stray) ==
  [items |-> items, slack |-> slack, page_lsn |-> 99, damaged |-> 0, field |-> "none",
   page |-> [log |-> Log(items, slack, stray),
             usn |-> FlattenSeq([i \in DOMAIN items |-> LogPart(items[i])]) \o SlackPart(slack)]]
Place(items, i) == 1 + Len(FlattenSeq([j \in 1 .. i - 1 |-> LogPart(items[j])]))
PagesOf(items, slack, stray) ==
  {WholePage(items, slack, stray)} \cup
  { [WholePage(items, slack, stray) EXCEPT !.damaged = i, !.field = v[1],
                                           !.page.log[Place(items, i)] = [@ EXCEPT ![v[1]] = v[2]]] :
      i \in DOMAIN items, v \in HeadDamage }
MCPageInputs ==
  UNION { PagesOf([i \in DOMAIN undos |-> LogItem(i, undos[i])], slack, stray) :
            undos \in UpTo({"none", "redo", "own"}, 2) \cup {<<"own", "none", "redo">>}, slack \in {<<>>, <<22, 21>>},
            stray \in StrayLogs }

-----------------------------------------------------------------------------
Stored == { CU!Unit(k, CU!UNIT_BYTES) : k \in {0, 1, 3, 4} }
FileUnits == UpTo(Stored, 3) \cup { <<u, CU!Unit(1, 5), v>> : u \in Stored, v \in Stored }
LaidOut(attr, units, gaps, sizes, caps) ==
  { [attr |-> attr, units |-> units, disk |-> CU!Platter(units, gaps), runs |-> CU!Layout(units, gaps),
     real_size |-> size, cap |-> cap] : size \in sizes, cap \in caps }
SizesOf(units) == { n \in {3, 8, 11, 16, 21, 24} : n <= CU!UNIT_BYTES * Len(units) }
MCUnitInputs ==
  UNION { LaidOut(CU!DataAttribute(FALSE, None, TRUE, 2), units, gaps, SizesOf(units) \cup {50}, {0, 10, 100}) :
            units \in FileUnits \ {<<>>}, gaps \in SUBSET {2, 3} }
  \cup UNION { LaidOut(CU!DataAttribute(FALSE, None, c[1], c[2]), units, {3}, SizesOf(units) \cup {50}, {0, 10, 100}) :
                 c \in {<<FALSE, 0>>, <<FALSE, 2>>, <<TRUE, 0>>, <<TRUE, 64>>},
                 units \in UpTo({ CU!Unit(k, CU!UNIT_BYTES) : k \in {0, 4} }, 3) }
  \cup UNION { LaidOut(CU!DataAttribute(TRUE, c, FALSE, 0), <<>>, {}, {2}, {9}) : c \in {None, <<CU!Byte(1, 1)>>} }

-----------------------------------------------------------------------------
Sub == <<"s1", "s2", "s3">>
Pri == <<"p1">>
NodeInput(directory, reparse, data, target, intact, cap) ==
  [node |-> NK!Node(directory, reparse, data), target |-> target, intact |-> intact, cap |-> cap]

\* A reparse buffer with the substitute name in front or behind, cut to n words.
Body(tag, first) ==
  (IF tag = "SYMLINK" THEN <<"flags">> ELSE <<>>)
    \o (IF tag \in NK!LinkTags THEN IF first THEN Sub \o Pri ELSE Pri \o Sub ELSE <<>>)
ReparseInput(tag, first, n, directory, cap) ==
  NodeInput(directory,
            NK!Reparse(tag, n, IF first THEN 0 ELSE 1, IF tag \in NK!LinkTags THEN 3 ELSE 0, Body(tag, first)),
            None, IF tag \in NK!LinkTags THEN Sub ELSE <<>>, n = 4 + Len(Body(tag, first)), cap)
MCNodeInputs ==
  UNION { { ReparseInput(tag, first, n, d, cap) : n \in 0 .. 4 + Len(Body(tag, first)) } :
            tag \in {"SYMLINK", "MOUNT_POINT", "LX_SYMLINK", "LX_CHR", "LX_BLK", "LX_FIFO", "AF_UNIX", "CLOUD"},
            first \in BOOLEAN, d \in BOOLEAN, cap \in {0, 2, 9} }
  \cup { NodeInput(FALSE, None, NK!Interix(m, w, Sub), IF m = "IntxLNK" THEN Sub ELSE <<>>, w, cap) :
           m \in {"IntxLNK", "IntxCHR", "IntxBLK", "text"}, w \in BOOLEAN, cap \in {0, 2, 9} }
  \cup { NodeInput(d, None, None, <<>>, TRUE, 9) : d \in BOOLEAN }

-----------------------------------------------------------------------------
MCMftInputs ==
  UNION { { [entry |-> e, entries |-> [i \in D |-> [name |-> i, parent |-> p[i]]]] :
              e \in D, p \in [D -> {Root, 1, 2, 3, 4}] } : D \in SUBSET (1 .. 4) \ {{}} }

Id(n) == PC!RefsFileId(IF n = 4 THEN 0 ELSE 1, n)
MCRefsInputs ==
  { [i \in DOMAIN s |-> PC!RefsRecord(Id(s[i][1]), Id(s[i][2]), i, TRUE)] :
      s \in UpTo({1, 2, 3} \X {1, 2, 3, 4}, 3) \cup [1 .. 4 -> {1, 2} \X {1, 2, 4}] }

-----------------------------------------------------------------------------
MCGlobInputs == [pattern : UpTo({"a", "b", "*", "?"}, 4), text : UpTo({"a", "B"}, 4)]

UserRules ==
  { MA!Rule("user", "Low", fm, ex, any, all) :
      fm \in {None, MA!FilenameMatch("Glob", <<"*", "a">>, {}), MA!FilenameMatch("Regex", Invalid, {}),
              MA!FilenameMatch("Regex", <<>>, {<<"a">>, <<"b", "a">>}), MA!FilenameMatch("Extension", <<"A">>, {})},
      ex \in {None, <<"b", "*">>}, any \in {None, {"FILE_CREATE"}},
      all \in {None, {"FILE_CREATE", "CLOSE"}} }
MCRuleInputs ==
  [rule : UserRules,
   record : [filename : {<<"a">>, <<"b">>, <<"b", "a">>, <<"psexec.exe">>, <<"x.locked">>, <<"AAAAA.AAA">>,
                         <<"x.ps1">>, <<"system.ps1">>, <<"SAM">>},
             reason : SUBSET {"FILE_CREATE", "CLOSE"}]]

TriageRecord(path, ext, reason, name, source) ==
  [full_path |-> path, extension |-> ext, reason |-> reason, filename |-> name, source |-> source]
TriageRecords ==
  { TriageRecord(p, e, r, n, s) : p \in SUBSET {"P", "X"}, e \in {"e", "f"}, r \in SUBSET {"R"},
                                  n \in SUBSET {"k"}, s \in {"ghost", "allocated"} }
Plain == TriageRecord({"P"}, "e", {"R"}, {"k"}, "ghost")
MCQueryInputs ==
  { [query |-> MA!TriageQuery(p, e, r, x, n, s), records |-> <<rec, Plain>>] :
      p \in {{}, {"P"}, {"P", "Q"}}, e \in {{}, {"e"}}, r \in {{}, {"R"}}, x \in {{}, {"X"}},
      n \in {{}, {"k"}}, s \in {{}, {"ghost", "entry-carved"}}, rec \in TriageRecords }

OneOf(S, other) == IF S = {} THEN {other} ELSE S
MCQuestionInputs ==
  UNION { { [id |-> MA!builtin_questions[i].id, record |-> TriageRecord({p}, e, {r}, {n}, s)] :
              p \in OneOf(MA!builtin_questions[i].query.path_patterns, "elsewhere"),
              e \in OneOf(MA!builtin_questions[i].query.extension_filter, "other"),
              r \in OneOf(MA!builtin_questions[i].query.reasons, "CLOSE"),
              n \in OneOf(MA!builtin_questions[i].query.filename_filter, "name"),
              s \in OneOf(MA!builtin_questions[i].query.source_filter, "allocated") } :
            i \in DOMAIN MA!builtin_questions }

\* Times are sums of the steps so far.
Timed(s) == [i \in DOMAIN s |-> [rename |-> s[i][1], ext |-> s[i][2],
                                 time |-> FoldLeft(LAMBDA acc, r : acc + r[3], 0, SubSeq(s, 1, i))]]
MCRenameInputs ==
  { [records |-> Timed(s), mass_min |-> 3, window |-> 2] :
      s \in UpTo(({TRUE} \X {".locked", ".odd", ".txt"} \X {0, 1, 2}) \cup {<<FALSE, ".odd", 1>>}, 4) }

-----------------------------------------------------------------------------
MCBootInputs == [oem : {TRUE}, bps : {255, 256, 512, 768, 4096, 8192}, spc : {0, 1, 3, 8, 128},
                 cpr : 0 .. 255, cpi : {1, 244}, mft_lcn : {4}, mftmirr_lcn : {2}]
                  \cup [oem : BOOLEAN, bps : {512, 4096}, spc : {8, 128}, cpr : {246}, cpi : {1},
                        mft_lcn : {0, 31, 2 ^ 11}, mftmirr_lcn : {32, 33}]
MCRefInputs == [record_number : 0 .. 7, sequence : 0 .. 3]
MCTimeInputs == 0 .. 60
MCOpInputs == (0 .. 40) \X (0 .. 40)
=============================================================================
