------------------------------- MODULE Matching -------------------------------
(***************************************************************************)
(* What flags a record: the globs and rules of forensic/src/rules.rs, the  *)
(* triage queries of forensic/src/triage, and the rename detectors of      *)
(* forensic/src/analysis.rs.                                               *)
(*                                                                         *)
(* A glob and the name it is matched with are sequences of characters.     *)
(* The regex crate is external: a regular expression is the set of strings *)
(* it matches, or Invalid.                                                 *)
(***************************************************************************)
EXTENDS Integers, SequencesExt

CONSTANTS Invalid, None

-----------------------------------------------------------------------------
(* Globs. *)
Lower(c) == CASE c = "A" -> "a" [] c = "B" -> "b" [] OTHER -> c
to_ascii_lowercase(s) == [i \in DOMAIN s |-> Lower(s[i])]

RECURSIVE GlobFrom(_, _, _, _, _, _)

\* The two cursors, and the last star with the position it was tried at (star
\* = 0: none yet).  On a mismatch the star takes one character more.
GlobFrom(p, t, pi, ti, star, star_ti) ==
  IF ti > Len(t)
    THEN \A i \in pi .. Len(p) : p[i] = "*"
  ELSE IF pi <= Len(p) /\ (p[pi] = "?" \/ p[pi] = t[ti])
    THEN GlobFrom(p, t, pi + 1, ti + 1, star, star_ti)
  ELSE IF pi <= Len(p) /\ p[pi] = "*"
    THEN GlobFrom(p, t, pi + 1, ti, pi, ti)
  ELSE /\ star # 0
       /\ GlobFrom(p, t, star + 1, star_ti + 1, star, star_ti + 1)

glob_matches_inner(p, t) == GlobFrom(p, t, 1, 1, 0, 0)

glob_matches(pattern, text) ==
  glob_matches_inner(to_ascii_lowercase(pattern), to_ascii_lowercase(text))

\* What a glob means: ? is one character, * any number of them.
RECURSIVE GlobMeans(_, _)
GlobMeans(p, t) ==
  IF p = <<>> THEN t = <<>>
  ELSE IF p[1] = "*" THEN \E n \in 0 .. Len(t) : GlobMeans(Tail(p), SubSeq(t, n + 1, Len(t)))
  ELSE t # <<>> /\ (p[1] = "?" \/ p[1] = t[1]) /\ GlobMeans(Tail(p), Tail(t))

-----------------------------------------------------------------------------
(* Rules: each condition is None or set. *)
Rule(name, severity, filename_match, exclude_pattern, any_reasons, all_reasons) ==
  [name |-> name, severity |-> severity, filename_match |-> filename_match,
   exclude_pattern |-> exclude_pattern, any_reasons |-> any_reasons, all_reasons |-> all_reasons]

\* A glob or an extension has its pattern, a regular expression its language.
FilenameMatch(kind, pattern, language) == [kind |-> kind, pattern |-> pattern, language |-> language]

NameOk(fm, filename) ==
  CASE fm.kind = "Glob"      -> glob_matches(fm.pattern, filename)
    [] fm.kind = "Regex"     -> fm.pattern # Invalid /\ filename \in fm.language
    [] fm.kind = "Extension" -> IsSuffix(to_ascii_lowercase(fm.pattern), to_ascii_lowercase(filename))

\* An exclusion that is looked at only when there is no filename condition.
matches_late_exclude(rule, record) ==
  /\ rule.filename_match = None /\ rule.exclude_pattern # None
       => ~ glob_matches(rule.exclude_pattern, record.filename)
  /\ rule.filename_match # None => NameOk(rule.filename_match, record.filename)
  /\ rule.any_reasons # None => record.reason \cap rule.any_reasons # {}
  /\ rule.all_reasons # None => rule.all_reasons \subseteq record.reason

matches(rule, record) ==
  /\ rule.exclude_pattern # None => ~ glob_matches(rule.exclude_pattern, record.filename)
  /\ rule.filename_match # None => NameOk(rule.filename_match, record.filename)
  /\ rule.any_reasons # None => record.reason \cap rule.any_reasons # {}
  /\ rule.all_reasons # None => rule.all_reasons \subseteq record.reason

RuleMatch(rule, record) == [rule_name |-> rule.name, severity |-> rule.severity, record |-> record]

\* RuleSet: rules in the order they were added.
from_rules(rules) == rules
add_rule(rules, rule) == Append(rules, rule)
evaluate(rules, record) ==
  LET hits == SelectSeq(rules, LAMBDA r : matches(r, record))
  IN  [i \in DOMAIN hits |-> RuleMatch(hits[i], record)]

\* RuleMatch::to_finding: the code is the rule's name behind "USN-".
to_finding(m) == [code |-> <<"USN", m.rule_name>>, severity |-> m.severity]

-----------------------------------------------------------------------------
(* Triage: a pattern is the token it looks for, a path the tokens it has. *)
TriageQuery(path_patterns, extension_filter, reasons, exclude_patterns, filename_filter, source_filter) ==
  [path_patterns |-> path_patterns, extension_filter |-> extension_filter, reasons |-> reasons,
   exclude_patterns |-> exclude_patterns, filename_filter |-> filename_filter,
   source_filter |-> source_filter]

EmptyQuery == TriageQuery({}, {}, {}, {}, {}, {})

matches_query(q, r) ==
  /\ q # EmptyQuery
  /\ q.source_filter # {} => r.source \in q.source_filter
  /\ q.reasons # {} => r.reason \cap q.reasons # {}
  /\ q.path_patterns # {} => q.path_patterns \cap r.full_path # {}
  /\ q.extension_filter # {} => r.extension \in q.extension_filter
  /\ q.filename_filter # {} => q.filename_filter \cap r.filename # {}
  /\ q.exclude_patterns \cap r.full_path = {}

run_triage(questions, records) ==
  [i \in DOMAIN questions |->
     LET hits == SelectSeq([j \in DOMAIN records |-> j],
                           LAMBDA j : matches_query(questions[i].query, records[j]))
     IN  [id |-> questions[i].id, has_hits |-> Len(hits) > 0, hit_count |-> Len(hits),
          record_indices |-> hits]]

\* The built-in questions, with the tokens their patterns look for: what
\* happened and how bad it is, then what remains, was covered or recovered.
Executable == {"exe", "dll", "bat", "ps1", "cmd", "vbs"}
Q(id, query) == [id |-> id, query |-> query]

ImpactQuestions == <<
  Q("initial_access",
    TriageQuery({"Downloads", "Temp", "AppData"}, Executable \cup {"scr", "hta", "wsf", "msi"},
                {"FILE_CREATE", "RENAME_NEW_NAME"},
                {"Windows", "Program Files", "OneDrive", "Packages"}, {}, {})),
  Q("malware_deployed",
    TriageQuery({"System32", "SysWOW64", "Temp", "AppData", "ProgramData"},
                Executable \cup {"scr", "js", "hta"},
                {"FILE_CREATE", "RENAME_NEW_NAME", "SECURITY_CHANGE"},
                {"OneDrive", "NativeImages", "Packages"}, {}, {})),
  Q("execution_evidence", TriageQuery({"Prefetch"}, {"pf"}, {"FILE_CREATE"}, {}, {}, {})),
  Q("sensitive_data",
    TriageQuery({}, {"docx", "xlsx", "pdf", "txt", "csv", "pst", "ost", "kdbx", "key", "pem",
                     "pfx", "p12", "zip", "lnk"},
                {"DATA_EXTEND", "CLOSE", "DATA_TRUNCATION", "FILE_CREATE", "RENAME_NEW_NAME",
                 "FILE_DELETE"},
                {"Windows", "ProgramData", "Program Files", "Packages", "AppData"}, {}, {})),
  Q("data_staging",
    TriageQuery({"Users", "Desktop", "Documents", "Downloads", "Temp"},
                {"zip", "7z", "rar", "tar", "gz", "cab"},
                {"FILE_CREATE", "RENAME_NEW_NAME", "FILE_DELETE"},
                {"Windows", "Program Files"}, {}, {})),
  Q("credential_access",
    TriageQuery({"config/SAM", "config/SECURITY", "config/SYSTEM", "ntds.dit", "mimikatz",
                 "procdump", "lsass.dmp", "lazagne", "rubeus", "kerberoast", "secretsdump",
                 "hashdump", "pwdump", "wce.exe"}, {}, {}, {}, {}, {})) >>

RiskQuestions == <<
  Q("persistence",
    TriageQuery({"Startup", "Tasks", "services", "Run", "WMI"}, Executable \cup {"lnk", "job"},
                {"FILE_CREATE", "RENAME_NEW_NAME"}, {}, {}, {})),
  Q("lateral_movement",
    TriageQuery({}, {}, {"FILE_CREATE"}, {},
                {"rdpclip.exe", "tstheme.exe", "mstsc.exe", "psexec", "paexec", "wmiexec",
                 "smbexec", "winrs.exe", "wsmprovhost.exe", "chisel", "plink.exe", "ncat",
                 "socat"}, {})),
  Q("evidence_destruction",
    TriageQuery({"winevt", "Prefetch", "Logs"}, {"evtx", "pf", "log", "etl"},
                {"FILE_DELETE", "DATA_OVERWRITE", "FILE_CREATE"}, {"WindowsUpdate"}, {}, {})),
  Q("timestomping",
    TriageQuery({}, {"exe", "dll", "sys", "bat", "ps1"}, {"BASIC_INFO_CHANGE"},
                {"WinSxS", "assembly", "WindowsApps", "Program Files", "Windows/Temp",
                 "SoftwareDistribution"}, {}, {})),
  Q("file_disguise",
    TriageQuery({}, {}, {"NAMED_DATA_EXTEND", "NAMED_DATA_OVERWRITE", "NAMED_DATA_TRUNCATION"},
                {"assembly", "WindowsApps", "Program Files", "SoftwareDistribution"}, {}, {})),
  Q("recovered_evidence", TriageQuery({}, {}, {}, {}, {}, {"entry-carved", "ghost"})) >>

builtin_questions == ImpactQuestions \o RiskQuestions

-----------------------------------------------------------------------------
(* The rename detectors.  A record is [rename, ext, time]: whether it has  *)
(* RENAME_NEW_NAME, the extension of its name and when it was written.     *)
KNOWN_MIN == 3

RANSOMWARE_EXTENSIONS ==
  {".encrypted", ".locked", ".crypto", ".crypt", ".enc", ".locky", ".cerber", ".zepto", ".odin",
   ".thor", ".aesir", ".zzzzz", ".micro", ".crypted", ".crinf", ".r5a", ".xrtn", ".xtbl", ".crypz",
   ".cryp1", ".ransom", ".wallet", ".onion", ".wncry", ".wcry", ".wncryt"}

is_common_extension(ext) ==
  ext \in {".txt", ".doc", ".docx", ".xls", ".xlsx", ".pdf", ".jpg", ".jpeg", ".png", ".gif", ".mp3",
           ".mp4", ".avi", ".zip", ".rar", ".exe", ".dll", ".sys", ".log", ".tmp", ".bak", ".html",
           ".htm", ".css", ".js", ".py", ".rs", ".c", ".h", ".cpp", ".java", ".xml", ".json", ".csv",
           ".ppt", ".pptx"}

RansomwareIndicator(ext, group, confidence) ==
  [extension |-> ext, affected_count |-> Len(group), confidence |-> confidence,
   time_start |-> Min({ group[i].time : i \in DOMAIN group }),
   time_end   |-> Max({ group[i].time : i \in DOMAIN group })]

RenamesTo(records, ext) == SelectSeq(records, LAMBDA r : r.rename /\ r.ext = ext)
ExtsOf(records) == { records[i].ext : i \in DOMAIN records }

confidence(n) == IF n >= 20 THEN 95 ELSE IF n >= 10 THEN 85 ELSE 60

detect_known_ransomware_extensions(records) ==
  { RansomwareIndicator(e, RenamesTo(records, e), confidence(Len(RenamesTo(records, e)))) :
      e \in { e \in RANSOMWARE_EXTENSIONS : Len(RenamesTo(records, e)) >= KNOWN_MIN } }

Unusual(ext) == ext # None /\ ~ is_common_extension(ext) /\ ext \notin RANSOMWARE_EXTENSIONS

\* mass_min renames (20 in the code) to one extension that is neither common nor
\* known, the first and the last of them within the window (10 minutes).
detect_mass_rename_patterns(records, mass_min, window) ==
  IF Len(SelectSeq(records, LAMBDA r : r.rename)) < mass_min
    THEN {}
    ELSE { i \in { RansomwareIndicator(e, RenamesTo(records, e), 75) :
                      e \in { e \in ExtsOf(records) :
                                Unusual(e) /\ Len(RenamesTo(records, e)) >= mass_min } } :
             i.time_end - i.time_start <= window }

detect_ransomware_patterns(records, mass_min, window) ==
  detect_known_ransomware_extensions(records)
    \cup detect_mass_rename_patterns(records, mass_min, window)

-----------------------------------------------------------------------------
(* The built-in rules, over one name for each class their expressions tell *)
(* apart.                                                                  *)
HighRules == {"suspicious_executables", "secure_delete_pattern", "credential_access"}
BuiltinSeverity(name) ==
  CASE name \in HighRules -> "High"
    [] name = "ransomware_extensions" -> "Critical"
    [] name = "script_execution" -> "Medium"

BuiltinRule(name, names, any_reasons) ==
  Rule(name, BuiltinSeverity(name), FilenameMatch("Regex", <<>>, names), None, any_reasons, None)

with_builtins ==
  FoldLeft(add_rule, from_rules(<<>>), <<
    BuiltinRule("suspicious_executables", {<<"psexec.exe">>}, None),
    BuiltinRule("ransomware_extensions", {<<"x.locked">>}, None),
    BuiltinRule("secure_delete_pattern", {<<"AAAAA.AAA">>}, None),
    BuiltinRule("script_execution", {<<"x.ps1">>, <<"system.ps1">>}, None),
    BuiltinRule("credential_access", {<<"SAM">>, <<"system.ps1">>}, {"FILE_CREATE", "DATA_OVERWRITE"}) >>)

=============================================================================
