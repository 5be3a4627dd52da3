----------------------------- MODULE UsnCarver ------------------------------
(***************************************************************************)
(* carve_usn_records (core/src/usn/carver.rs) over the images of the        *)
(* journal readers.  The third cell of a record stands for its name fields  *)
(* and its timestamp: Sound when they pass the checks of try_carve.         *)
(***************************************************************************)
EXTENDS UsnReader

Sound == 7

\* The arms of the match on the version, and try_carve_v2 and _v3.
Carves(d, o) ==
  /\ Version(d, o) \in {2, 3}
  /\ Length(d, o) \in MinLength[Version(d, o)] .. MaxRecord
  /\ o + Length(d, o) <= Len(d)
  /\ d[o + 3] = Sound

carve_usn_records_TrustsLength(d) ==
  LET scan[o \in 0 .. Len(d) + MaxRecord] ==
        IF o + Word > Len(d) THEN <<>>
        ELSE IF Length(d, o) \notin 1 .. MaxRecord THEN scan[o + Word]
        ELSE IF Carves(d, o)
             THEN <<UsnRecord(d, o)>> \o scan[o + Align(Length(d, o))]
        ELSE scan[o + Align(Length(d, o))]
  IN  scan[0]

\* The records found at word boundaries; what follows a record is looked at
\* from its end, what is none word by word.
carve_usn_records(d) ==
  LET scan[o \in 0 .. Len(d) + MaxRecord] ==
        IF o + Word > Len(d) THEN <<>>
        ELSE IF Length(d, o) # 0 /\ Carves(d, o)
             THEN <<UsnRecord(d, o)>> \o scan[o + Align(Length(d, o))]
        ELSE scan[o + Word]
  IN  scan[0]

\* Carving loses nothing the parser of an undamaged journal would return: each
\* of its records with sound fields is carved too, or overlaps one that is
\* ("Handles overlapping and corrupt regions gracefully", carver.rs).
CarvesWhatParses ==
  pc = "end" =>
    LET carved == ToSet(carve_usn_records(data))
    IN  \A r \in ToSet(parse_usn_journal(data)) :
          data[r.at + 3] = Sound =>
            \E c \in carved : c.at < r.at + r.len /\ r.at < c.at + c.len
=============================================================================
