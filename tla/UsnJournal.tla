----------------------------- MODULE UsnJournal -----------------------------
(***************************************************************************)
(* A raw $UsnJrnl:$J image and the bulk parser, parse_usn_journal           *)
(* (core/src/usn/record.rs).                                                *)
(*                                                                         *)
(* The unit is four bytes, a cell.  A record begins on a word (Word cells): *)
(* its first cell is its length, its second its version.  A file carries    *)
(* gaps, records and damage (items) and may end anywhere.                   *)
(***************************************************************************)
EXTENDS Naturals, Sequences, SequencesExt

CONSTANTS Journals,   \* what images are made of: sequences of items, which are
                      \* sequences of cells
          MinLength,  \* shortest record of version 2, 3 and 4
          MaxRecord   \* longest record, which is also the reader's buffer

Word == 2
Align(n) == ((n + Word - 1) \div Word) * Word

ASSUME UsnAssumption ==
  /\ MaxRecord \in Nat
  /\ MaxRecord = Align(MaxRecord)
  /\ DOMAIN MinLength = 2 .. 4
  /\ \A is \in Journals : \A i \in DOMAIN is : Len(is[i]) = Align(Len(is[i]))

-----------------------------------------------------------------------------
\* An image: items one after the other, the last cells cut off.
Image(is, cut) == LET all == FlattenSeq(is) IN SubSeq(all, 1, Len(all) - cut)
OffsetOf(is, i) == Len(FlattenSeq(SubSeq(is, 1, i - 1)))

Images == {im \in [items : Journals, cut : 0 .. MaxRecord] :
             IF im.items = <<>> THEN im.cut = 0 ELSE im.cut < Len(Last(im.items))}

IsZero(d, o) == \A i \in 1 .. Word : d[o + i] = 0
Length(d, o) == d[o + 1]
Version(d, o) == d[o + 2]

\* A parsed record, known by where it lies and what it says of itself.
UsnRecord(d, o) == [at |-> o, len |-> Length(d, o), version |-> Version(d, o)]

\* parse_usn_record_v2 and _v3 succeed on a slice as long as the record.
Parses(d, o) == /\ Version(d, o) \in {2, 3}
                /\ Length(d, o) >= MinLength[Version(d, o)]

-----------------------------------------------------------------------------
parse_usn_journal_StopsAtV4(d) ==
  LET walk[o \in 0 .. Len(d) + MaxRecord] ==
        IF o + Word > Len(d) THEN <<>>
        ELSE IF IsZero(d, o) \/ Length(d, o) \notin MinLength[4] .. MaxRecord
             THEN walk[o + Word]
        ELSE IF o + Length(d, o) > Len(d) \/ Version(d, o) = 4 THEN <<>>
        ELSE IF Parses(d, o)
             THEN <<UsnRecord(d, o)>> \o walk[o + Align(Length(d, o))]
        ELSE walk[o + Word]
  IN  walk[0]

\* parse_usn_journal: the records of an image held in memory, oldest first.
parse_usn_journal(d) ==
  LET walk[o \in 0 .. Len(d) + MaxRecord] ==
        IF o + Word > Len(d) THEN <<>>
        ELSE IF IsZero(d, o) \/ Length(d, o) \notin MinLength[4] .. MaxRecord
             THEN walk[o + Word]
        ELSE IF o + Length(d, o) > Len(d) THEN <<>>
        ELSE IF Parses(d, o)
             THEN <<UsnRecord(d, o)>> \o walk[o + Align(Length(d, o))]
        ELSE IF Version(d, o) = 4 THEN walk[o + Align(Length(d, o))]
        ELSE walk[o + Word]
  IN  walk[0]
=============================================================================
