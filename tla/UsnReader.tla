----------------------------- MODULE UsnReader ------------------------------
(***************************************************************************)
(* UsnJournalReader (core/src/usn/reader.rs): the streaming iterator over a *)
(* journal too large for memory.                                            *)
(*                                                                         *)
(* buf is the filled part of the buffer (buf_len is its length).  The       *)
(* caller calls next() until it returns None, and again after an error.     *)
(***************************************************************************)
EXTENDS UsnJournal, FiniteSets

CONSTANTS ShortReads,  \* may Read::read return less than it was asked for?
          MaxErrors    \* bound: reads that fail

ASSUME ReaderAssumption == ShortReads \in BOOLEAN /\ MaxErrors \in Nat

VARIABLES image,       \* the items of the file and how much of it is cut off
          buf, buf_offset, stream_pos, done,
          record_len,
          pc,          \* where in next() the reader is, or "end"
          out,         \* records returned so far
          errors,      \* reads that failed
          reported     \* of these, how many next() returned to the caller

readerVars == <<buf, buf_offset, stream_pos, done>>
vars == <<image, readerVars, record_len, pc, out, errors, reported>>

data == Image(image.items, image.cut)
total_size == Len(data)

-----------------------------------------------------------------------------
Init ==
  /\ image \in Images
  /\ buf = <<>>
  /\ buf_offset = 0
  /\ stream_pos = 0
  /\ done = FALSE
  /\ record_len = 0
  /\ pc = "next"
  /\ out = <<>>
  /\ errors = 0
  /\ reported = 0

\* How many cells one call of Read::read may return, asked for n.
ReadSizes(n) == LET most == IF n < total_size - stream_pos THEN n
                            ELSE total_size - stream_pos
                IN  IF ShortReads THEN 1 .. most ELSE {most}

\* The part of the buffer fill_buffer keeps.
Unread == IF 0 < buf_offset /\ buf_offset < Len(buf)
          THEN SubSeq(buf, buf_offset + 1, Len(buf))
          ELSE <<>>

\* The early return of fill_buffer: nothing is left to read.
AtEnd == stream_pos >= total_size

\* fill_buffer returns Ok(false), Ok(true) or Err.
FillEnds ==
  /\ AtEnd
  /\ done' = TRUE
  /\ UNCHANGED <<buf, buf_offset, stream_pos>>

FillReads ==
  /\ ~AtEnd
  /\ \E n \in ReadSizes(MaxRecord - Len(Unread)) :
       /\ buf' = Unread \o SubSeq(data, stream_pos + 1, stream_pos + n)
       /\ stream_pos' = stream_pos + n
  /\ buf_offset' = 0
  /\ UNCHANGED done

FillFails ==
  /\ ~AtEnd
  /\ errors < MaxErrors
  /\ errors' = errors + 1
  /\ buf' = Unread
  /\ buf_offset' = 0
  /\ UNCHANGED <<stream_pos, done>>

\* A failed fill_buffer whose error next() returns: the caller calls again.
Report ==
  /\ FillFails
  /\ reported' = reported + 1
  /\ pc' = "next"

\* The head of next(): stop when done, make sure that something is buffered.
Enter ==
  /\ pc = "next"
  /\ \/ /\ done
        /\ pc' = "end"
        /\ UNCHANGED <<readerVars, errors, reported>>
     \/ /\ ~done /\ buf_offset < Len(buf)
        /\ pc' = "zeros"
        /\ UNCHANGED <<readerVars, errors, reported>>
     \/ /\ ~done /\ buf_offset >= Len(buf)
        /\ \/ FillReads /\ pc' = "zeros" /\ UNCHANGED <<errors, reported>>
           \/ FillEnds /\ pc' = "end" /\ UNCHANGED <<errors, reported>>
           \/ Report
  /\ UNCHANGED <<image, record_len, out>>

\* One turn of skip_zeros.
SkipZeros ==
  /\ pc = "zeros"
  /\ \/ /\ buf_offset + Word <= Len(buf)
        /\ IF IsZero(buf, buf_offset)
           THEN buf_offset' = buf_offset + Word /\ UNCHANGED pc
           ELSE pc' = "header" /\ UNCHANGED buf_offset
        /\ UNCHANGED <<buf, stream_pos, done, errors, reported>>
     \/ /\ buf_offset + Word > Len(buf)
        /\ \/ FillReads /\ UNCHANGED <<pc, errors, reported>>
           \/ FillEnds /\ pc' = "end" /\ UNCHANGED <<errors, reported>>
           \/ Report
  /\ UNCHANGED <<image, record_len, out>>

\* record_len is read from the buffer.  It must be the length of some record,
\* and the record must all be in the buffer, after one fill_buffer if need be.
\* An error of that fill_buffer is dropped.
Header ==
  /\ pc = "header"
  /\ record_len' = Length(buf, buf_offset)
  /\ \/ /\ record_len' \notin Word .. MaxRecord
        /\ pc' = "resync"
        /\ UNCHANGED <<readerVars, errors>>
     \/ /\ record_len' \in Word .. MaxRecord
        /\ buf_offset + record_len' <= Len(buf)
        /\ pc' = "record"
        /\ UNCHANGED <<readerVars, errors>>
     \/ /\ record_len' \in Word .. MaxRecord
        /\ buf_offset + record_len' > Len(buf)
        /\ \/ /\ FillReads
              /\ pc' = IF record_len' <= Len(buf') THEN "record" ELSE "resync"
              /\ UNCHANGED errors
           \/ FillEnds /\ pc' = "resync" /\ UNCHANGED errors
           \/ FillFails /\ pc' = "resync"
  /\ UNCHANGED <<image, out, reported>>

Resync_Stuck ==
  /\ pc = "resync"
  /\ pc' = "next"
  /\ UNCHANGED <<image, readerVars, record_len, out, errors, reported>>

Resync_DropsBuffer ==
  /\ pc = "resync"
  /\ buf_offset' = Len(buf)
  /\ pc' = "next"
  /\ UNCHANGED <<image, buf, stream_pos, done, record_len, out, errors, reported>>

\* Skip a word and call next() again.
Resync ==
  /\ pc = "resync"
  /\ buf_offset' = buf_offset + Word
  /\ pc' = "next"
  /\ UNCHANGED <<image, buf, stream_pos, done, record_len, out, errors, reported>>

\* The record at buf_offset and its place in the file.
Found == [UsnRecord(buf, buf_offset) EXCEPT !.at = @ + stream_pos - Len(buf)]

Record_V2Only ==
  /\ pc = "record"
  /\ buf_offset' = buf_offset + Align(record_len)
  /\ out' = IF Parses(buf, buf_offset) /\ Version(buf, buf_offset) = 2
            THEN Append(out, Found) ELSE out
  /\ pc' = "next"
  /\ UNCHANGED <<image, buf, stream_pos, done, record_len, errors, reported>>

\* Step over the record, whatever its version; return it if it parses.
Record ==
  /\ pc = "record"
  /\ buf_offset' = buf_offset + Align(record_len)
  /\ out' = IF Parses(buf, buf_offset) THEN Append(out, Found) ELSE out
  /\ pc' = "next"
  /\ UNCHANGED <<image, buf, stream_pos, done, record_len, errors, reported>>

Drained == pc = "end" /\ UNCHANGED vars

Next == Enter \/ SkipZeros \/ Header \/ Resync \/ Record \/ Drained

\* The caller drains the iterator; next() runs without waiting for anyone.
Spec == Init /\ [][Next]_vars /\ WF_vars(Next)

-----------------------------------------------------------------------------
\* The records written to the file whose bytes it still holds, in order.
Written ==
  LET is == image.items
      whole == {i \in DOMAIN is :
                  /\ is[i][2] \in {2, 3} /\ is[i][1] <= Len(is[i])
                  /\ OffsetOf(is, i) + is[i][1] <= total_size}
  IN  [n \in 1 .. Cardinality(whole) |->
         LET i == CHOOSE i \in whole : Cardinality({j \in whole : j <= i}) = n
         IN  [at |-> OffsetOf(is, i), len |-> is[i][1], version |-> is[i][2]]]

\* No item but the last, which may be cut off, is damaged.
Intact ==
  \A i \in DOMAIN image.items :
    LET c == image.items[i]
    IN  \/ \A k \in DOMAIN c : c[k] = 0
        \/ /\ c[2] \in 2 .. 4 /\ c[1] \in MinLength[c[2]] .. MaxRecord
           /\ Len(c) = Align(c[1])

\* "decoding each USN_RECORD_V2/V3 it finds" (reader.rs): of a journal made of
\* gaps and records, the iterator returns every record the file holds, once
\* and in order, wherever the buffer's ends fall and wherever the file ends.  So
\* it does when reads fail, provided next() returned the errors to the caller.
StreamComplete == pc = "end" /\ Intact /\ reported = errors => out = Written

\* The bulk parser returns the same.
BulkComplete == pc = "end" /\ Intact => parse_usn_journal(data) = Written

\* What a reader with the whole file in memory would return, by the stream
\* reader's own rules; resync says what it does at a length that runs past the
\* end of the file: skip a word, or stop.
Unbuffered(resync) ==
  LET d == data
      walk[o \in 0 .. Len(d) + MaxRecord] ==
        IF o + Word > Len(d) THEN <<>>
        ELSE IF IsZero(d, o) \/ Length(d, o) \notin Word .. MaxRecord
             THEN walk[o + Word]
        ELSE IF o + Length(d, o) > Len(d)
             THEN IF resync THEN walk[o + Word] ELSE <<>>
        ELSE (IF Parses(d, o) THEN <<UsnRecord(d, o)>> ELSE <<>>)
             \o walk[o + Align(Length(d, o))]
  IN  walk[0]

\* Buffering is transparent, on damaged journals too: what is returned does not
\* depend on where the buffer's ends fall, except that after a length that runs
\* past the end of the file the reader may go on looking or may stop.
BufferTransparent ==
  pc = "end" /\ errors = 0 => /\ IsPrefix(out, Unbuffered(TRUE))
                             /\ IsPrefix(Unbuffered(FALSE), out)

\* Draining the iterator comes to an end, whatever the file holds.
Terminates == <>(pc = "end")
=============================================================================
