---------------------------- MODULE BufferedRead ----------------------------
(***************************************************************************)
(* The buffered readers of a download: BufferRecordReader                   *)
(* (record_reader.cpp) and BufferArrowRecordReader (arrow_record_reader.cpp) *)
(* read a range of the records of a download in requests of limited size,   *)
(* and ReadWithRetry (util.h) calls their Read again when it throws.  The    *)
(* caller reads until there is nothing more.                                *)
(*                                                                         *)
(* Record n is the one at offset n of the download.                         *)
(***************************************************************************)
EXTENDS Naturals, Sequences, SequencesExt

CONSTANTS
  Total,         \* records of the download
  BufferCounts,  \* values of bufferRecordCount
  RetryTimes,    \* the argument of ReadWithRetry
  MaxFaults      \* how many requests fail (a bound)

ASSUME BufferedReadAssumption ==
  {Total, RetryTimes, MaxFaults} \cup BufferCounts \subseteq Nat

VARIABLES
  format,         \* which of the readers it is
  opened,         \* the records it was opened for and bufferRecordCount
  mStart,         \* the next to request
  mCount,         \* how many are left to request
  mRecordBuffer,  \* those that came but were not yet returned
  attempt,        \* the try of the running ReadWithRetry, from 1; 0 outside
  read,           \* the records returned so far
  result,         \* what the last call of ReadWithRetry brought
  broken,         \* the records of answers that broke, which were not read
  faults          \* requests that may yet fail

bufferVars == <<mStart, mCount, mRecordBuffer>>
vars == <<format, opened, bufferVars, attempt, read, result, broken, faults>>

Lesser(a, b) == IF a < b THEN a ELSE b

\* What the service sends of n records from the given one on.
Served(from, n) ==
  IF from >= Total THEN <<>>
  ELSE [i \in 1..Lesser(n, Total - from) |-> from + i - 1]

Wanted == Served(opened.start, opened.count)

-----------------------------------------------------------------------------
(* ReadWithRetry.                                                           *)

Call ==
  /\ attempt = 0
  /\ result # "end"
  /\ attempt' = 1
  /\ UNCHANGED <<format, opened, bufferVars, read, result, broken, faults>>

Returns(records) ==
  /\ attempt' = 0
  /\ read' = read \o records
  /\ result' = "records"

\* Read returned no record.
ReturnsNothing ==
  /\ attempt' = 0
  /\ result' = "end"
  /\ UNCHANGED read

\* Read threw: another try, unless this was the last.
Throws ==
  /\ IF attempt > RetryTimes
     THEN attempt' = 0 /\ result' = "thrown"
     ELSE attempt' = attempt + 1 /\ UNCHANGED result
  /\ UNCHANGED read

Fault == faults > 0 /\ faults' = faults - 1

-----------------------------------------------------------------------------
(* Both readers: a request that is refused, and the end of the range.       *)

CanRequest == attempt > 0 /\ mRecordBuffer = <<>> /\ mCount > 0

OpenFailsAdvanced ==
  /\ CanRequest
  /\ Fault
  /\ mStart' = mStart + 1
  /\ mCount' = mCount - 1
  /\ Throws
  /\ UNCHANGED <<format, opened, mRecordBuffer, broken>>

OpenFails ==
  /\ CanRequest
  /\ Fault
  /\ Throws
  /\ UNCHANGED <<format, opened, bufferVars, broken>>

NothingLeft ==
  /\ attempt > 0
  /\ mRecordBuffer = <<>>
  /\ mCount = 0
  /\ ReturnsNothing
  /\ UNCHANGED <<format, opened, bufferVars, broken, faults>>

-----------------------------------------------------------------------------
(* BufferRecordReader.                                                      *)

RecordLimit == IF opened.limit = 0 THEN 1 ELSE opened.limit

RecordsRequested == Lesser(mCount, RecordLimit)

AdvanceByLimit ==
  /\ mStart' = mStart + RecordLimit
  /\ mCount' = mCount - RecordLimit

\* ReadData is done with the range as soon as its request is answered.
Advance ==
  /\ mStart' = mStart + RecordsRequested
  /\ mCount' = mCount - RecordsRequested

\* It reads until the buffer is full or the answer at its end.
ReadData ==
  /\ format = "record"
  /\ CanRequest
  /\ Advance
  /\ mRecordBuffer' = Served(mStart, RecordsRequested)
  /\ IF mRecordBuffer' = <<>> THEN ReturnsNothing
     ELSE UNCHANGED <<attempt, read, result>>
  /\ UNCHANGED <<format, opened, broken, faults>>

ReadDataBreaksUnadvanced(n) ==
  LET records == Served(mStart, RecordsRequested)
  IN  /\ format = "record"
      /\ CanRequest
      /\ Fault
      /\ n <= Len(records)
      /\ n < RecordLimit
      /\ mRecordBuffer' = SubSeq(records, 1, n)
      /\ broken' = broken \cup ToSet(SubSeq(records, n + 1, Len(records)))
      /\ Throws
      /\ UNCHANGED <<format, opened, mStart, mCount>>

\* The answer breaks after n records; behind the last one that fits in the
\* buffer nothing is read.
ReadDataBreaks(n) ==
  LET records == Served(mStart, RecordsRequested)
  IN  /\ format = "record"
      /\ CanRequest
      /\ Fault
      /\ n <= Len(records)
      /\ n < RecordLimit
      /\ Advance
      /\ mRecordBuffer' = SubSeq(records, 1, n)
      /\ broken' = broken \cup ToSet(SubSeq(records, n + 1, Len(records)))
      /\ Throws
      /\ UNCHANGED <<format, opened>>

Pop ==
  /\ attempt > 0
  /\ mRecordBuffer # <<>>
  /\ Returns(<<Head(mRecordBuffer)>>)
  /\ mRecordBuffer' = Tail(mRecordBuffer)
  /\ UNCHANGED <<format, opened, mStart, mCount, broken, faults>>

-----------------------------------------------------------------------------
(* BufferArrowRecordReader: it returns the batch it reads at once.          *)

RowsRequested ==
  IF opened.limit = 0 THEN mCount ELSE Lesser(mCount, opened.limit)

AdvanceAsRequested(rows) ==
  /\ mStart' = mStart + RowsRequested
  /\ mCount' = mCount - RowsRequested

AdvanceAsRead(rows) ==
  /\ mStart' = mStart + rows
  /\ mCount' = mCount - rows

\* The service may send less than was asked for, not to exceed rawSize.
ReadBatch(rows) ==
  LET records == Served(mStart, RowsRequested)
  IN  /\ format = "arrow"
      /\ CanRequest
      /\ rows <= Len(records)
      /\ IF records = <<>>
         THEN ReturnsNothing /\ UNCHANGED bufferVars
         ELSE /\ rows > 0
              /\ AdvanceAsRead(rows)
              /\ Returns(SubSeq(records, 1, rows))
              /\ UNCHANGED mRecordBuffer
      /\ UNCHANGED <<format, opened, broken, faults>>

\* A batch that breaks is an exception, or, with the checksum of its last
\* chunk wrong, the end (ArrowStream): then ReadData returns null, its caller
\* stops, and what lies behind this answer is never requested.
ReadBatchBreaks ==
  /\ format = "arrow"
  /\ CanRequest
  /\ Fault
  /\ \/ Throws /\ UNCHANGED broken
     \/ ReturnsNothing /\ broken' = broken \cup ToSet(Served(mStart, RowsRequested))
  /\ UNCHANGED <<format, opened, bufferVars>>

-----------------------------------------------------------------------------

Init ==
  /\ format \in {"record", "arrow"}
  /\ opened \in [start : 0..Total, count : 0..(Total + 1), limit : BufferCounts]
  /\ mStart = opened.start
  /\ mCount = opened.count
  /\ mRecordBuffer = <<>>
  /\ attempt = 0
  /\ read = <<>>
  /\ result = "none"
  /\ broken = {}
  /\ faults = MaxFaults

Next ==
  \/ Call
  \/ OpenFails
  \/ NothingLeft
  \/ ReadData
  \/ \E n \in 0..Total : ReadDataBreaks(n) \/ ReadBatch(n)
  \/ Pop
  \/ ReadBatchBreaks

\* The caller goes on until there is nothing more, also after an exception.
Spec == Init /\ [][Next]_vars

-----------------------------------------------------------------------------
(* Properties.                                                              *)

\* Every variable has its type; the unsigned mCount never drops below 0.
TypeOK ==
  /\ format \in {"record", "arrow"}
  /\ mStart \in Nat /\ mCount \in Nat
  /\ mRecordBuffer \in Seq(Nat) /\ Len(mRecordBuffer) <= RecordLimit
  /\ attempt \in 0..(RetryTimes + 1)
  /\ read \in Seq(Nat)
  /\ result \in {"none", "records", "thrown", "end"}
  /\ broken \subseteq Nat
  /\ faults \in Nat

\* Over requests, retries and exceptions no record is returned twice, out of
\* its order, or from outside the range.
OrderedOnce ==
  /\ ToSet(read) \subseteq ToSet(Wanted)
  /\ \A i \in 2..Len(read) : read[i - 1] < read[i]

\* The arrow reader, which advances by what it got, leaves no gap.
NoGapInBatches == format = "arrow" => IsPrefix(read, Wanted)

\* At the end only records are missing whose answer broke after it had begun;
\* refused requests, retries and short answers cost none.  The arrow reader may
\* take a broken answer for the end and miss what lies behind it as well: then
\* the first record that is missing is one of the broken answer.
MissesOnlyBroken ==
  result = "end" =>
    IF format = "record" THEN ToSet(Wanted) \ ToSet(read) \subseteq broken
    ELSE Len(read) < Len(Wanted) => Wanted[Len(read) + 1] \in broken

\* With retries, every record of the range arrives, one after the other, as
\* download_test.cpp counts them.
EveryRecordRead == format = "record" /\ result = "end" => read = Wanted
=============================================================================
