---------------------------- MODULE ArrowStream ----------------------------
(***************************************************************************)
(* A transfer of arrow record batches: the ArrowOutputStream that frames    *)
(* them in chunks with checksums, a connection that may break or damage     *)
(* them, the ArrowInputStream that takes the frames apart                   *)
(* (arrow_http_stream.h), and the ArrowRecordReader above it.  The writer   *)
(* is an ArrowRecordWriter or ArrowRecordPack when the client uploads, and  *)
(* the service, which frames alike, when it downloads.                      *)
(***************************************************************************)
EXTENDS Framing

CONSTANTS
  ChunkSize,  \* data bytes of a chunk
  BatchSize,  \* data bytes of a record batch
  MaxData     \* data bytes of a transfer (a bound)

ArrowAssumption ==
  /\ ChunkSize \in Nat \ {0}
  /\ BatchSize \in Nat \ {0}
  /\ MaxData \in Nat

VARIABLES
  writer,   \* the ArrowOutputStream, and what it wrote
  wire,     \* what the reader has yet to take from its connection
  phase,    \* whether the transfer is "writing" or "reading"
  damaged,  \* whether what arrived is not what a whole transfer sends
  reader,   \* the ArrowInputStream
  missing,  \* data bytes the batch being read lacks
  batch,    \* those it has
  got,      \* the data of the batches that Read returned
  result    \* what Read returned last, or that it is reading

transferVars == <<wire, phase, damaged>>
readVars == <<missing, batch, got, result>>
vars == <<writer, transferVars, reader, readVars>>

-----------------------------------------------------------------------------
(* ArrowOutputStream.                                                       *)

\* The size of the chunks comes before the first data.
Sized(w) ==
  IF w.mIsWriteChunkSize THEN w
  ELSE [w EXCEPT !.out = @ \o SizeWord(ChunkSize), !.mIsWriteChunkSize = TRUE]

PutUnreset(w, x) ==
  LET chunk == Append(w.mChunkCrc, x)
      full == w.mOffset + 1 = ChunkSize
  IN  [w EXCEPT !.out = Append(@, x) \o (IF full THEN Checksum(chunk) ELSE <<>>),
                !.mOffset = IF full THEN 0 ELSE @ + 1,
                !.mChunkCrc = chunk,
                !.mGlobalCrc = Append(@, x)]

\* WriteChunk, byte by byte: its checksum follows a chunk that is full.
Put(w, x) ==
  LET chunk == Append(w.mChunkCrc, x)
      full == w.mOffset + 1 = ChunkSize
  IN  [w EXCEPT !.out = Append(@, x) \o (IF full THEN Checksum(chunk) ELSE <<>>),
                !.mOffset = IF full THEN 0 ELSE @ + 1,
                !.mChunkCrc = IF full THEN <<>> ELSE chunk,
                !.mGlobalCrc = Append(@, x)]

Write(n) ==
  LET after[i \in 0..n] == IF i = 0 THEN Sized(writer)
                           ELSE Put(after[i - 1], Datum(Len(writer.mGlobalCrc) + i))
  IN  /\ phase = "writing"
      /\ ~ writer.mIsGlobalCheck
      /\ Len(writer.mGlobalCrc) + n <= MaxData
      /\ writer' = after[n]
      /\ UNCHANGED <<transferVars, reader, readVars>>

\* ArrowRecordWriter::Close and ArrowRecordPack::Complete, after whole batches:
\* the checksum of all data comes last.
Flush ==
  /\ phase = "writing"
  /\ ~ writer.mIsGlobalCheck
  /\ Len(writer.mGlobalCrc) % BatchSize = 0
  /\ writer' = [writer EXCEPT !.out = @ \o Checksum(writer.mGlobalCrc),
                              !.mIsGlobalCheck = TRUE]
  /\ UNCHANGED <<transferVars, reader, readVars>>

\* The transfer arrives, perhaps after the writer's connection failed.
Arrives ==
  /\ phase = "writing"
  /\ wire' \in IF writer.mIsGlobalCheck THEN Arrivals(writer.out) ELSE {writer.out}
  /\ damaged' = (wire' # writer.out \/ ~ writer.mIsGlobalCheck)
  /\ phase' = "reading"
  /\ UNCHANGED <<writer, reader, readVars>>

-----------------------------------------------------------------------------
(* ArrowInputStream.  Its mBuffer is allocated once mCrcChunkSize is known;  *)
(* unread is the part of it from mPos to mSize.                             *)

IsEOFEarly(r) == r.mLastChunk

IsEOF(r) == r.mLastChunk /\ r.unread = <<>>

\* Read of the record reader returns false at the end and throws elsewhere.
Fails(r) ==
  /\ reader' = r
  /\ missing' = 0
  /\ batch' = <<>>
  /\ result' = IF IsEOF(r) THEN "end" ELSE "exception"
  /\ UNCHANGED got

\* The sizes that four bytes may be read as.
SizesOf(word) ==
  LET known == {n \in 0..ChunkSize : word = SizeWord(n)}
  IN  IF known # {} THEN known ELSE 0..(ChunkSize + 1)

Reading == phase = "reading" /\ result = "reading"

\* "Complete read."
AtEnd ==
  /\ Reading
  /\ IsEOF(reader)
  /\ Fails(reader)
  /\ UNCHANGED <<writer, transferVars>>

\* One Read of the connection is to give the whole size; it may give less.
ReadSize ==
  /\ Reading
  /\ ~ IsEOF(reader)
  /\ reader.mCrcChunkSize = 0
  /\ \E n \in 0..WordSize :
       /\ n <= Len(wire) /\ (n = 0 => wire = <<>>)
       /\ wire' = After(wire, n)
       /\ IF n < WordSize THEN Fails(reader)
          ELSE \E size \in SizesOf(Upto(wire, n)) :
                 IF size = 0 THEN Fails([reader EXCEPT !.mLastChunk = TRUE])
                 ELSE /\ reader' = [reader EXCEPT !.mCrcChunkSize = size]
                      /\ UNCHANGED readVars
  /\ UNCHANGED <<writer, phase, damaged>>

ReadChunkUnchecked ==
  LET size == reader.mCrcChunkSize + WordSize
      n == IF Len(wire) < size THEN Len(wire) ELSE size
      data == Upto(wire, n - WordSize)
  IN  /\ Reading
      /\ ~ IsEOF(reader)
      /\ reader.mCrcChunkSize > 0
      /\ reader.unread = <<>>
      /\ wire' = After(wire, n)
      /\ IF n < WordSize THEN Fails(reader)
         ELSE /\ reader' = [reader EXCEPT !.mGlobalCrc = @ \o data,
                                          !.mLastChunk = n < size,
                                          !.unread = data]
              /\ UNCHANGED readVars
      /\ UNCHANGED <<writer, phase, damaged>>

ReadChunkUncut ==
  LET size == reader.mCrcChunkSize + WordSize
      n == IF Len(wire) < size THEN Len(wire) ELSE size
      data == Upto(wire, n - WordSize)
      r == [reader EXCEPT !.mGlobalCrc = @ \o data, !.mLastChunk = n \in WordSize..(size - 1)]
      checked == IF n < size THEN r.mGlobalCrc ELSE data
  IN  /\ Reading
      /\ ~ IsEOF(reader)
      /\ reader.mCrcChunkSize > 0
      /\ reader.unread = <<>>
      /\ wire' = After(wire, n)
      /\ IF n >= WordSize /\ After(Upto(wire, n), n - WordSize) # Checksum(checked)
         THEN Fails(r)
         ELSE /\ reader' = [r EXCEPT !.unread = data]
              /\ UNCHANGED readVars
      /\ UNCHANGED <<writer, phase, damaged>>

\* ReadChunk takes the last four bytes it gets for a checksum: of the chunk if
\* that is full, of all data if it is not, for then it is the last.
ReadChunk ==
  LET size == reader.mCrcChunkSize + WordSize
      n == IF Len(wire) < size THEN Len(wire) ELSE size
      data == Upto(wire, n - WordSize)
      r == [reader EXCEPT !.mGlobalCrc = @ \o data, !.mLastChunk = n < size]
      checked == IF n < size THEN r.mGlobalCrc ELSE data
  IN  /\ Reading
      /\ ~ IsEOF(reader)
      /\ reader.mCrcChunkSize > 0
      /\ reader.unread = <<>>
      /\ wire' = After(wire, n)
      /\ IF n < WordSize THEN Fails(reader)
         ELSE IF After(Upto(wire, n), n - WordSize) # Checksum(checked) THEN Fails(r)
         ELSE /\ reader' = [r EXCEPT !.unread = data]
              /\ UNCHANGED readVars
      /\ UNCHANGED <<writer, phase, damaged>>

\* Read copies what the batch lacks or the chunk has.
Take ==
  LET n == IF Len(reader.unread) < missing THEN Len(reader.unread) ELSE missing
      taken == batch \o Upto(reader.unread, n)
  IN  /\ Reading
      /\ reader.unread # <<>>
      /\ reader' = [reader EXCEPT !.unread = After(@, n)]
      /\ missing' = missing - n
      /\ IF n < missing
         THEN batch' = taken /\ UNCHANGED <<got, result>>
         ELSE batch' = <<>> /\ got' = got \o taken /\ result' = "batch"
      /\ UNCHANGED <<writer, transferVars>>

\* ArrowRecordReader::Read.  After the end or an exception no caller reads on.
Read ==
  /\ phase = "reading"
  /\ result \in {"none", "batch"}
  /\ missing' = BatchSize
  /\ result' = "reading"
  /\ UNCHANGED <<writer, transferVars, reader, batch, got>>

-----------------------------------------------------------------------------

Init ==
  /\ writer = [out |-> <<>>, mOffset |-> 0, mChunkCrc |-> <<>>, mGlobalCrc |-> <<>>,
               mIsWriteChunkSize |-> FALSE, mIsGlobalCheck |-> FALSE]
  /\ wire = <<>>
  /\ phase = "writing"
  /\ damaged = FALSE
  /\ reader = [mCrcChunkSize |-> 0, mGlobalCrc |-> <<>>, unread |-> <<>>,
               mLastChunk |-> FALSE]
  /\ missing = 0
  /\ batch = <<>>
  /\ got = <<>>
  /\ result = "none"

ReadStep == AtEnd \/ ReadSize \/ ReadChunk \/ Take

Next ==
  \/ \E n \in 0..MaxData : Write(n)
  \/ Flush
  \/ Arrives
  \/ Read
  \/ ReadStep

Spec == Init /\ [][Next]_vars /\ WF_vars(ReadStep)

-----------------------------------------------------------------------------
(* Properties.                                                              *)

\* Whatever happens to the transfer, no byte reaches a batch that was not
\* written there: no damaged, lost or misplaced data, and no frame.
ReadsOnlyWritten ==
  \E n \in 0..Len(writer.mGlobalCrc) : got \o batch = Upto(writer.mGlobalCrc, n)

\* An undamaged transfer is read to its end and only there it ends; it throws
\* only if the connection gives its first four bytes in parts.
WholeUnlessDamaged ==
  ~ damaged =>
    /\ result = "end" => got = writer.mGlobalCrc
    /\ result = "exception" => reader.mCrcChunkSize = 0

\* Read returns: the loop that fills a buffer does not spin at the end of a
\* transfer, wherever it was cut.
ReadReturns == result = "reading" ~> result # "reading"

\* Read returns false only when there are no records left: the client counts
\* the rows it got until then (arrow_test.cpp).
EndsOnlyAfterAll == result = "end" => got = writer.mGlobalCrc
=============================================================================
