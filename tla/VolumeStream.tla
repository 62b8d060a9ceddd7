---------------------------- MODULE VolumeStream ----------------------------
(***************************************************************************)
(* A file of a volume on its way: the VolumeSerializer that frames it, a    *)
(* connection that may break or damage it, and the VolumeDeserializer that  *)
(* takes the frames apart (volume_serialize.cpp).  The serializer is the    *)
(* client's when it uploads and the service's, which frames alike, when it  *)
(* downloads.  The streams between serializer and connection keep the bytes *)
(* in order, so that pieces of any sizes amount to one sequence.            *)
(*                                                                         *)
(* One checksum runs over the chunk size and all data.  Where it stands     *)
(* after a chunk, it covers everything so far.                              *)
(***************************************************************************)
EXTENDS Framing

CONSTANTS
  ChunkSize,     \* GetVolumeSerializeChunkSize
  MaxChunkSize,  \* MAX_CHUNKSIZE
  MaxData,       \* bytes of a file (a bound)
  MaxRead        \* bytes asked for by one Read (a bound)

VolumeAssumption ==
  /\ {ChunkSize, MaxChunkSize, MaxRead} \subseteq Nat \ {0}
  /\ ChunkSize <= MaxChunkSize
  /\ MaxData \in Nat

VARIABLES
  writer,   \* the VolumeSerializer, the data it was given and what it wrote
  wire,     \* what the reader has yet to take from its connection
  phase,    \* whether the file is "writing", "closed" or "reading"
  damaged,  \* whether what arrived is not a whole transfer
  reader,   \* the VolumeDeserializer
  wanted,   \* the size that the running Read was asked for
  got,      \* the data that Read returned
  result    \* what Read returned last, or that it is reading

transferVars == <<wire, phase, damaged>>
readVars == <<wanted, got, result>>
vars == <<writer, transferVars, reader, readVars>>

-----------------------------------------------------------------------------
(* VolumeSerializer.                                                        *)

\* The first Write, even of nothing, writes the size of the chunks.
WithHeader(w) ==
  IF w.mIsHeaderCompleted THEN w
  ELSE [w EXCEPT !.out = @ \o SizeWord(ChunkSize), !.mCrc = @ \o SizeWord(ChunkSize),
                 !.mIsHeaderCompleted = TRUE]

\* Write, byte by byte: the checksum of a full chunk waits for the next byte.
Put(w, x) ==
  LET full == w.mChunkOffset = ChunkSize
  IN  [w EXCEPT !.out = Append(IF full THEN @ \o Checksum(w.mCrc) ELSE @, x),
                !.mCrc = Append(@, x),
                !.mChunkOffset = IF full THEN 1 ELSE @ + 1,
                !.data = Append(@, x)]

Write(n) ==
  LET after[i \in 0..n] == IF i = 0 THEN WithHeader(writer)
                           ELSE Put(after[i - 1], Datum(Len(writer.data) + i))
  IN  /\ phase = "writing"
      /\ Len(writer.data) + n <= MaxData
      /\ writer' = after[n]
      /\ UNCHANGED <<transferVars, reader, readVars>>

CloseShortChunk ==
  /\ phase = "writing"
  /\ writer' = IF writer.mChunkOffset \in {0, ChunkSize} THEN writer
               ELSE [writer EXCEPT !.out = @ \o Checksum(writer.mCrc)]
  /\ phase' = "closed"
  /\ UNCHANGED <<wire, damaged, reader, readVars>>

Close ==
  /\ phase = "writing"
  /\ writer' = IF writer.mChunkOffset = 0 THEN writer
               ELSE [writer EXCEPT !.out = @ \o Checksum(writer.mCrc)]
  /\ phase' = "closed"
  /\ UNCHANGED <<wire, damaged, reader, readVars>>

\* The transfer arrives, perhaps after the writer's connection failed.
Arrives ==
  /\ phase \in {"writing", "closed"}
  /\ wire' \in IF phase = "closed" THEN Arrivals(writer.out) ELSE {writer.out}
  /\ damaged' = (phase = "writing" \/ wire' # writer.out)
  /\ phase' = "reading"
  /\ UNCHANGED <<writer, reader, readVars>>

-----------------------------------------------------------------------------
(* VolumeDeserializer.                                                      *)

\* After the end or an exception no caller reads on.
Read(n) ==
  /\ phase = "reading"
  /\ result \in {"none", "data"}
  /\ wanted' = n
  /\ result' = "reading"
  /\ UNCHANGED <<writer, transferVars, reader, got>>

Reading == phase = "reading" /\ result = "reading"

Returns(how) == result' = how /\ UNCHANGED <<wanted, got>>

\* ReadInternal gives fewer bytes than asked for only when no more come.
ReadInternal(n) == Upto(wire, IF Len(wire) < n THEN Len(wire) ELSE n)

\* The sizes that the bytes may be read as.
SizesOf(word) ==
  IF word = SizeWord(ChunkSize) THEN {ChunkSize} ELSE 0..(MaxChunkSize + 1)

ReadHeader ==
  LET word == ReadInternal(WordSize)
  IN  /\ Reading
      /\ ~ reader.mIsHeaderCompleted
      /\ wire' = After(wire, Len(word))
      /\ IF Len(word) = 0
         THEN /\ reader' = [reader EXCEPT !.mIsHeaderCompleted = TRUE, !.mEOF = TRUE]
              /\ Returns("end")
         ELSE IF Len(word) < WordSize
         THEN /\ reader' = [reader EXCEPT !.mIsHeaderCompleted = TRUE]
              /\ Returns("exception")
         ELSE \E size \in SizesOf(word) :
                /\ reader' = [reader EXCEPT !.mIsHeaderCompleted = TRUE, !.mCrc = word,
                                            !.mChunkSize = size]
                /\ IF size \in 1..MaxChunkSize THEN UNCHANGED readVars
                   ELSE Returns("exception")
      /\ UNCHANGED <<writer, phase, damaged>>

\* ReadBuffer: of the data of a chunk, as much as fits.
TakeFrom(r) ==
  LET n == IF Len(r.unread) < wanted THEN Len(r.unread) ELSE wanted
  IN  /\ reader' = [r EXCEPT !.unread = After(@, n)]
      /\ got' = got \o Upto(r.unread, n)
      /\ result' = IF n = 0 THEN "end" ELSE "data"
      /\ UNCHANGED wanted

ReadBuffer ==
  /\ Reading
  /\ reader.unread # <<>>
  /\ TakeFrom(reader)
  /\ UNCHANGED <<writer, transferVars>>

Due == Reading /\ reader.mIsHeaderCompleted /\ reader.unread = <<>>

FillBufferUnchecked ==
  LET piece == ReadInternal(reader.mChunkSize + WordSize)
      data == Upto(piece, Len(piece) - WordSize)
  IN  /\ Due
      /\ wire' = After(wire, Len(piece))
      /\ IF Len(piece) < WordSize
         THEN UNCHANGED reader /\ Returns(IF piece = <<>> THEN "end" ELSE "exception")
         ELSE TakeFrom([reader EXCEPT !.mCrc = @ \o data, !.unread = data])
      /\ UNCHANGED <<writer, phase, damaged>>

FillBufferShortUnchecked ==
  LET size == reader.mChunkSize + WordSize
      piece == ReadInternal(size)
      data == Upto(piece, Len(piece) - WordSize)
      r == [reader EXCEPT !.mCrc = @ \o data, !.unread = data]
  IN  /\ Due
      /\ wire' = After(wire, Len(piece))
      /\ IF Len(piece) < WordSize
         THEN UNCHANGED reader /\ Returns(IF piece = <<>> THEN "end" ELSE "exception")
         ELSE IF Len(piece) = size /\ After(piece, Len(data)) # Checksum(r.mCrc)
         THEN reader' = r /\ Returns("exception")
         ELSE TakeFrom(r)
      /\ UNCHANGED <<writer, phase, damaged>>

\* The last four bytes that come are the checksum, of a full chunk or of the
\* last one.  It is compared when the data is already in the buffer.
FillBuffer ==
  LET piece == ReadInternal(reader.mChunkSize + WordSize)
      data == Upto(piece, Len(piece) - WordSize)
      r == [reader EXCEPT !.mCrc = @ \o data, !.unread = data]
  IN  /\ Due
      /\ wire' = After(wire, Len(piece))
      /\ IF piece = <<>>
         THEN reader' = [reader EXCEPT !.mEOF = TRUE] /\ Returns("end")
         ELSE IF Len(piece) < WordSize
         THEN UNCHANGED reader /\ Returns("exception")
         ELSE IF After(piece, Len(data)) # Checksum(r.mCrc)
         THEN reader' = r /\ Returns("exception")
         ELSE TakeFrom(r)
      /\ UNCHANGED <<writer, phase, damaged>>

-----------------------------------------------------------------------------

Init ==
  /\ writer = [out |-> <<>>, mChunkOffset |-> 0, mCrc |-> <<>>,
               mIsHeaderCompleted |-> FALSE, data |-> <<>>]
  /\ wire = <<>>
  /\ phase = "writing"
  /\ damaged = FALSE
  /\ reader = [mIsHeaderCompleted |-> FALSE, mChunkSize |-> 0, mCrc |-> <<>>,
               unread |-> <<>>, mEOF |-> FALSE]
  /\ wanted = 0
  /\ got = <<>>
  /\ result = "none"

ReadStep == ReadHeader \/ ReadBuffer \/ FillBuffer

Next ==
  \/ \E n \in 0..MaxData : Write(n)
  \/ Close
  \/ Arrives
  \/ \E n \in 1..MaxRead : Read(n)
  \/ ReadStep

Spec == Init /\ [][Next]_vars

-----------------------------------------------------------------------------
(* Properties.                                                              *)

\* Whatever the connection does, a reader returns only bytes that were written,
\* in their order: a damaged chunk is never returned, not even in part.
ReadsOnlyWritten == \E n \in 0..Len(writer.data) : got = Upto(writer.data, n)

\* An undamaged file never fails and is read to its last byte, whether it ends
\* with a chunk, in the middle of one or is empty.
WholeUnlessDamaged ==
  ~ damaged => result # "exception" /\ (result = "end" => got = writer.data)

\* A connection that breaks is noticed unless it breaks between two chunks:
\* what Read reports as the end is the end or the end of a full chunk.
MissesOnlyChunks ==
  result = "end" => got = writer.data \/ Len(got) % ChunkSize = 0
=============================================================================
