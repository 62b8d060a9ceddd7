----------------------------- MODULE VolumeFile -----------------------------
(***************************************************************************)
(* A file of a volume through the MaxStorage API: the stream that writes it  *)
(* (volume_write_stream.cpp), by itself or in a session that commits it      *)
(* (volume_write_session.cpp), and the stream that reads a range of it       *)
(* (volume_read_stream.cpp).                                                *)
(*                                                                         *)
(* Every Write is a request of its own, and so is every Read, which asks for *)
(* all of the range that is left and takes from the answer what its buffer   *)
(* holds.  The frames of an answer are those of VolumeStream: here only the  *)
(* chunk matters, of which one Read of the frames gives at most the rest.    *)
(***************************************************************************)
EXTENDS Integers, SequencesExt

CONSTANTS
  ChunkSize,  \* data in a chunk of the service's answer
  MaxData,    \* bytes of the file (a bound)
  MaxRead,    \* the longest buffer (a bound)
  MaxFaults   \* requests that fail (a bound)

FileAssumption ==
  /\ {ChunkSize, MaxRead} \subseteq Nat \ {0}
  /\ {MaxData, MaxFaults} \subseteq Nat

VARIABLES
  inSession,  \* whether the streams belong to sessions
  service,    \* the stream's file, and the published one
  writer,     \* the VolumeWriteStreamImpl, and what its caller wrote
  reader,     \* the VolumeReadStreamImpl, and what its caller read
  faults      \* requests that failed

vars == <<inSession, service, writer, reader, faults>>

First(s, n) == SubSeq(s, 1, IF n < Len(s) THEN n ELSE Len(s))

From(s, n) == SubSeq(s, n + 1, Len(s))

Faulty == faults < MaxFaults /\ faults' = faults + 1

-----------------------------------------------------------------------------
(* VolumeWriteStreamImpl.                                                   *)

\* The bytes that the caller writes next, again if a Write threw.
NextBytes(n) == [i \in 1..n |-> Len(writer.written) + i]

Threw(w) == [w EXCEPT !.threw = TRUE]

Reopened(w, s) == [s EXCEPT !.file = <<>>]

\* CreateWriteStream, once: the service starts a file.
Opened(w, s) ==
  IF w.mStreamId THEN s ELSE [s EXCEPT !.file = <<>>]

\* A request to write that fails may have left the bytes or the first of them.
Write(n) ==
  /\ writer.use = "used" /\ ~ writer.mClosed
  /\ Len(writer.written) + n <= MaxData
  /\ LET opened == Opened(writer, service)
         w == [writer EXCEPT !.mStreamId = TRUE]
     IN  \/ /\ service.status = "normal"
            /\ service' = [opened EXCEPT !.file = @ \o NextBytes(n)]
            /\ writer' = [w EXCEPT !.written = @ \o NextBytes(n)]
            /\ UNCHANGED faults
         \/ /\ Faulty
            /\ writer' = Threw(w)
            /\ \E k \in 0..n : service' = [opened EXCEPT !.file = @ \o NextBytes(k)]
         \/ /\ Faulty \/ (service.status # "normal" /\ UNCHANGED faults)
            /\ writer' = Threw(writer)
            /\ UNCHANGED service
  /\ UNCHANGED <<inSession, reader>>

\* The service takes nothing more for a file that it has published.
Published(s) == [s EXCEPT !.published = TRUE, !.content = s.file, !.status = "closed"]

Closable == writer.mStreamId /\ service.status = "normal"

\* Close, by the caller or the destructor, from which an exception ends the
\* program.  A stream outside a session asks the service to close it, also when
\* no Write has given it an id; in a session nothing is asked.
CloseStream(by) ==
  /\ writer.use = "used" /\ ~ writer.mClosed
  /\ LET closed == [writer EXCEPT !.mClosed = TRUE,
                                  !.use = IF by = "destructor" THEN "destroyed" ELSE @]
         failed == [Threw(writer) EXCEPT !.use = IF by = "destructor" THEN "terminated" ELSE @]
     IN  IF inSession THEN writer' = closed /\ UNCHANGED <<service, faults>>
         ELSE \/ /\ Closable
                 /\ service' = Published(service)
                 /\ writer' = closed
                 /\ UNCHANGED faults
              \/ /\ Closable /\ Faulty
                 /\ service' \in {service, Published(service)}
                 /\ writer' = failed
              \/ /\ ~ Closable
                 /\ writer' = failed
                 /\ UNCHANGED <<service, faults>>
  /\ UNCHANGED <<inSession, reader>>

CommitSession ==
  /\ inSession
  /\ service.status = "normal"
  /\ \/ service' = Published(service) /\ UNCHANGED <<writer, faults>>
     \/ /\ Faulty
        /\ service' \in {service, Published(service)}
        /\ writer' = Threw(writer)
  /\ UNCHANGED <<inSession, reader>>

AbortSession ==
  /\ inSession
  /\ service.status = "normal"
  /\ service' = [service EXCEPT !.status = "canceled"]
  /\ UNCHANGED <<inSession, writer, reader, faults>>

-----------------------------------------------------------------------------
(* VolumeReadStreamImpl.                                                    *)

\* CreateReadStream asks for the length of the file, once.  Without a count, or
\* with an offset beyond the end, it counts the whole file from the offset.
Counted(r) ==
  LET length == Len(service.content)
      rest == length - r.mOffset
  IN  IF r.mStreamId THEN r
      ELSE [r EXCEPT !.mStreamId = TRUE,
                     !.mCount = IF @ > 0 /\ rest > 0 THEN IF @ < rest THEN @ ELSE rest
                                ELSE length]

\* The caller may read on after an exception, not after the end.
CanRead ==
  /\ service.published
  /\ reader.pc = "idle" /\ ~ reader.mClosed
  /\ reader.result # "end"

\* What the service answers: the range that is left.
Answer(r) ==
  LET rest == From(service.content, r.mOffset)
  IN  IF r.mCount > 0 THEN First(rest, r.mCount) ELSE rest

Longest(r, len) == IF len > r.longest THEN len ELSE r.longest

Thrown(r) == [r EXCEPT !.result = "exception", !.threw = TRUE]

\* Each Read opens an input stream at the offset where the last one stopped.  At
\* the end of the file the service may refuse that.
Read(len) ==
  /\ CanRead
  /\ LET r == Counted(reader)
     IN  \/ /\ r.mCount = 0
            /\ reader' = [r EXCEPT !.result = "end"]
            /\ UNCHANGED faults
         \/ /\ r.mCount # 0
            /\ reader' = [r EXCEPT !.pc = "reading", !.input = Answer(r), !.inChunk = 0,
                                   !.size = IF r.mCount > 0 /\ r.mCount < len THEN r.mCount ELSE len,
                                   !.total = 0, !.buf = <<>>, !.longest = Longest(r, len)]
            /\ UNCHANGED faults
         \/ /\ r.mCount # 0
            /\ r.mOffset >= Len(service.content)
            /\ reader' = Thrown(r)
            /\ UNCHANGED faults
         \/ /\ Faulty
            /\ \/ ~ reader.mStreamId /\ reader' = Thrown(reader)
               \/ r.mCount # 0 /\ reader' = Thrown(r)
  /\ UNCHANGED <<inSession, service, writer>>

\* What the caller finds in its buffer: as many bytes as Read returned, of which
\* those that no piece covered are what was there before.
Found(r) == [i \in 1..r.total |-> IF i <= Len(r.buf) THEN r.buf[i] ELSE 0]

Returned(r) ==
  [r EXCEPT !.pc = "idle", !.input = <<>>, !.size = 0, !.total = 0, !.buf = <<>>, !.inChunk = 0,
            !.got = @ \o Found(r),
            !.result = IF r.total = 0 THEN "end" ELSE "data"]

ReadPieceOffsetKept ==
  /\ reader.pc = "reading"
  /\ reader.size > 0
  /\ reader.input # <<>>
  /\ LET inChunk == reader.inChunk % ChunkSize
         piece == First(First(reader.input, ChunkSize - inChunk), reader.size)
         n == Len(piece)
     IN  reader' = [reader EXCEPT !.input = From(@, n), !.inChunk = inChunk + n,
                                  !.buf = piece \o From(@, n),
                                  !.total = @ + n, !.size = @ - n,
                                  !.mCount = IF @ > 0 THEN @ - n ELSE @]
  /\ UNCHANGED <<inSession, service, writer, faults>>

\* Each piece goes to the start of the buffer.
ReadPiece ==
  /\ reader.pc = "reading"
  /\ reader.size > 0
  /\ reader.input # <<>>
  /\ LET inChunk == reader.inChunk % ChunkSize
         piece == First(First(reader.input, ChunkSize - inChunk), reader.size)
         n == Len(piece)
     IN  reader' = [reader EXCEPT !.input = From(@, n), !.inChunk = inChunk + n,
                                  !.buf = piece \o From(@, n),
                                  !.total = @ + n, !.size = @ - n,
                                  !.mCount = IF @ > 0 THEN @ - n ELSE @,
                                  !.mOffset = @ + n]
  /\ UNCHANGED <<inSession, service, writer, faults>>

ReadReturns ==
  /\ reader.pc = "reading"
  /\ reader.size = 0 \/ reader.input = <<>>
  /\ reader' = Returned(reader)
  /\ UNCHANGED <<inSession, service, writer, faults>>

\* A connection that breaks between two chunks looks like the end; anywhere else,
\* and when what arrives is damaged, the frames throw, and the caller does not
\* learn of the pieces that Read had taken.
ReadBreaks ==
  /\ reader.pc = "reading"
  /\ reader.size > 0
  /\ reader.inChunk % ChunkSize = 0 \/ reader.input = <<>>
  /\ Faulty
  /\ \/ reader' = [Returned(reader) EXCEPT !.broke = TRUE]
     \/ reader' = Thrown([Returned(reader) EXCEPT !.got = reader.got])
  /\ UNCHANGED <<inSession, service, writer>>

CloseReader ==
  /\ reader.pc = "idle" /\ ~ reader.mClosed
  /\ service.published
  /\ reader' = [reader EXCEPT !.mClosed = TRUE]
  /\ UNCHANGED <<inSession, service, writer, faults>>

-----------------------------------------------------------------------------

\* The range that the reader is built for; without a count, -1.
Ranges == (0..(MaxData + 1)) \X ({-1} \cup 1..(MaxData + 1))

InitWith(range, session) ==
  /\ inSession = session
  /\ service = [file |-> <<>>, published |-> FALSE, content |-> <<>>, status |-> "normal"]
  /\ writer = [mStreamId |-> FALSE, mClosed |-> FALSE, written |-> <<>>, threw |-> FALSE,
               use |-> "used"]
  /\ reader = [mStreamId |-> FALSE, mOffset |-> range[1], mCount |-> range[2],
               mClosed |-> FALSE, range |-> range, pc |-> "idle", input |-> <<>>,
               inChunk |-> 0, size |-> 0, total |-> 0, buf |-> <<>>,
               got |-> <<>>, result |-> "none", longest |-> 0, broke |-> FALSE, threw |-> FALSE]
  /\ faults = 0

Init == \E range \in Ranges, session \in BOOLEAN : InitWith(range, session)

WriterStep ==
  \/ \E n \in 0..MaxData : Write(n)
  \/ \E by \in {"caller", "destructor"} : CloseStream(by)
  \/ CommitSession
  \/ AbortSession

ReadStep == ReadPiece \/ ReadReturns \/ ReadBreaks

Next ==
  \/ WriterStep
  \/ \E len \in 1..MaxRead : Read(len)
  \/ ReadStep
  \/ CloseReader

Spec == Init /\ [][Next]_vars

-----------------------------------------------------------------------------
(* Properties.                                                              *)

Wanted ==
  LET rest == From(service.content, reader.range[1])
  IN  IF reader.range[2] > 0 THEN First(rest, reader.range[2]) ELSE rest

\* What a file holds once it is published is what was written, in order; only
\* what a Write that threw has left may be there besides.
FileHoldsWritten ==
  service.published =>
    /\ ~ writer.threw => service.content = writer.written
    /\ \A i, j \in DOMAIN writer.written : i < j =>
         \E p, q \in DOMAIN service.content :
           p < q /\ service.content[p] = i /\ service.content[q] = j

\* A caller whose buffer is no longer than a chunk reads the range in order, from
\* its start, until a Read throws and whatever connections break; and to its end
\* unless one broke.
ReadsInOrder ==
  reader.longest <= ChunkSize /\ ~ reader.threw =>
    /\ IsPrefix(reader.got, Wanted)
    /\ reader.result = "end" /\ ~ reader.broke => reader.got = Wanted

\* Until a Read throws, the caller reads what the file holds, whatever its buffer.
ReadsTheFile == ~ reader.threw => IsPrefix(reader.got, Wanted)
=============================================================================
