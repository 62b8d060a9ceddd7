---------------------------- MODULE CodecStream ----------------------------
(***************************************************************************)
(* The compressing streams (lz4_stream.cpp, zstd_stream.cpp) between a        *)
(* writer or a reader, which borrows their buffer with Next and gives back    *)
(* with BackUp what it did not use, and the buffers of an HttpOutputStream or *)
(* HttpInputStream, whose connection may break or be cut.                     *)
(*                                                                         *)
(* The codecs are libraries.  A compressor keeps bytes back as it likes and   *)
(* puts out frames of blocks, each of the bytes it holds and, as it is cut    *)
(* by the buffers it is put into, of two symbols.                             *)
(***************************************************************************)
EXTENDS Naturals, Sequences

CONSTANTS
  InputSize,    \* the buffer that an output stream lends (mInputSize)
  SubSize,      \* the buffers of the HttpOutputStream
  WindowSize,   \* the buffer that an input stream lends (mOutputBufferSize)
  MaxBytes      \* how much the application writes (a bound)

CodecAssumption ==
  {InputSize, SubSize, WindowSize, MaxBytes} \subseteq Nat \ {0}

VARIABLES
  writer,   \* the compressing stream and what it has put in the buffer below it
  wire,     \* what the reader has yet to take from its connection
  phase,    \* how far the transfer is
  damaged,  \* whether the reader gets less than what a writer closed
  reader,   \* the decompressing stream
  got,      \* the bytes that the application got
  result    \* what its last read returned, or that it is reading

readVars == <<reader, got, result>>
vars == <<writer, wire, phase, damaged, readVars>>

-----------------------------------------------------------------------------
(* The compressing streams.  mInput is mInputBuffer up to mInputFilled, held  *)
(* what the compressor keeps back, sub the used part of the buffer below.     *)

FrameHead == <<"head", <<>>>>
FrameEnd == <<"end", <<>>>>

\* A block of bytes; there is none of no bytes.
Block(bytes) ==
  IF bytes = <<>> THEN <<>> ELSE <<<<"half", bytes>>, <<"block", bytes>>>>

Upto(s, n) == SubSeq(s, 1, IF n <= Len(s) THEN n ELSE Len(s))
After(s, n) == SubSeq(s, n + 1, Len(s))

\* What the compressor has not put out.
Pending(w) == w.held \o w.mInput

\* lz4 starts its frame when the stream is made, zstd before the first block.
Begin(w) == IF w.begun THEN <<>> ELSE <<FrameHead>>

\* Full buffers go to the connection, which may break.  zstd takes the next
\* buffer as soon as one is full, lz4 when it has more to put into it.
Put(w, symbols, eager) ==
  LET all  == w.sub \o symbols
      full == SubSize * ((IF eager \/ all = <<>> THEN Len(all) ELSE Len(all) - 1)
                           \div SubSize)
  IN  \/ /\ writer' = [w EXCEPT !.sub = After(all, full)]
         /\ wire' = wire \o Upto(all, full)
      \/ /\ full > 0
         /\ writer' = [w EXCEPT !.mFailed = TRUE]
         /\ \E n \in 0..(full - 1) : wire' = wire \o Upto(all, n)

\* The compressor takes the buffer, and puts out what it likes; in block mode
\* (of zstd) a whole frame.
CompressWith(w, n, ends) ==
  LET symbols == (IF n = 0 /\ ~ ends THEN <<>> ELSE Begin(w)) \o Block(Upto(Pending(w), n))
                   \o (IF ends THEN <<FrameEnd>> ELSE <<>>)
  IN  Put([w EXCEPT !.mInput = <<>>,
                    !.held = After(Pending(w), n),
                    !.begun = ~ ends /\ (@ \/ n > 0)],
          symbols, w.codec # "lz4")

\* CompressUpdate and Continue.
Compress(w) ==
  IF w.mBlockMode THEN CompressWith(w, Len(Pending(w)), TRUE)
  ELSE \E n \in 0..Len(Pending(w)) : CompressWith(w, n, FALSE)

Writing == phase = "writing" /\ ~ writer.mFailed

NextUncompressed ==
  /\ Writing
  /\ ~ writer.lent
  /\ writer' = [writer EXCEPT !.lent = TRUE, !.started = TRUE, !.mInput = <<>>]
  /\ UNCHANGED <<wire, phase, damaged, readVars>>

\* Next: what the buffer still has goes first.
NextOut ==
  LET lending == [writer EXCEPT !.lent = TRUE, !.started = TRUE]
  IN  /\ Writing
      /\ ~ writer.lent
      /\ IF writer.mInput = <<>> THEN writer' = lending /\ UNCHANGED wire
         ELSE Compress(lending)
      /\ UNCHANGED <<phase, damaged, readVars>>

\* The writer puts n bytes into the buffer and backs up the rest, which makes
\* zstd compress at once.
BackUpOut(n) ==
  LET bytes == [i \in 1..n |-> Len(writer.written) + i]
      filled == [writer EXCEPT !.lent = FALSE, !.mInput = bytes, !.written = @ \o bytes]
  IN  /\ Writing
      /\ writer.lent
      /\ Len(writer.written) + n <= MaxBytes
      /\ IF writer.codec = "lz4" \/ n \in {0, InputSize}
         THEN writer' = filled /\ UNCHANGED wire
         ELSE Compress(filled)
      /\ UNCHANGED <<phase, damaged, readVars>>

\* Close of lz4 and the destructor of zstd: the frame is finished, unless block
\* mode has finished it or no buffer was ever lent, and the rest of the buffer
\* below is backed up.  An exception goes no further than the log.
CloseOut ==
  LET ends == writer.codec = "lz4"
                \/ (IF writer.mBlockMode THEN writer.mInput # <<>> ELSE writer.started)
  IN  /\ Writing
      /\ ~ writer.lent
      /\ IF ends
         THEN Put([writer EXCEPT !.mInput = <<>>, !.held = <<>>, !.begun = FALSE],
                  Begin(writer) \o Block(Pending(writer)) \o <<FrameEnd>>, FALSE)
         ELSE UNCHANGED <<writer, wire>>
      /\ phase' = "completed"
      /\ UNCHANGED <<damaged, readVars>>

\* The HttpOutputStream sends what its buffer has, and the connection is closed.
CloseBelow ==
  /\ phase = "completed" \/ (phase = "writing" /\ writer.mFailed)
  /\ \/ ~ writer.mFailed /\ wire' = wire \o writer.sub /\ UNCHANGED writer
     \/ ~ writer.mFailed
        /\ writer' = [writer EXCEPT !.mFailed = TRUE]
        /\ \E n \in 0..Len(writer.sub) : wire' = wire \o Upto(writer.sub, n)
     \/ writer.mFailed /\ UNCHANGED <<writer, wire>>
  /\ phase' = "closed"
  /\ UNCHANGED <<damaged, readVars>>

\* What arrives may be cut.
Arrives ==
  /\ phase = "closed"
  /\ \E n \in 0..Len(wire) : wire' = Upto(wire, n)
  /\ damaged' = (wire' # wire \/ writer.mFailed)
  /\ phase' = "reading"
  /\ UNCHANGED <<writer, readVars>>

-----------------------------------------------------------------------------
(* The decompressing streams.  mInput is what mInputBuffer has left, window    *)
(* mOutputBuffer up to mOutputBufferFilled, held what the decompressor has     *)
(* decoded and had no room for, half the first symbol of a block.            *)

\* The decompressor puts what it has into the window, as far as there is room.
Gives(r, bytes) ==
  [r EXCEPT !.window = Upto(bytes, WindowSize),
            !.mOutputBufferRemains = Len(Upto(bytes, WindowSize)),
            !.held = After(bytes, WindowSize)]

\* It takes one more symbol of its input.
Decoded(r) ==
  LET symbol == Head(r.mInput)
      rest == [r EXCEPT !.mInput = Tail(@)]
  IN  CASE symbol = FrameHead -> Gives([rest EXCEPT !.begun = TRUE], <<>>)
        [] symbol = FrameEnd  -> Gives([rest EXCEPT !.begun = FALSE], <<>>)
        [] symbol[1] = "half" -> Gives([rest EXCEPT !.half = symbol[2]], <<>>)
        [] OTHER              -> Gives([rest EXCEPT !.half = <<>>], symbol[2])

\* A frame begins, has whole blocks, and ends.
Decodable(r) ==
  LET symbol == Head(r.mInput)
  IN  IF symbol = FrameHead THEN ~ r.begun
      ELSE /\ r.begun
           /\ r.half = IF symbol[1] = "block" THEN symbol[2] ELSE <<>>

LendFromStart(r) ==
  \E n \in 1..r.mOutputBufferRemains :
    /\ reader' = [r EXCEPT !.mOutputBufferRemains = @ - n]
    /\ got' = got \o Upto(r.window, n)
    /\ result' = "data"

\* Next lends what remains of the window; the caller takes some, and backs up
\* the rest.
Lend(r) ==
  LET from == Len(r.window) - r.mOutputBufferRemains
  IN  \E n \in 1..r.mOutputBufferRemains :
        /\ reader' = [r EXCEPT !.mOutputBufferRemains = @ - n]
        /\ got' = got \o SubSeq(r.window, from + 1, from + n)
        /\ result' = "data"

\* A Next that has nothing to lend is called again.
Decompress(r) ==
  IF r.held = <<>> /\ ~ Decodable(r)
  THEN result' = "exception" /\ UNCHANGED <<reader, got>>
  ELSE LET next == IF r.held # <<>> THEN Gives(r, r.held) ELSE Decoded(r)
       IN  IF next.mOutputBufferRemains > 0 THEN Lend(next)
           ELSE reader' = next /\ UNCHANGED <<got, result>>

Ended == reader' = [reader EXCEPT !.mFailed = TRUE] /\ result' = "end" /\ UNCHANGED got

\* Nothing more comes: zstd takes what its decompressor still has, unless the
\* frame is then at its end.
InputEnds ==
  LET last == Gives(reader, reader.held)
  IN  IF writer.codec = "lz4" \/ reader.held = <<>> \/ (last.held = <<>> /\ ~ reader.begun)
      THEN Ended
      ELSE Lend(last)

\* The application reads, until the end or an exception.
Read ==
  /\ phase = "reading"
  /\ result \in {"none", "data"}
  /\ result' = "reading"
  /\ UNCHANGED <<writer, wire, phase, damaged, reader, got>>

NextIn ==
  /\ result = "reading"
  /\ IF reader.mOutputBufferRemains > 0 THEN Lend(reader) /\ UNCHANGED wire
     ELSE IF reader.mInput # <<>> THEN Decompress(reader) /\ UNCHANGED wire
     ELSE IF wire = <<>> THEN InputEnds /\ UNCHANGED wire
     ELSE \E n \in 1..Len(wire) :
            /\ wire' = After(wire, n)
            /\ Decompress([reader EXCEPT !.mInput = Upto(wire, n)])
  /\ UNCHANGED <<writer, phase, damaged>>

-----------------------------------------------------------------------------

Init ==
  /\ \E codec \in {"lz4", "zstd"}, mBlockMode \in BOOLEAN :
       /\ codec = "lz4" => ~ mBlockMode
       /\ writer = [codec |-> codec, mBlockMode |-> mBlockMode, mFailed |-> FALSE,
                    lent |-> FALSE, started |-> FALSE, mInput |-> <<>>, held |-> <<>>,
                    begun |-> codec = "lz4",
                    sub |-> IF codec = "lz4" THEN <<FrameHead>> ELSE <<>>,
                    written |-> <<>>]
  /\ wire = <<>>
  /\ phase = "writing"
  /\ damaged = FALSE
  /\ reader = [mInput |-> <<>>, begun |-> FALSE, half |-> <<>>, held |-> <<>>,
               window |-> <<>>, mOutputBufferRemains |-> 0, mFailed |-> FALSE]
  /\ got = <<>>
  /\ result = "none"

Next ==
  \/ NextOut
  \/ \E n \in 0..InputSize : BackUpOut(n)
  \/ CloseOut
  \/ CloseBelow
  \/ Arrives
  \/ Read
  \/ NextIn

Spec == Init /\ [][Next]_vars

-----------------------------------------------------------------------------
(* Properties.                                                              *)

\* Whatever the buffers, the blocks and the connection do, the application gets
\* the bytes that were written, in their order and each once.
ReadsOnlyWritten ==
  \E n \in 0..Len(writer.written) : got = SubSeq(writer.written, 1, n)

\* What arrives as it was closed is decompressed to its end: none of it stays
\* in a buffer on either side.
WholeUnlessDamaged ==
  ~ damaged => /\ result # "exception"
               /\ result = "end" => got = writer.written
=============================================================================
