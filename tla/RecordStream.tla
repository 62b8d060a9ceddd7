---------------------------- MODULE RecordStream ----------------------------
(***************************************************************************)
(* A transfer of table records: the ProtoSerializer and the HttpOutputStream *)
(* below it (serialize.cpp), the RecordWriter above them, a connection that  *)
(* may break or damage what it carries, and the ProtoDeserializer of the     *)
(* other side.  The writer is the client when it uploads and the service,    *)
(* which frames alike, when it downloads; the service answers an upload with *)
(* success when it has read it to its end.                                   *)
(*                                                                         *)
(* A token is a tag with what belongs to it.  As in Framing, a checksum is   *)
(* what it is computed of.                                                   *)
(***************************************************************************)
EXTENDS Naturals, Sequences

CONSTANTS
  Columns,     \* columns of the table
  Value,       \* values of a cell
  Null,        \* a cell without a value
  BufferSize,  \* tokens in the buffer of the HttpOutputStream
  MaxRecords   \* records that the application writes (a bound)

RecordAssumption ==
  /\ {Columns, BufferSize, MaxRecords} \subseteq Nat \ {0}
  /\ BufferSize > Columns /\ BufferSize >= 4
  /\ Null \notin Value /\ "garbage" \notin Value

VARIABLES
  writer,   \* the serializer, its HttpOutputStream and its connection
  wire,     \* what the reader has yet to take from its connection
  phase,    \* how far the transfer is
  damaged,  \* whether what arrived is not just whole records
  reader,   \* the ProtoDeserializer
  got,      \* the records that Deserialize returned
  result    \* what Deserialize returned last, or that it is reading

readVars == <<reader, got, result>>
vars == <<writer, wire, phase, damaged, readVars>>

-----------------------------------------------------------------------------
(* The writer.  buffer is mBuffer up to mPos, leftover the cells of a        *)
(* record that was not finished, written the records that Write took.        *)

Record == [1..Columns -> Value \cup {Null}]

Cell(c, v) == <<"cell", c, v>>

Metrics == <<"metrics", 0, 0>>

\* WriteCell writes nothing for a null.
Cells(r, columns) ==
  LET upto[c \in 0..columns] == IF c = 0 THEN <<>>
                                ELSE IF r[c] = Null THEN upto[c - 1]
                                ELSE Append(upto[c - 1], Cell(c, r[c]))
  IN  upto[columns]

\* The buffer is flushed when it is full and more comes.  A flush that fails
\* leaves it full; the CodedOutputStream above drops what comes until it is
\* renewed.
Emit(w, tokens) ==
  LET room == BufferSize - Len(w.buffer)
      full == w.buffer \o SubSeq(tokens, 1, room)
      rest == SubSeq(tokens, room + 1, Len(tokens))
  IN  \/ /\ w.hadError
         /\ writer' = w
         /\ UNCHANGED wire
      \/ /\ ~ w.hadError /\ rest = <<>>
         /\ writer' = [w EXCEPT !.buffer = @ \o tokens]
         /\ UNCHANGED wire
      \/ /\ ~ w.hadError /\ rest # <<>> /\ ~ w.broken
         /\ writer' = [w EXCEPT !.buffer = rest]
         /\ wire' = wire \o full
      \/ /\ ~ w.hadError /\ rest # <<>>
         /\ writer' = [w EXCEPT !.buffer = full, !.hadError = TRUE, !.broken = TRUE]
         /\ \E n \in 0..(IF w.broken THEN 0 ELSE Len(full)) : wire' = wire \o SubSeq(full, 1, n)

\* Serialize fails on a stream with an error, unless the stream has just come
\* to its limit and is renewed, which forgets the error.
Usable(w) ==
  IF ~ w.hadError THEN {w}
  ELSE IF w.renewed THEN {}
  ELSE {[w EXCEPT !.hadError = FALSE, !.renewed = TRUE]}

Serialize(r) ==
  /\ phase = "writing"
  /\ Len(writer.written) < MaxRecords
  /\ \E w \in Usable(writer) :
       Emit([w EXCEPT !.mTotalRecords = @ + 1,
                      !.mCrcCrc = Append(@, Cells(r, Columns)),
                      !.written = Append(@, r),
                      !.torn = @ \/ w.leftover # <<>>,
                      !.leftover = <<>>],
            Append(Cells(r, Columns), <<"end", Cells(r, Columns)>>))
  /\ UNCHANGED <<phase, damaged, readVars>>

\* A cell of another type than the column throws, after the cells before it.
SerializeThrows(r, columns) ==
  /\ phase = "writing"
  /\ writer.leftover = <<>> /\ ~ writer.torn
  /\ Cells(r, columns) # <<>>
  /\ \E w \in Usable(writer) :
       Emit([w EXCEPT !.leftover = Cells(r, columns)], Cells(r, columns))
  /\ UNCHANGED <<phase, damaged, readVars>>

\* The service, which finishes its records, puts metrics before the last checksum.
Complete(metrics) ==
  /\ phase = "writing"
  /\ metrics => writer.leftover = <<>> /\ ~ writer.torn
  /\ Emit(writer, <<<<"count", writer.mTotalRecords>>>>
                    \o (IF metrics THEN <<Metrics, <<"metricsEnd", <<Metrics>>>>>>
                                   ELSE <<>>)
                    \o <<<<"sum", writer.mCrcCrc>>>>)
  /\ phase' = "completed"
  /\ UNCHANGED <<damaged, readVars>>

\* RecordWriter::Close ignores whether the last Flush failed.
CloseUpstream ==
  /\ phase = "completed"
  /\ \/ /\ ~ writer.broken
        /\ wire' = wire \o writer.buffer
        /\ UNCHANGED writer
     \/ /\ writer' = [writer EXCEPT !.broken = TRUE]
        /\ \E n \in 0..(IF writer.broken THEN 0 ELSE Len(writer.buffer)) :
             wire' = wire \o SubSeq(writer.buffer, 1, n)
  /\ phase' = "closed"
  /\ UNCHANGED <<damaged, readVars>>

\* What a changed byte may make of a token.
Changed(token) ==
  {Cell(1, "garbage"), <<"garbage", 0>>}
    \cup IF token[1] = "cell"
         THEN {Cell(c, v) : c \in 1..Columns, v \in Value} \ {token}
         ELSE IF token[1] = "count" THEN {<<"count", token[2] + 1>>}
         ELSE IF token[1] = "end" THEN {<<"end", <<Cell(1, "garbage")>>>>}
         ELSE {}

Arrives ==
  /\ phase = "closed"
  /\ wire' \in {SubSeq(wire, 1, n) : n \in 0..Len(wire)}
                 \cup UNION {{[wire EXCEPT ![i] = token] : token \in Changed(wire[i])} :
                               i \in DOMAIN wire}
  /\ damaged' = (wire' # wire \/ writer.broken \/ writer.torn)
  /\ phase' = "reading"
  /\ UNCHANGED <<writer, readVars>>

\* The answer to the upload, or none.
CloseReturns ==
  /\ phase = "reading"
  /\ result = "end" /\ ~ writer.broken
  /\ phase' = "returned"
  /\ UNCHANGED <<writer, wire, damaged, readVars>>

CloseThrows ==
  /\ phase = "reading"
  /\ phase' = "threw"
  /\ UNCHANGED <<writer, wire, damaged, readVars>>

-----------------------------------------------------------------------------
(* The ProtoDeserializer.  mRecordCrc is what it is computed of: the cells   *)
(* of the record so far.                                                     *)

\* After the end or an exception no caller reads on.
Deserialize ==
  /\ phase = "reading"
  /\ result \in {"none", "record"}
  /\ result' = "reading"
  /\ UNCHANGED <<writer, wire, phase, damaged, reader, got>>

\* What a column was set to last, or what it was if it was not set.
SetLast(cells, c, was) ==
  LET of == {i \in 1..Len(cells) : cells[i][2] = c}
  IN  IF of = {} THEN was ELSE cells[CHOOSE i \in of : \A j \in of : j <= i][3]

FilledPartly(cells) ==
  [c \in 1..Columns |-> SetLast(cells, c, IF got = <<>> THEN Null ELSE got[Len(got)][c])]

\* A record that the caller passes again keeps its old values until they are
\* set, and columns that did not come are set to null.
Filled(cells) == [c \in 1..Columns |-> SetLast(cells, c, Null)]

Throws == result' = "exception" /\ UNCHANGED <<reader, got>>

GoOn(r) == reader' = r /\ UNCHANGED <<got, result>>

ReadCell(token) ==
  \/ token[1] = "cell" /\ GoOn([reader EXCEPT !.mRecordCrc = Append(@, token)])
  \/ token[3] = "garbage" /\ Throws

ReadEndUnreset(crc) ==
  IF reader.mRecordCrc # crc THEN Throws
  ELSE /\ reader' = [reader EXCEPT !.mTotalRecords = @ + 1,
                                   !.mCrcCrc = Append(@, reader.mRecordCrc)]
       /\ got' = Append(got, Filled(reader.mRecordCrc))
       /\ result' = "record"

\* RECORD_END_TAG.
ReadEnd(crc) ==
  IF reader.mRecordCrc # crc THEN Throws
  ELSE /\ reader' = [reader EXCEPT !.mTotalRecords = @ + 1,
                                   !.mCrcCrc = Append(@, reader.mRecordCrc),
                                   !.mRecordCrc = <<>>]
       /\ got' = Append(got, Filled(reader.mRecordCrc))
       /\ result' = "record"

\* META_TOTAL_RECORDS_TAG.
ReadCount(n) ==
  IF n # reader.mTotalRecords THEN Throws
  ELSE GoOn([reader EXCEPT !.mGotTotalRecords = TRUE])

\* The metrics, METRICS_END_TAG and META_CHECKSUM_TAG.
ReadMeta(token) ==
  CASE token[1] = "metrics" /\ ~ reader.mGotMetrics ->
         GoOn([reader EXCEPT !.mGotMetrics = TRUE, !.mRecordCrc = Append(@, Metrics)])
    [] token[1] = "metricsEnd" /\ reader.mGotMetrics /\ token[2] = reader.mRecordCrc ->
         GoOn(reader)
    [] token[1] = "sum" /\ token[2] = reader.mCrcCrc ->
         result' = "end" /\ UNCHANGED <<reader, got>>
    [] OTHER -> Throws

ReadTokenOrEnd ==
  /\ result = "reading"
  /\ IF wire = <<>> THEN result' = "end" /\ UNCHANGED <<wire, reader, got>>
     ELSE /\ wire' = Tail(wire)
          /\ LET token == Head(wire)
             IN  IF reader.mGotTotalRecords THEN ReadMeta(token)
                 ELSE CASE token[1] = "cell"  -> ReadCell(token)
                        [] token[1] = "end"   -> ReadEnd(token[2])
                        [] token[1] = "count" -> ReadCount(token[2])
                        [] OTHER              -> Throws
  /\ UNCHANGED <<writer, phase, damaged>>

\* The end of the input is an error wherever it comes.
ReadToken ==
  /\ result = "reading"
  /\ IF wire = <<>> THEN Throws /\ UNCHANGED wire
     ELSE /\ wire' = Tail(wire)
          /\ LET token == Head(wire)
             IN  IF reader.mGotTotalRecords THEN ReadMeta(token)
                 ELSE CASE token[1] = "cell"  -> ReadCell(token)
                        [] token[1] = "end"   -> ReadEnd(token[2])
                        [] token[1] = "count" -> ReadCount(token[2])
                        [] OTHER              -> Throws
  /\ UNCHANGED <<writer, phase, damaged>>

-----------------------------------------------------------------------------

Init ==
  /\ writer = [buffer |-> <<>>, hadError |-> FALSE, renewed |-> FALSE, broken |-> FALSE,
               mTotalRecords |-> 0, mCrcCrc |-> <<>>,
               written |-> <<>>, leftover |-> <<>>, torn |-> FALSE]
  /\ wire = <<>>
  /\ phase = "writing"
  /\ damaged = FALSE
  /\ reader = [mRecordCrc |-> <<>>, mCrcCrc |-> <<>>, mTotalRecords |-> 0,
               mGotTotalRecords |-> FALSE, mGotMetrics |-> FALSE]
  /\ got = <<>>
  /\ result = "none"

Next ==
  \/ \E r \in Record : Serialize(r)
  \/ \E r \in Record, columns \in 1..(Columns - 1) : SerializeThrows(r, columns)
  \/ \E metrics \in BOOLEAN : Complete(metrics)
  \/ CloseUpstream
  \/ Arrives
  \/ CloseReturns
  \/ CloseThrows
  \/ Deserialize
  \/ ReadToken

Spec == Init /\ [][Next]_vars

-----------------------------------------------------------------------------
(* Properties.                                                              *)

\* Whatever the connection does, and whichever records the application failed
\* to write, Deserialize returns only records that were written, in their
\* order: no cell of another record, no old value in place of a null.
ReadsOnlyWritten ==
  \E n \in 0..Len(writer.written) : got = SubSeq(writer.written, 1, n)

\* Records that arrive undamaged are read without an error.
WholeUnlessDamaged == ~ damaged => result # "exception"

\* The end is reported only after all records that Write took, and an upload
\* is closed without an exception only when the service has them all.
EndMeansAll ==
  result = "end" \/ phase = "returned" => got = writer.written
=============================================================================
