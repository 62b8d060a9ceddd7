----------------------------- MODULE MCTransfers -----------------------------
(***************************************************************************)
(* The three framings that the tunnel uses, of record batches, of files and  *)
(* of records, and the compressing streams below them, each on small         *)
(* transfers, and what they promise alike.                                   *)
(***************************************************************************)
EXTENDS Naturals, Sequences

CONSTANTS
  WordSize,
  ChunkSize,
  MaxChunkSize,
  BatchSize,
  MaxData,
  MaxRead,
  Columns,
  Value,
  Null,
  BufferSize,
  MaxRecords,
  InputSize,
  SubSize,
  WindowSize,
  MaxBytes

VARIABLES
  format,   \* the framing of the transfer, or "codec"
  writer, wire, phase, damaged, reader, missing, batch, got, result

vars == <<format, writer, wire, phase, damaged, reader, missing, batch, got, result>>

Arrow == INSTANCE ArrowStream

Volume == INSTANCE VolumeStream WITH wanted <- missing

Records == INSTANCE RecordStream

Codec == INSTANCE CodecStream

ASSUME TransfersAssumption ==
  Arrow!WordAssumption /\ Arrow!ArrowAssumption
    /\ Volume!VolumeAssumption /\ Records!RecordAssumption
    /\ Codec!CodecAssumption

-----------------------------------------------------------------------------

Init ==
  \/ format = "arrow" /\ Arrow!Init
  \/ format = "volume" /\ Volume!Init /\ batch = <<>>
  \/ format = "records" /\ Records!Init /\ missing = 0 /\ batch = <<>>
  \/ format = "codec" /\ Codec!Init /\ missing = 0 /\ batch = <<>>

ReadStep ==
  /\ \/ format = "arrow" /\ Arrow!ReadStep
     \/ format = "volume" /\ Volume!ReadStep /\ UNCHANGED batch
     \/ format = "records" /\ Records!ReadToken /\ UNCHANGED <<missing, batch>>
     \/ format = "codec" /\ Codec!NextIn /\ UNCHANGED <<missing, batch>>
  /\ UNCHANGED format

Next ==
  \/ format = "arrow" /\ Arrow!Next /\ UNCHANGED format
  \/ format = "volume" /\ Volume!Next /\ UNCHANGED <<format, batch>>
  \/ format = "records" /\ Records!Next /\ UNCHANGED <<format, missing, batch>>
  \/ format = "codec" /\ Codec!Next /\ UNCHANGED <<format, missing, batch>>

\* A reader goes on reading: the connection answers or ends.
Spec == Init /\ [][Next]_vars /\ WF_vars(ReadStep)

-----------------------------------------------------------------------------
(* Properties.                                                              *)

\* Whatever the connection does, no reader returns what was not written there:
\* no damaged, lost or misplaced byte, no frame, no cell of another record.
ReadsOnlyWritten ==
  CASE format = "arrow"   -> Arrow!ReadsOnlyWritten
    [] format = "volume"  -> Volume!ReadsOnlyWritten
    [] format = "records" -> Records!ReadsOnlyWritten
    [] format = "codec"   -> Codec!ReadsOnlyWritten

\* A transfer that arrives undamaged is read to its end without an error.
WholeUnlessDamaged ==
  CASE format = "arrow"   -> Arrow!WholeUnlessDamaged
    [] format = "volume"  -> Volume!WholeUnlessDamaged
    [] format = "records" -> Records!WholeUnlessDamaged
    [] format = "codec"   -> Codec!WholeUnlessDamaged

\* What the reader of a volume takes for the end of a broken file is the end of
\* a full chunk.
MissesOnlyChunks == format = "volume" => Volume!MissesOnlyChunks

\* The reader of records takes nothing but the end for the end, and an upload of
\* records is closed without an exception only when the service has them all.
EndMeansAll == format = "records" => Records!EndMeansAll

\* Every Read returns: no loop spins at the end of a transfer, wherever it was
\* cut.
ReadReturns == result = "reading" ~> result # "reading"
=============================================================================
