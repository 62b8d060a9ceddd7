------------------------------ MODULE Sessions ------------------------------
(***************************************************************************)
(* The sessions of the service and the other calls of its REST interface:    *)
(* sessions whose parts are committed by name, the files and tables that      *)
(* MaxStorage streams write and read, instances that are waited for, and      *)
(* lists that are read page by page; and what they promise alike.            *)
(***************************************************************************)
EXTENDS Integers, Sequences

CONSTANTS
  Client, Name, MaxRetry, List, MaxCalls,
  ChunkSize, MaxData, MaxRead, MaxFaults,
  MaxRow, WordSize, PieceSize, SessionTimeout,
  Task, Timeout, Interval, Word,
  MaxItem, PageSize

VARIABLES
  part,     \* "parts", a "file", a "table", an instance to "wait" for or a "listing"
  service,  \* what the service has
  writer,   \* the writers of the parts, or the stream that writes the file
  kind, client, inSession, reader, faults

vars == <<part, service, writer, kind, client, inSession, reader, faults>>

Parts == INSTANCE CommitSession

File == INSTANCE VolumeFile

Table == INSTANCE TableRead

Wait == INSTANCE InstanceWait

Pages == INSTANCE Listing

ASSUME SessionsAssumption ==
  /\ Parts!CommitAssumption
  /\ File!FileAssumption
  /\ Table!TableReadAssumption
  /\ Wait!WaitAssumption
  /\ Pages!ListingAssumption

-----------------------------------------------------------------------------

\* What a part has no use for stays without a value.
None == "none"

Init ==
  \/ part = "parts" /\ Parts!Init /\ inSession = None /\ reader = None /\ faults = None
  \/ part = "file" /\ File!Init /\ kind = None /\ client = None
  \/ /\ part = "table" /\ Table!Init
     /\ writer = None /\ kind = None /\ inSession = None /\ faults = None
  \/ /\ part = "wait" /\ Wait!Init
     /\ writer = None /\ kind = None /\ inSession = None /\ reader = None /\ faults = None
  \/ /\ part = "listing" /\ Pages!Init
     /\ writer = None /\ kind = None /\ client = None /\ inSession = None

partsElse == <<part, inSession, reader, faults>>
fileElse == <<part, kind, client>>
tableElse == <<part, writer, kind, inSession, faults>>
waitElse == <<part, writer, kind, inSession, reader, faults>>
listElse == <<part, writer, kind, client, inSession>>

CallStep(c) == part = "parts" /\ Parts!CallStep(c) /\ UNCHANGED partsElse
Prepared == part = "parts" /\ Parts!Prepared /\ UNCHANGED partsElse

\* The call of a part that has one caller.
OneStep ==
  \/ part = "file" /\ File!ReadStep /\ UNCHANGED fileElse
  \/ part = "table" /\ (Table!Poll \/ Table!ReadStep) /\ UNCHANGED tableElse
  \/ part = "wait" /\ Wait!WaitStep /\ UNCHANGED waitElse
  \/ part = "listing" /\ Pages!Refill /\ UNCHANGED listElse

Next ==
  \/ part = "parts" /\ Parts!Next /\ UNCHANGED partsElse
  \/ part = "file" /\ File!Next /\ UNCHANGED fileElse
  \/ part = "table" /\ Table!Next /\ UNCHANGED tableElse
  \/ part = "wait" /\ Wait!Next /\ UNCHANGED waitElse
  \/ part = "listing" /\ Pages!Next /\ UNCHANGED listElse

\* Every request is answered in the end, and the service ends the preparation of
\* a download.  Nothing is asked of the service that prepares a table's session
\* or runs an instance.
Spec ==
  /\ Init /\ [][Next]_vars
  /\ \A c \in Client : WF_vars(CallStep(c))
  /\ WF_vars(Prepared)
  /\ WF_vars(OneStep)

-----------------------------------------------------------------------------
(* Properties.                                                              *)

\* What a call reports by returning is so: a commit has closed the session with
\* the listed parts in it, an instance is at its end with every task
\* successful, a session that was built is prepared.
ReturnsAreTrue ==
  /\ part = "parts" => Parts!CommitsTheListed
  /\ part = "wait" => Wait!ReturnsOnSuccess
  /\ part = "table" => Table!BuiltIsPrepared

\* What is refused has a reason: parts that the service does not have, a task
\* that did not succeed, a session that failed, an answer that was lost.
RefusesForReason ==
  /\ part = "parts" => Parts!RefusesOnlyOthers
  /\ part = "wait" => Wait!RefusesFailed
  /\ part = "table" => Table!RefusesOnlyBroken

\* A published file holds what was written, in order.
FileHoldsWritten == part = "file" => File!FileHoldsWritten

\* A file, the rows of a split and a list are read in order, each piece once, and
\* to the end.
ReadsInOrder ==
  /\ part = "file" => File!ReadsInOrder
  /\ part = "table" => Table!RowsInOrder
  /\ part = "listing" => Pages!ListsInOrder

\* Whether a call runs, of this client where there are two.
Running(c) ==
  \/ part = "parts" /\ Parts!Running(c)
  \/ part = "file" /\ reader.pc = "reading"
  \/ part = "table" /\ (client.pc = "polling" \/ Table!Reading)
  \/ part = "wait" /\ Wait!Waiting
  \/ part = "listing" /\ Pages!Reading

\* Every call ends, busy as the service may be: the retries are bounded, the
\* polling of a download ends with its preparation, that of a table's session
\* and of an instance with its time (if the time counts), and no Read or Next
\* goes on forever.
CallsEnd ==
  \A c \in Client : Running(c) ~> (~ Running(c) \/ (part = "wait" /\ Wait!MayBeEndless))
=============================================================================
