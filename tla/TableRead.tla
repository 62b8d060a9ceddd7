------------------------------ MODULE TableRead ------------------------------
(***************************************************************************)
(* A MaxStorage read: the session of a table or of an instance's result,     *)
(* which the client creates and polls until it is ready or fetches by its     *)
(* id, and a stream of it (or of no session: a preview or a direct read of    *)
(* an instance), whose Read opens the request and takes arrow messages from   *)
(* the pieces of its answer.                                                 *)
(*                                                                         *)
(* An answer is a schema, a batch for every row, and perhaps a mark of its    *)
(* end; each message is a mark and a size, a word each, and a body, of one    *)
(* word here.  A row is its place in the table.                              *)
(***************************************************************************)
EXTENDS Integers, Sequences, SequencesExt

CONSTANTS
  MaxRow,          \* rows of the table (a bound)
  WordSize,        \* units of a word
  PieceSize,       \* units that the connection gives at once
  SessionTimeout   \* CREATE_SESSION_TIMEOUT_MS, in sleeps

TableReadAssumption ==
  /\ {WordSize, PieceSize} \subseteq Nat \ {0}
  /\ {MaxRow, SessionTimeout} \subseteq Nat

VARIABLES
  service,  \* the status of the session
  client,   \* the session object: its kind, its mStatus, whether it created the session
  reader    \* the stream, its ArrowBatchReader and what Read returned

vars == <<service, client, reader>>

-----------------------------------------------------------------------------
(* The session.                                                             *)

\* The service prepares the session, or fails to.
SessionMoves ==
  /\ service = "INIT"
  /\ service' \in {"NORMAL", "failed"}
  /\ UNCHANGED <<client, reader>>

LoadedUnchecked(c) ==
  [c EXCEPT !.mStatus = service,
            !.pc = IF c.created /\ service = "INIT" THEN "polling" ELSE "built"]

\* LoadSession of a table refuses a session that failed, LoadFromJson of an
\* instance does not; only one that this object created is waited for.
Loaded(c) ==
  [c EXCEPT !.mStatus = service,
            !.pc = IF c.kind = "table" /\ service = "failed" THEN "refused"
                   ELSE IF c.created /\ service = "INIT" THEN "polling" ELSE "built"]

RequestFails == client' = [client EXCEPT !.pc = "threw"]

CallBuild(created) ==
  /\ client.pc = "none" /\ client.kind # "direct"
  /\ client' = Loaded([client EXCEPT !.created = created]) \/ RequestFails
  /\ UNCHANGED <<service, reader>>

\* The time is looked at after the answer, and an answer that came too late is
\* not taken, whatever it says.
Polled ==
  LET c == Loaded([client EXCEPT !.elapsed = @ + 1])
  IN  IF c.pc # "refused" /\ c.elapsed > SessionTimeout THEN [c EXCEPT !.pc = "timeout"]
      ELSE c

Poll ==
  /\ client.pc = "polling"
  /\ client' = Polled \/ RequestFails
  /\ UNCHANGED <<service, reader>>

-----------------------------------------------------------------------------
(* The stream.                                                              *)

StreamOf(offset, count) ==
  [pc |-> "idle", mOffset |-> offset, mCount |-> count, mEof |-> FALSE, mClosed |-> FALSE,
   got |-> <<>>,
   mReader |-> "none", wire |-> <<>>, lost |-> FALSE, unread |-> <<>>, mEOF |-> FALSE,
   item |-> "mark", taken |-> <<>>]

Reading == reader.pc = "reading"

\* SetSplit and Build; the stream of a session needs its object.
CallStream(offset, count) ==
  /\ reader.pc = "none"
  /\ client.kind = "direct" \/ client.pc = "built"
  /\ reader' = StreamOf(offset, count)
  /\ UNCHANGED <<service, client>>

\* After an exception of a reader that was open no caller reads on.
CallRead ==
  /\ reader.pc \notin {"none", "reading", "broken"}
  /\ reader' = [reader EXCEPT !.pc = IF reader.mClosed THEN "threw"
                                     ELSE IF reader.mEof THEN "end" ELSE "reading"]
  /\ UNCHANGED <<service, client>>

CallClose ==
  /\ reader.pc \notin {"none", "reading"}
  /\ reader' = [reader EXCEPT !.mClosed = TRUE]
  /\ UNCHANGED <<service, client>>

Lesser(a, b) == IF a < b THEN a ELSE b

\* An offset below 0 is 0, and no count is the rest.
Rows(r) ==
  LET offset == IF r.mOffset < 0 THEN 0 ELSE r.mOffset
      count == IF r.mCount <= 0 THEN MaxRow ELSE r.mCount
  IN  [i \in 1..Lesser(count, MaxRow - offset) |-> offset + i]

Mark == -1
Size == -2
NoSize == -3
Schema == 0

\* The words of an answer, three to a message; its end may be marked or not.
Words(r, marked) ==
  LET messages == Len(Rows(r)) + 1
  IN  [k \in 1..(3 * messages + IF marked THEN 2 ELSE 0) |->
         CASE k % 3 = 1 -> Mark
           [] k % 3 = 2 -> IF k > 3 * messages THEN NoSize ELSE Size
           [] OTHER     -> IF k = 3 THEN Schema ELSE Rows(r)[(k \div 3) - 1]]

Units(words) == [i \in 1..(WordSize * Len(words)) |-> words[((i - 1) \div WordSize) + 1]]

Answers(r) == {Units(Words(r, marked)) : marked \in BOOLEAN}

\* OpenReader and the constructor of ArrowBatchReader, up to the schema; the
\* connection is lost after a part of the answer, or not.  A session that is not
\* ready has no answer.
OpenReader ==
  /\ Reading
  /\ reader.mReader = "none"
  /\ \/ reader' = [reader EXCEPT !.pc = "threw"]
     \/ /\ client.kind = "direct" \/ service = "NORMAL"
        /\ \E answer \in Answers(reader) : \E n \in 0..Len(answer) :
             reader' = [reader EXCEPT !.mReader = "schema", !.wire = SubSeq(answer, 1, n),
                                      !.lost = n < Len(answer), !.unread = <<>>,
                                      !.mEOF = FALSE, !.item = "mark", !.taken = <<>>]
  /\ UNCHANGED <<service, client>>

BrokenReset(r) == [r EXCEPT !.pc = "threw", !.mReader = "none"]

\* A reader that was not constructed is not kept, and the next Read opens
\* another; one that was is kept.
Broken(r) ==
  IF r.mReader = "schema" THEN [r EXCEPT !.pc = "threw", !.mReader = "none"]
  ELSE [r EXCEPT !.pc = "broken"]

\* Read returns no batch: the stream is at its end for good.
NoMessage(r) ==
  IF r.mReader = "schema" THEN Broken(r)
  ELSE [r EXCEPT !.pc = "end", !.mEof = TRUE, !.mReader = "none"]

\* A word is whole.
Item(r, x) ==
  IF r.item = "mark" THEN [r EXCEPT !.item = "size"]
  ELSE IF r.item = "size"
       THEN IF x = NoSize THEN NoMessage(r) ELSE [r EXCEPT !.item = "body"]
  ELSE IF r.mReader = "schema" THEN [r EXCEPT !.item = "mark", !.mReader = "open"]
  ELSE [r EXCEPT !.item = "mark", !.got = Append(@, x), !.pc = "batch"]

Open == Reading /\ reader.mReader # "none"

\* HttpInputStream fills its buffer with what the connection has.
Fetch ==
  /\ Open
  /\ ~ reader.mEOF
  /\ reader.unread = <<>> /\ reader.wire # <<>>
  /\ \E n \in 1..Lesser(PieceSize, Len(reader.wire)) :
       reader' = [reader EXCEPT !.unread = SubSeq(reader.wire, 1, n),
                                !.wire = SubSeq(@, n + 1, Len(@))]
  /\ UNCHANGED <<service, client>>

\* ArrowInputStream::Read gives what is buffered, which may be less than was
\* asked for.  A body is read on, but a mark or a size that is short is broken.
Take ==
  /\ Open
  /\ ~ reader.mEOF
  /\ reader.unread # <<>>
  /\ LET n == Lesser(Len(reader.unread), WordSize - Len(reader.taken))
         r == [reader EXCEPT !.taken = @ \o SubSeq(reader.unread, 1, n),
                             !.unread = SubSeq(@, n + 1, Len(@))]
     IN  reader' = IF Len(r.taken) = WordSize THEN Item([r EXCEPT !.taken = <<>>], r.taken[1])
                   ELSE IF r.item = "body" THEN r ELSE Broken(r)
  /\ UNCHANGED <<service, client>>

AtEOFEndless(r) ==
  IF r.item = "mark" THEN NoMessage([r EXCEPT !.mEOF = TRUE])
  ELSE IF r.item = "body" THEN r ELSE Broken(r)

\* Nothing instead of a mark is the end, and nothing instead of a size is
\* broken; a body is asked for again, which fails once mEOF is set.
AtEOF(r) ==
  IF r.mEOF THEN Broken(r)
  ELSE LET s == [r EXCEPT !.mEOF = TRUE]
       IN  IF r.item = "mark" THEN NoMessage(s) ELSE IF r.item = "body" THEN s ELSE Broken(s)

TakeNothing ==
  /\ Open
  /\ reader.mEOF \/ (reader.unread = <<>> /\ reader.wire = <<>>)
  /\ reader' = AtEOF(reader)
  /\ UNCHANGED <<service, client>>

-----------------------------------------------------------------------------

Init ==
  /\ service = "INIT"
  /\ \E kind \in {"table", "instance", "direct"} :
       client = [kind |-> kind, pc |-> "none", created |-> FALSE, mStatus |-> "none",
                 elapsed |-> 0]
  /\ reader = [StreamOf(0, 0) EXCEPT !.pc = "none"]

ReadStep == OpenReader \/ Fetch \/ Take \/ TakeNothing

Next ==
  \/ SessionMoves
  \/ \E created \in BOOLEAN : CallBuild(created)
  \/ Poll
  \/ \E offset \in -1..MaxRow, count \in 0..1 : CallStream(offset, count)
  \/ CallRead
  \/ CallClose
  \/ ReadStep

Spec == Init /\ [][Next]_vars

-----------------------------------------------------------------------------
(* Properties.                                                              *)

\* A session that the client created is returned when it is no longer being
\* prepared, and that of a table only when it is ready.
BuiltIsPrepared ==
  client.pc = "built" /\ client.created =>
    service # "INIT" /\ (client.kind = "table" => service = "NORMAL")

\* A session is refused only if it failed; an open stream breaks only if the
\* connection was lost, or a mark or a size came in two pieces.
RefusesOnlyBroken ==
  /\ client.pc = "refused" => service = "failed"
  /\ reader.pc = "broken" =>
       reader.lost \/ (reader.item # "body" /\ reader.taken # <<>>)

\* The rows of a split come in order and each once, whatever Read throws on the
\* way, and all before the end, unless the connection was lost.
RowsInOrder ==
  /\ IsPrefix(reader.got, Rows(reader))
  /\ reader.pc = "end" => reader.got = Rows(reader) \/ reader.lost
=============================================================================
