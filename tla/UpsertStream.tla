---------------------------- MODULE UpsertStream ----------------------------
(***************************************************************************)
(* An UpsertStream (upsert_stream.cpp) over an UpsertSession, with the      *)
(* RecordPacks it buffers records in (record_pack.cpp): one thread writes,  *)
(* flushes, resets, closes and commits, requests fail with or without       *)
(* having been done, and another session with the same id may commit or     *)
(* abort at any time.                                                       *)
(*                                                                         *)
(* Records are versions of keys: accepted[k] counts the records of k that  *)
(* entered a buffer, and stored[k] is the one the service has.              *)
(***************************************************************************)
EXTENDS UpsertSession, SequencesExt

CONSTANTS
  Key,             \* values of the hash keys
  Hash,            \* the hash of each key
  RecordSizes,     \* how much a record may add to the data of its pack
  TrailerSize,     \* how much Complete adds
  mSlotBufferSize, \* data in a pack above which it is sent
  mMaxBufferSize,  \* counted data above which all packs are sent
  MaxRetries,      \* after so many retries of a pack a listener gives up
  mCommitTimeout,  \* in ticks
  MaxWrites        \* how many records of a key are written (a bound)

ASSUME UpsertStreamAssumption ==
  /\ Hash \in [Key -> Nat]
  /\ RecordSizes \subseteq Nat
  /\ {TrailerSize, mSlotBufferSize, mMaxBufferSize, MaxRetries, mCommitTimeout,
      MaxWrites} \subseteq Nat

VARIABLES
  packs,             \* mBucketBuffer
  mTotalBufferSize,  \* the data the stream has counted
  streamStatus,      \* its mStatus
  mListener,         \* whether it has a listener
  reported,          \* when the stream failed, the latest record of each key
  flush,             \* the locals of the running Flush
  pc,                \* what the thread is doing
  result,            \* what the end of its last call promised, if anything
  elapsed,           \* the time since Commit started
  accepted,          \* the latest record of each key that Append took
  stored             \* the latest record of each key that the service took

bufferVars == <<packs, mTotalBufferSize>>
streamVars == <<streamStatus, mListener, reported>>
callVars == <<flush, pc, result, elapsed>>
recordVars == <<accepted, stored>>
vars == <<sessionVars, bufferVars, streamVars, callVars, recordVars>>

\* No record of any key.
NoRecord == [k \in Key |-> 0]

-----------------------------------------------------------------------------
(* RecordPack.                                                              *)

EmptyPack == [records |-> <<>>, size |-> 0, mCompleted |-> FALSE]

Appended(pack, r, size) ==
  [pack EXCEPT !.records = Append(@, r), !.size = @ + size]

Completed(pack) ==
  IF pack.mCompleted THEN pack
  ELSE [pack EXCEPT !.mCompleted = TRUE, !.size = @ + TrailerSize]

\* Where the records of k are in a pack.
Places(k, pack) == {i \in DOMAIN pack.records : pack.records[i].key = k}

\* What the service has of k once it took the pack: the last record of k.
Latest(k, pack) ==
  IF Places(k, pack) = {} THEN stored[k]
  ELSE pack.records[Max(Places(k, pack))].version

Store(pack) == stored' = [k \in Key |-> Latest(k, pack)]

-----------------------------------------------------------------------------
(* Calls: what they start and how they end.                                 *)

NoFlush == [todo |-> {}, all |-> FALSE, closes |-> FALSE, counted |-> 0, retry |-> 0]

BucketOfSlot(k) == Hash[k] % Cardinality({mBuckets[b] : b \in DOMAIN mBuckets})

BucketOf(k) == Hash[k] % Cardinality(DOMAIN mBuckets)

\* Flush works on a copy of the table it gets at the start.
StartFlush(all, closes) ==
  /\ flush' = [todo |-> DOMAIN mBuckets, all |-> all, closes |-> closes,
               counted |-> 0, retry |-> 0]
  /\ pc' = "flush"
  /\ result' = "nothing"
  /\ UNCHANGED elapsed

Ends(how) ==
  /\ pc' = "idle"
  /\ flush' = NoFlush
  /\ result' = how
  /\ elapsed' = 0

\* Write (Upsert, Delete) appends the record, and sends when a pack or the
\* stream has too much.
Write(k, size) ==
  LET b == BucketOf(k)
      pack == Appended(packs[b], [key |-> k, version |-> accepted[k] + 1], size)
      total == mTotalBufferSize + size
  IN  /\ pc = "idle"
      /\ streamStatus = "normal"
      /\ ~ packs[b].mCompleted
      /\ accepted[k] < MaxWrites
      /\ packs' = [packs EXCEPT ![b] = pack]
      /\ mTotalBufferSize' = total
      /\ accepted' = [accepted EXCEPT ![k] = @ + 1]
      /\ IF pack.size > mSlotBufferSize THEN StartFlush(FALSE, FALSE)
         ELSE IF total > mMaxBufferSize THEN StartFlush(TRUE, FALSE)
         ELSE Ends("nothing")
      /\ UNCHANGED <<sessionVars, streamVars, stored>>

\* The stream is closed or has failed, or the pack is still to be sent.
WriteThrows(k) ==
  /\ pc = "idle"
  /\ streamStatus # "normal" \/ packs[BucketOf(k)].mCompleted
  /\ Ends("nothing")
  /\ UNCHANGED <<sessionVars, bufferVars, streamVars, recordVars>>

Flush(all) ==
  /\ pc = "idle"
  /\ StartFlush(all, FALSE)
  /\ UNCHANGED <<sessionVars, bufferVars, streamVars, recordVars>>

\* Close flushes a stream that is open.  Of one that is closed or has failed it
\* returns at once, whatever a failed stream still buffers.
Close ==
  /\ pc = "idle"
  /\ IF streamStatus = "normal" THEN StartFlush(TRUE, TRUE) ELSE Ends("closed")
  /\ UNCHANGED <<sessionVars, bufferVars, streamVars, recordVars>>

\* Reset gives up what is buffered and makes the stream usable again.
Reset ==
  /\ pc = "idle"
  /\ packs' = [b \in DOMAIN packs |-> IF b \in DOMAIN mBuckets THEN EmptyPack ELSE packs[b]]
  /\ mTotalBufferSize' = 0
  /\ streamStatus' = "normal"
  /\ accepted' = stored
  /\ reported' = NoRecord
  /\ Ends("nothing")
  /\ UNCHANGED <<sessionVars, mListener, stored>>

-----------------------------------------------------------------------------
(* The loop of Flush.                                                       *)

Current == CHOOSE b \in flush.todo : \A c \in flush.todo : b <= c

Due(pack) == pack.records # <<>> /\ (pack.size > mSlotBufferSize \/ flush.all)

AtBucket == pc = "flush" /\ flush.todo # {}

PassBucketUncounted ==
  LET b == Current
  IN  /\ AtBucket
      /\ ~ Due(packs[b])
      /\ flush' = [flush EXCEPT !.todo = @ \ {b}]
      /\ UNCHANGED <<sessionVars, bufferVars, streamVars, pc, result, elapsed, recordVars>>

\* Too little to send.
PassBucket ==
  LET b == Current
  IN  /\ AtBucket
      /\ ~ Due(packs[b])
      /\ flush' = [flush EXCEPT !.todo = @ \ {b},
                                !.counted = IF packs[b].records = <<>> THEN @
                                            ELSE @ + packs[b].size]
      /\ UNCHANGED <<sessionVars, bufferVars, streamVars, pc, result, elapsed, recordVars>>

\* The service takes the pack.
PackSent ==
  LET b == Current
  IN  /\ AtBucket
      /\ Due(packs[b])
      /\ service = "normal"
      /\ Store(packs[b])
      /\ UpdateSlot(mBuckets[b])
      /\ packs' = [packs EXCEPT ![b] = EmptyPack]
      /\ flush' = [flush EXCEPT !.todo = @ \ {b}, !.retry = 0]
      /\ UNCHANGED <<mStatus, service, faults, mTotalBufferSize, streamVars, pc,
                     result, elapsed, accepted>>

\* The pack is completed but the request ends in an error or without an
\* answer: the session is no longer open, or one of the faults there may be,
\* after which the service may still have taken the pack.
PackRefused ==
  /\ service # "normal"
  /\ UNCHANGED <<faults, stored>>

PackFaulty ==
  /\ Faulty
  /\ \/ service = "normal" /\ Store(packs[Current])
     \/ UNCHANGED stored

PackUnsentForgotten ==
  LET b == Current
  IN  /\ AtBucket
      /\ Due(packs[b])
      /\ \/ PackRefused /\ UNCHANGED <<mBuckets, mStatus>>
         \/ PackFaulty /\ Reload
         \/ PackFaulty /\ UNCHANGED <<mBuckets, mStatus>>
      /\ packs' = [packs EXCEPT ![b] = EmptyPack]
      /\ UNCHANGED <<service, mTotalBufferSize, mListener, accepted>>

\* (Only a 502 or a 504 makes OnWriteRecordPack reload the session.)
PackUnsent ==
  LET b == Current
  IN  /\ AtBucket
      /\ Due(packs[b])
      /\ \/ PackRefused /\ UNCHANGED <<mBuckets, mStatus>>
         \/ PackFaulty /\ Reload
         \/ PackFaulty /\ UNCHANGED <<mBuckets, mStatus>>
      /\ packs' = [packs EXCEPT ![b] = Completed(@)]
      /\ UNCHANGED <<service, mTotalBufferSize, mListener, accepted>>

\* OnFlushFail asks for another try.
PackRetried ==
  /\ PackUnsent
  /\ mListener
  /\ flush.retry < MaxRetries
  /\ flush' = [flush EXCEPT !.retry = @ + 1]
  /\ UNCHANGED <<streamStatus, reported, pc, result, elapsed>>

\* It does not: the stream has failed, and the exception tells its caller.
PackGivenUp ==
  /\ PackUnsent
  /\ mListener
  /\ streamStatus' = "error"
  /\ reported' = accepted
  /\ Ends("nothing")

\* No listener: the exception is the caller's.
PackThrows ==
  /\ PackUnsent
  /\ ~ mListener
  /\ Ends("nothing")
  /\ UNCHANGED <<streamStatus, reported>>

HowEnded ==
  IF flush.closes THEN "closed" ELSE IF flush.all THEN "flushed" ELSE "nothing"

FlushDoneEarly ==
  /\ pc = "flush"
  /\ Cardinality(flush.todo) <= 1
  /\ mTotalBufferSize' = IF flush.all THEN 0 ELSE flush.counted
  /\ streamStatus' = IF flush.closes THEN "closed" ELSE streamStatus
  /\ Ends(HowEnded)
  /\ UNCHANGED <<sessionVars, packs, mListener, reported, recordVars>>

FlushDone ==
  /\ pc = "flush"
  /\ flush.todo = {}
  /\ mTotalBufferSize' = IF flush.all THEN 0 ELSE flush.counted
  /\ streamStatus' = IF flush.closes THEN "closed" ELSE streamStatus
  /\ Ends(HowEnded)
  /\ UNCHANGED <<sessionVars, packs, mListener, reported, recordVars>>

-----------------------------------------------------------------------------
(* Commit and Abort.                                                        *)

Commit ==
  /\ pc = "idle"
  /\ CommitAnswered
  /\ pc' = "commit"
  /\ UNCHANGED <<bufferVars, streamVars, flush, result, elapsed, recordVars>>

CommitAsync ==
  /\ pc = "idle"
  /\ CommitAnswered
  /\ Ends("nothing")
  /\ UNCHANGED <<bufferVars, streamVars, recordVars>>

CommitFails ==
  /\ pc \in {"idle", "commit"}
  /\ pc = "commit" => StillCommitting /\ elapsed <= mCommitTimeout
  /\ CommitThrows
  /\ Ends("nothing")
  /\ UNCHANGED <<bufferVars, streamVars, recordVars>>

CommitPollRestarted ==
  /\ pc = "commit"
  /\ StillCommitting
  /\ elapsed <= mCommitTimeout
  /\ CommitAnswered
  /\ elapsed' = 0
  /\ UNCHANGED <<bufferVars, streamVars, flush, pc, result, recordVars>>

CommitPoll ==
  /\ pc = "commit"
  /\ StillCommitting
  /\ elapsed <= mCommitTimeout
  /\ CommitAnswered
  /\ UNCHANGED <<bufferVars, streamVars, callVars, recordVars>>

CommitTimesOut ==
  /\ pc = "commit"
  /\ StillCommitting
  /\ elapsed > mCommitTimeout
  /\ Ends("nothing")
  /\ UNCHANGED <<sessionVars, bufferVars, streamVars, recordVars>>

CommitReturnsUnchecked ==
  /\ pc = "commit"
  /\ ~ StillCommitting
  /\ Ends("committed")
  /\ UNCHANGED <<sessionVars, bufferVars, streamVars, recordVars>>

CommitReturns ==
  /\ pc = "commit"
  /\ ~ StillCommitting
  /\ IF mStatus = "committed" THEN Ends("committed") ELSE Ends("nothing")
  /\ UNCHANGED <<sessionVars, bufferVars, streamVars, recordVars>>

Abort ==
  /\ pc = "idle"
  /\ AbortRequest
  /\ Ends("nothing")
  /\ UNCHANGED <<bufferVars, streamVars, recordVars>>

Tick ==
  /\ pc = "commit"
  /\ elapsed <= mCommitTimeout
  /\ elapsed' = elapsed + 1
  /\ UNCHANGED <<sessionVars, bufferVars, streamVars, flush, pc, result, recordVars>>

SessionMoves ==
  /\ ServiceMoves
  /\ UNCHANGED <<bufferVars, streamVars, callVars, recordVars>>

-----------------------------------------------------------------------------

Init ==
  /\ InitSession
  /\ packs = [b \in DOMAIN mBuckets |-> EmptyPack]
  /\ mTotalBufferSize = 0
  /\ streamStatus = "normal"
  /\ mListener \in BOOLEAN
  /\ reported = NoRecord
  /\ flush = NoFlush
  /\ pc = "idle"
  /\ result = "nothing"
  /\ elapsed = 0
  /\ accepted = NoRecord
  /\ stored = NoRecord

FlushStep ==
  \/ PassBucket \/ PackSent \/ PackRetried \/ PackGivenUp \/ PackThrows \/ FlushDone

CommitStep == CommitPoll \/ CommitTimesOut \/ CommitReturns

Next ==
  \/ \E k \in Key : WriteThrows(k) \/ \E size \in RecordSizes : Write(k, size)
  \/ \E all \in BOOLEAN : Flush(all)
  \/ Close
  \/ Reset
  \/ FlushStep
  \/ Commit
  \/ CommitAsync
  \/ CommitFails
  \/ CommitStep
  \/ Abort
  \/ Tick
  \/ SessionMoves

\* A call that runs goes on, and so does the clock.
Fairness == WF_vars(FlushStep) /\ WF_vars(CommitStep) /\ WF_vars(Tick)

Spec == Init /\ [][Next]_vars /\ Fairness

-----------------------------------------------------------------------------
(* Properties.                                                              *)

Pack ==
  [records : Seq([key : Key, version : Nat]), size : Nat, mCompleted : BOOLEAN]

\* Every variable has its type; the session always has a slot for every
\* bucket, so that Flush finds all packs and a key never changes its bucket,
\* although UpdateSlot takes a slot id for a bucket.
TypeOK ==
  /\ mBuckets \in [Bucket -> SlotIds]
  /\ mStatus \in ServiceStatus /\ service \in ServiceStatus
  /\ faults \in Nat
  /\ packs \in [Bucket -> Pack]
  /\ mTotalBufferSize \in Nat
  /\ streamStatus \in {"normal", "error", "closed"}
  /\ mListener \in BOOLEAN
  /\ flush \in [todo : SUBSET Bucket, all : BOOLEAN, closes : BOOLEAN,
               counted : Nat, retry : Nat]
  /\ pc \in {"idle", "flush", "commit"}
  /\ elapsed \in Nat
  /\ {accepted, stored, reported} \subseteq [Key -> Nat]

Version(b, i) == packs[b].records[i].version

\* Between a write and the service no record is lost and none changes place:
\* the pack of its bucket has the latest records of a key, each once and in
\* their order, from the first the service may lack; no other pack has any.
NothingLost ==
  \A k \in Key, b \in Bucket :
    LET places == Places(k, packs[b])
    IN  IF b = BucketOf(k)
        THEN /\ \A i, j \in places : i < j => Version(b, i) < Version(b, j)
             /\ \E first \in 1 .. (accepted[k] + 1) :
                  /\ {Version(b, i) : i \in places} = first .. accepted[k]
                  /\ stored[k] \in {first - 1, accepted[k]}
        ELSE places = {}

\* Whatever fails and is tried again, possibly twice, the service never goes
\* back to an older record of a key.
NeverOverwritesNewer == [][\A k \in Key : stored'[k] >= stored[k]]_vars

\* When Flush of all packs returns, the service has every record, and a closed
\* stream has nothing left to send.  Close also returns, without an exception,
\* when the stream failed and still buffers records: what it leaves behind then
\* had all been written when the application got the exception of that failure,
\* and nothing after it.
FlushDelivers ==
  /\ result = "flushed" => stored = accepted
  /\ streamStatus = "closed" => stored = accepted
  /\ result = "closed" =>
       stored = accepted \/ (streamStatus = "error" /\ reported = accepted)

\* What the stream buffers is counted, however flushes end: an error never
\* makes it forget data, so it comes back to flush.  (What Complete added to
\* the packs that could not be sent is not counted.)
NeverUndercounted ==
  LET unsent == {b \in Bucket : packs[b].mCompleted}
  IN  FoldFunction(LAMBDA pack, sum : pack.size + sum, 0, packs) <=
        mTotalBufferSize + TrailerSize * Cardinality(unsent)

\* Commit returns without an exception only if the service has committed.
CommitTruthful == result = "committed" => service = "committed"

\* Flush and Commit return, with or without an exception, whatever the service
\* answers.
CallsEnd == pc # "idle" ~> pc = "idle"
=============================================================================
