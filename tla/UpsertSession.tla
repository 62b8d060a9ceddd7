---------------------------- MODULE UpsertSession ----------------------------
(***************************************************************************)
(* An UpsertSession (upsert.cpp): the table that says which slot serves    *)
(* each bucket, and the session's status, both of which every answer of the *)
(* service replaces.  The stream that writes through the session is in     *)
(* UpsertStream.                                                            *)
(***************************************************************************)
EXTENDS Naturals, Sequences, FiniteSets

CONSTANTS
  Bucket,      \* the buckets of the table
  SlotTables,  \* slot tables the service may answer: sequences of slots, each
               \* with an id and the buckets it serves
  MaxFaults    \* how many requests may go wrong (a bound)

VARIABLES
  mBuckets,  \* the slot id of each bucket
  mStatus,   \* the status the service last told
  service,   \* the session's status at the service
  faults     \* how many requests went wrong

sessionVars == <<mBuckets, mStatus, service, faults>>

-----------------------------------------------------------------------------

SlotIds == UNION {{table[i].mSlotId : i \in DOMAIN table} : table \in SlotTables}

ServiceStatus == {"normal", "committing", "committed", "critical", "aborted"}

Serves(table, i, b) == b \in table[i].mBuckets

\* mBuckets after the first k slots: insert does not replace an entry.
Inserted(table, k) ==
  [b \in {c \in Bucket : \E i \in 1 .. k : Serves(table, i, c)} |->
     LET i == CHOOSE j \in 1 .. k :
                Serves(table, j, b) /\ \A l \in 1 .. (j - 1) : ~ Serves(table, l, b)
     IN  table[i].mSlotId]

\* What is tested after each slot.
BucketsValid(buckets) == \A b \in DOMAIN buckets : b < Cardinality(DOMAIN buckets)

Accepted(table) ==
  table # <<>> /\ \A k \in DOMAIN table : BucketsValid(Inserted(table, k))

\* An exception leaves the slots up to the one that failed the test.
Loaded(table) ==
  LET Reached(k) == \A j \in 1 .. (k - 1) : BucketsValid(Inserted(table, j))
      last == CHOOSE k \in DOMAIN table :
                Reached(k) /\ \A j \in DOMAIN table : Reached(j) => j <= k
  IN  Inserted(table, last)

\* The service numbers the buckets from 0 and lists each slot's before those
\* of the next; it never changes how many there are.
ASSUME UpsertSessionAssumption ==
  /\ Bucket = 0 .. (Cardinality(Bucket) - 1) /\ IsFiniteSet(Bucket) /\ Bucket # {}
  /\ SlotTables # {}
  /\ SlotTables \subseteq Seq([mSlotId : Nat, mBuckets : SUBSET Bucket])
  /\ \A table \in SlotTables :
       Accepted(table) /\ UNION {table[i].mBuckets : i \in DOMAIN table} = Bucket
  /\ MaxFaults \in Nat

LoadSlots(table) == mBuckets' = Loaded(table)

UpdateSlotInserted(id) ==
  mBuckets' = [b \in DOMAIN mBuckets \cup {id} |-> IF b = id THEN id ELSE mBuckets[b]]

\* UpdateSlot takes the slot id for a bucket: at() finds the bucket of that
\* number or throws, and the exception is ignored.
UpdateSlot(id) ==
  mBuckets' = [b \in DOMAIN mBuckets |-> IF b = id THEN id ELSE mBuckets[b]]

Faulty == faults < MaxFaults /\ faults' = faults + 1

\* Reload, as OnWriteRecordPack calls it: an exception is logged.
Reload ==
  \/ /\ service # "aborted"
     /\ mStatus' = service
     /\ \E table \in SlotTables : LoadSlots(table)
  \/ UNCHANGED <<mStatus, mBuckets>>

-----------------------------------------------------------------------------
(* Commit and Abort.                                                        *)

\* The service goes on with a commit that was asked for, by this session or
\* by another one with the same id, which may also have aborted it.
Follows(s) ==
  CASE s = "normal"     -> {"normal", "committing", "committed", "aborted"}
    [] s = "committing" -> {"committing", "committed", "critical", "aborted"}
    [] s = "critical"   -> {"critical", "aborted"}
    [] OTHER            -> {s}

ServiceMoves ==
  /\ service' \in Follows(service) \ {service}
  /\ UNCHANGED <<mBuckets, mStatus, faults>>

\* CommitRequest, answered.
CommitAnswered ==
  /\ service \notin {"aborted"}
  /\ service' \in Follows(service) \ {"aborted"}
  /\ mStatus' = service'
  /\ \E table \in SlotTables : LoadSlots(table)
  /\ UNCHANGED faults

\* CommitRequest throws: the answer is an error or does not come, and the
\* service may still have taken the request.
CommitThrows ==
  /\ \/ service = "aborted" /\ UNCHANGED <<service, faults>>
     \/ Faulty /\ service' \in Follows(service) \ {"aborted"}
  /\ UNCHANGED <<mBuckets, mStatus>>

AbortRequest ==
  /\ \/ service # "committed" /\ service' = "aborted" /\ UNCHANGED faults
     \/ service = "committed" /\ UNCHANGED <<service, faults>>
     \/ Faulty /\ UNCHANGED service
  /\ UNCHANGED <<mBuckets, mStatus>>

\* The loop of Commit goes on while the status is one of these.
StillCommitting == mStatus \in {"committing", "normal"}

\* The answer to Initiate.
InitSession ==
  /\ \E table \in SlotTables : mBuckets = Loaded(table)
  /\ mStatus = "normal"
  /\ service = "normal"
  /\ faults = 0
=============================================================================
