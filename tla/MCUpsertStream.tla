---------------------------- MODULE MCUpsertStream ----------------------------
(* Instance of UpsertStream for TLC. *)
EXTENDS UpsertStream

CONSTANTS k1, k2

MCBucket == {0, 1}

MCHash == (k1 :> 2) @@ (k2 :> 5)

\* One slot or two; ids that are also the numbers of other buckets, and one
\* that is no bucket's.
MCSlotTables ==
  { <<[mSlotId |-> 1, mBuckets |-> {0, 1}]>>,
    <<[mSlotId |-> 1, mBuckets |-> {0}], [mSlotId |-> 2, mBuckets |-> {1}]>> }

MCRecordSizes == {1}
===============================================================================
